---------------------------- MODULE RequestParser ----------------------------
(***************************************************************************)
(* The request parsers of request.c, request_admin.c and request_data.c,   *)
(* byte by byte, fed from a read buffer that recv fills as it likes.  What *)
(* SmtpParsers says of whole lines is what these do to their bytes, as     *)
(* long as a line fits; this module is also about the lines that do not,   *)
(* and about reads that cut a line anywhere.                               *)
(***************************************************************************)
EXTENDS Integers, Sequences, FiniteSetsExt

CONSTANTS VerbMax,     \* sizeof verb - 1
          ArgMax,      \* sizeof arg - 1
          DataMax,     \* sizeof data - 1
          BufferSize,  \* BUFFER_SIZE, of the read buffer
          Byte,        \* the bytes, those that are told apart among them
          WithoutArg,  \* the verbs each parser takes without an argument, by mode
          Reads        \* what a recv may bring, by mode

Mode == {"READ", "ADMIN", "DATA"}
SP == "SP"
CR == "CR"
LF == "LF"
Dot == "."
NUL == "NUL"

ASSUME ParserAssumption ==
  /\ VerbMax \in Nat /\ ArgMax \in Nat /\ DataMax \in Nat /\ BufferSize \in Nat
  /\ VerbMax <= ArgMax /\ BufferSize <= DataMax
  /\ {SP, CR, LF, Dot, NUL} \subseteq Byte
  /\ \A m \in Mode : \A v \in WithoutArg[m] : v \in Seq(Byte \ {NUL})
  /\ \A m \in Mode : \A bytes \in Reads[m] : bytes \in Seq(Byte) /\ Len(bytes) \in 1..BufferSize

\* A recv may bring one byte less: the parser between two bytes of a read is thus the
\* parser after a shorter read, and an invariant speaks of it.
ASSUME ShorterReads ==
  \A m \in Mode :
    LET brought == Reads[m]
    IN  \A bytes \in brought : Len(bytes) > 1 => SubSeq(bytes, 1, Len(bytes) - 1) \in brought

VARIABLES mode,       \* the state of the session's machine
          p,          \* struct request_parser and its request
          rbuf,       \* the unread bytes of read_buffer
          seen        \* the bytes the parser was fed since it was initialised

vars == <<mode, p, rbuf, seen>>

State == {"verb", "arg", "cr", "data", "body", "done", "error"}

Fresh(state) ==
  [state |-> state, i |-> 0, verb |-> [k \in 0..VerbMax |-> NUL], arg |-> [k \in 0..ArgMax |-> NUL],
   data |-> [k \in 0..DataMax |-> NUL]]

request_parser_init(m) == Fresh(IF m = "DATA" THEN "body" ELSE "verb")

\* A C string in an array.
Text(array) ==
  LET end == Min({k \in DOMAIN array : array[k] = NUL} \cup {Max(DOMAIN array) + 1})
  IN  [k \in 1..end |-> array[k - 1]]

request_is_done(q) == q.state \in {"done", "error", "segv"}

\* strncasecmp with the length of the verb looked for.
StartsWithVerb(text, verbs) ==
  \E v \in verbs : Len(v) <= Len(text) /\ SubSeq(text, 1, Len(v)) = v

-----------------------------------------------------------------------------
(* One byte.  The next parser is one of a set: command() leaves its answer *)
(* uninitialised when the verb is too long.                                *)

Stored(q, field, c) == [q EXCEPT ![field][q.i] = c, !.i = @ + 1]

\* Mutant: the verb takes the place of its NUL too.
verb_long(q, c) ==
  CASE c = SP -> [q EXCEPT !.arg[q.i] = NUL, !.i = 0, !.state = "arg"]
    [] c = CR -> IF StartsWithVerb(Text(q.verb), WithoutArg["READ"])
                 THEN [q EXCEPT !.verb[q.i] = NUL, !.i = 0, !.state = "cr"]
                 ELSE [q EXCEPT !.state = "error"]
    [] OTHER  -> IF q.i <= VerbMax THEN Stored(q, "verb", c) ELSE [q EXCEPT !.state = "error"]

verb(q, c) ==
  CASE c = SP -> [q EXCEPT !.arg[q.i] = NUL, !.i = 0, !.state = "arg"]
    [] c = CR -> IF StartsWithVerb(Text(q.verb), WithoutArg["READ"])
                 THEN [q EXCEPT !.verb[q.i] = NUL, !.i = 0, !.state = "cr"]
                 ELSE [q EXCEPT !.state = "error"]
    [] OTHER  -> IF q.i < VerbMax THEN Stored(q, "verb", c) ELSE [q EXCEPT !.state = "error"]

command(q, c) ==
  CASE c = SP -> {[q EXCEPT !.verb[q.i] = NUL, !.i = 0, !.state = "arg"]}
    [] c = CR -> {IF StartsWithVerb(Text(q.verb), WithoutArg["ADMIN"])
                  THEN [q EXCEPT !.verb[q.i] = NUL, !.i = 0, !.state = "cr"]
                  ELSE [q EXCEPT !.state = "error"]}
    [] c \notin {SP, CR} /\ q.i < VerbMax -> {Stored(q, "verb", c)}
    [] OTHER -> {[q EXCEPT !.state = s] : s \in State}

\* Mutant: an argument that does not fit is cut.
arg_cut(q, c) ==
  CASE c = CR -> [q EXCEPT !.arg[q.i] = NUL, !.state = "cr"]
    [] c # CR /\ q.i < ArgMax -> Stored(q, "arg", c)
    [] OTHER -> q

\* arg and command_arg.
arg(q, c) ==
  CASE c = CR -> [q EXCEPT !.arg[q.i] = NUL, !.state = "cr"]
    [] c # CR /\ q.i < ArgMax -> Stored(q, "arg", c)
    [] OTHER -> [q EXCEPT !.state = "error"]

\* Mutant: a dot at the end of any line terminates a body.
Terminates_anywhere(q, c) == c = CR /\ q.i > 1 /\ q.data[q.i - 1] = Dot

\* Is c the CR of a body's terminator?
Terminates(q, c) == c = CR /\ q.i > 1 /\ q.data[q.i - 1] = Dot /\ q.data[q.i - 2] = LF

\* The CRLF before the terminator's dot is dropped by a NUL three places back.  With
\* only two bytes before (i - 3 as an unsigned int) that is far outside the array: the
\* write does no harm that shows, or the process dies of it.
body(q, c) ==
  CASE Terminates(q, c) /\ q.i > 2 -> {[q EXCEPT !.data[q.i - 3] = NUL, !.state = "cr"]}
    [] Terminates(q, c) /\ q.i = 2 -> {[q EXCEPT !.state = s] : s \in {"cr", "segv"}}
    [] ~Terminates(q, c) /\ q.i < DataMax -> {Stored(q, "data", c)}
    [] OTHER -> {[q EXCEPT !.data[q.i] = NUL]}

\* request_parser_feed, request_parser_admin_feed and request_parser_data_feed.
feed(m, q, c) ==
  CASE q.state = "verb" /\ m = "READ"  -> {verb(q, c)}
    [] q.state = "verb" /\ m = "ADMIN" -> command(q, c)
    [] q.state = "arg"  /\ m # "DATA"  -> {arg(q, c)}
    [] q.state = "body" /\ m = "DATA"  -> body(q, c)
    [] q.state = "cr" -> {[q EXCEPT !.state = IF c = LF THEN "done" ELSE "error"]}
    [] OTHER -> {[q EXCEPT !.state = "error"]}

\* Mutant: the body's array is one byte shorter than the read buffer.
Stops_short(m, q) == request_is_done(q) \/ (m = "DATA" /\ q.i >= DataMax - 1)

\* Does the loop of a consume function stop with the parser as it is?
Stops(m, q) == request_is_done(q) \/ (m = "DATA" /\ q.i >= DataMax)

\* request_consume, request_consume_admin and request_consume_data: the parsers they
\* may leave, with how many bytes of b they took.
consume(m, q, b) ==
  LET run[k \in 0..Len(b)] ==
        IF k = 0 THEN {q}
        ELSE UNION {feed(m, r, b[k]) : r \in {r \in run[k - 1] : ~Stops(m, r)}}
      Left(k) == {r \in run[k] : Stops(m, r) \/ k = Len(b)}
  IN  UNION {{[p |-> r, used |-> k] : r \in Left(k)} : k \in 1..Len(b)}

\* A body is cut with a NUL where it ends.
Ended(m, q) == IF m = "DATA" /\ q.state # "segv" THEN [q EXCEPT !.data[q.i] = NUL] ELSE q

-----------------------------------------------------------------------------
(* The grammar.                                                            *)

\* A verb, an argument after a space, CRLF; or one of the verbs that need none.
IsText(w, size, forbidden) == Len(w) <= size /\ \A k \in 1..Len(w) : w[k] \notin forbidden

\* The place of the first c, behind the end if there is none: w is divided at its first
\* space and at the CR that ends it.
FirstOf(w, c) == Min({k \in 1..Len(w) : w[k] = c} \cup {Len(w) + 1})

Line(w) ==
  LET end   == FirstOf(w, CR)
      space == FirstOf(SubSeq(w, 1, end - 1), SP)
  IN  [verb    |-> SubSeq(w, 1, space - 1),
       arg     |-> SubSeq(w, space + 1, end - 1),
       spaced  |-> space < end,
       ended   |-> end <= Len(w),
       after   |-> SubSeq(w, end + 1, Len(w))]

\* Can w still become a request, or is it one?
Viable(m, w) ==
  LET l == Line(w)
  IN  /\ Len(l.verb) <= VerbMax /\ Len(l.arg) <= ArgMax
      /\ l.ended /\ ~l.spaced => StartsWithVerb(l.verb, WithoutArg[m])
      /\ l.after \in {<<>>, <<LF>>}

\* The text of w as a C string: up to its first NUL.
UpToNul(w) == SubSeq(w, 1, FirstOf(w, NUL) - 1)

Complete(m, w) == Viable(m, w) /\ Line(w).after = <<LF>>

-----------------------------------------------------------------------------
Init ==
  /\ mode = "READ" /\ p = request_parser_init("READ")
  /\ rbuf = <<>> /\ seen = <<>>

\* The consume function of a mode on the bytes b, for a parser that was fed before.
Consumed(m, q, before, b) ==
  \E o \in consume(m, q, b) :
    /\ p' = Ended(m, o.p)
    /\ seen' = before \o SubSeq(b, 1, o.used)
    /\ rbuf' = SubSeq(b, o.used + 1, Len(b))

\* The read handler: recv into the empty buffer, then consume.  It is not dispatched
\* while a request is answered or a chunk of a body is written.  (Bound: after a verb
\* too long for the administrator's parser, only the rest of that read is followed.)
Receive ==
  /\ rbuf = <<>> /\ ~request_is_done(p) /\ (mode = "DATA" => seen = <<>>)
  /\ mode = "ADMIN" => Len(Line(seen).verb) <= VerbMax
  /\ \E bytes \in Reads[mode] : Consumed(mode, p, seen, bytes)
  /\ UNCHANGED mode

\* The read handler with something left in the buffer: no recv.
ReadBuffered ==
  /\ mode = "ADMIN" /\ rbuf # <<>> /\ ~request_is_done(p)
  /\ Consumed(mode, p, seen, rbuf)
  /\ UNCHANGED mode

\* The reply of a finished request was sent, or the body's chunk written, and the
\* machine arrives at a state, which initialises the parser; what is buffered is
\* consumed, for the administrator only when his socket is readable.
Arrive(m) ==
  /\ request_is_done(p) \/ (mode = "DATA" /\ seen # <<>>)
  /\ p.state # "segv"
  /\ mode' = m
  /\ IF rbuf = <<>> \/ m = "ADMIN"
     THEN p' = request_parser_init(m) /\ seen' = <<>> /\ UNCHANGED rbuf
     ELSE Consumed(m, request_parser_init(m), <<>>, rbuf)

Next == Receive \/ ReadBuffered \/ \E m \in Mode : Arrive(m)

Spec == Init /\ [][Next]_vars

-----------------------------------------------------------------------------
TypeOK ==
  /\ mode \in Mode
  /\ p.state \in State \cup {"segv"} /\ p.i \in Nat
  /\ p.verb \in [0..VerbMax -> Byte] /\ p.arg \in [0..ArgMax -> Byte] /\ p.data \in [0..DataMax -> Byte]
  /\ Len(rbuf) <= BufferSize

\* However recv cuts what a client sends, a parser recognises a request at the first
\* byte that completes one, rejects at the first byte after which none is possible,
\* and waits otherwise; a request has the verb and argument of its line, as C strings.
\* (The administrator's parser only as far as the verb fits: after that its state is
\* uninitialised.)
RequestsByGrammar ==
  mode = "READ" \/ (mode = "ADMIN" /\ Len(Line(seen).verb) <= VerbMax) =>
    /\ p.state = "error" <=> ~Viable(mode, seen)
    /\ p.state = "done"  <=> Complete(mode, seen)
    /\ p.state = "done"  => /\ Text(p.verb) = UpToNul(Line(seen).verb)
                            /\ Text(p.arg)  = UpToNul(Line(seen).arg)

\* The places where parser q may store the next byte, or the NUL that ends what it has,
\* are in their arrays: verb() ends the verb with a NUL in arg, at the verb's index.  One
\* store is excepted, that of a terminator with only two bytes before it, which the code
\* does make outside of data.
StoresInside(m, q) ==
  /\ q.state = "verb" /\ m = "READ"  => q.i \in DOMAIN q.verb /\ q.i \in DOMAIN q.arg
  /\ q.state = "verb" /\ m = "ADMIN" => q.i \in DOMAIN q.verb
  /\ q.state = "arg"  /\ m # "DATA"  => q.i \in DOMAIN q.arg
  /\ m = "DATA" => /\ q.i \in DOMAIN q.data
                   /\ q.state = "body" /\ Terminates(q, CR) /\ q.i # 2 => q.i - 3 \in DOMAIN q.data

\* What a read brings fits: before any byte, the indices the parser may store at are in
\* their arrays (but for the one store StoresInside names), and a parser that waits for
\* more has taken all there was (the administrator's, what there was when it was first
\* dispatched).  For a body that is because data is one byte larger than the buffer, two
\* constants of different headers.
WaitsWithNothingUnread ==
  /\ TypeOK /\ StoresInside(mode, p)
  /\ ~request_is_done(p) => rbuf = <<>> \/ (mode = "ADMIN" /\ seen = <<>>)

\* Where a read holds LF, dot and CR.
Dots == {k \in 1..Len(seen) - 2 : seen[k] = LF /\ seen[k + 1] = Dot /\ seen[k + 2] = CR}

\* A body is finished by the first dot that starts a line of the read and has CRLF
\* behind it, and its text is what comes before the CRLF in front of that dot; a body
\* that is not finished is the read, all of it.
BodyByTerminator ==
  mode = "DATA" /\ seen # <<>> =>
    LET k == Min(Dots)
    IN  /\ p.state = "body" <=> Dots = {}
        /\ p.state = "body" => Text(p.data) = UpToNul(seen)
        /\ p.state = "done" <=> Dots # {} /\ k + 3 <= Len(seen) /\ seen[k + 3] = LF /\ p.state # "segv"
        /\ p.state = "done" /\ k > 1 => Text(p.data) = UpToNul(SubSeq(seen, 1, k - 2))
        /\ p.state = "segv" => k = 1
=============================================================================
