----------------------------- MODULE SmtpParsers ----------------------------
(***************************************************************************)
(* The three request parsers (request.c, request_admin.c, request_data.c)  *)
(* over buffers of tokens.                                                 *)
(*                                                                         *)
(* A line the client types is two tokens: its head, everything up to and   *)
(* including the CR, and LF.  The split matters because an erroneous head  *)
(* ends the parse at the CR and leaves the LF in the read buffer, and      *)
(* because the terminator of a body is recognised only by what precedes it *)
(* in the same read.  A head is a request record (Line); the head "." is   *)
(* the dot of the body's terminator; any head is text inside a body.       *)
(***************************************************************************)
EXTENDS SmtpCommands, FiniteSetsExt

LF    == [verb |-> "LF", arg |-> NoArg]
Dot   == [verb |-> ".", arg |-> NoArg]
Line  == [verb : Verb, arg : Arg]
Token == Line \cup {LF}

\* struct request_parser with the request it fills; data is the body read so far.
Parser == [st : {"verb", "cr", "body", "done", "error"}, req : Request, data : Seq(Token)]

EmptyRequest == [verb |-> "", arg |-> NoArg]
request_parser_init      == [st |-> "verb", req |-> EmptyRequest, data |-> <<>>]
request_parser_data_init == [st |-> "body", req |-> EmptyRequest, data |-> <<>>]

request_is_done(p) == p.st \in {"done", "error"}

\* The first position of b that holds a head, Len(b) + 1 if none does.
FirstHead(b) == Min({i \in 1..Len(b) : b[i] # LF} \cup {Len(b) + 1})

After(b, k) == SubSeq(b, k + 1, Len(b))

\* The verbs each parser accepts without an argument.
Argless(stm) == IF stm = "ADMIN" THEN {"XQUIT"} ELSE {"DATA", "RSET", "QUIT", "NOOP"}

\* A head read while a verb is awaited: an LF read before it spoils the verb.
ReadHead(p, t, argless) ==
  LET v == IF p.req.verb = "" THEN t.verb ELSE Unknown
  IN  [p EXCEPT !.st  = IF t.arg # NoArg \/ v \in argless THEN "cr" ELSE "error",
                !.req = [verb |-> v, arg |-> t.arg]]

ReadLF(p, t) == [p EXCEPT !.st = IF t = LF THEN "done" ELSE "error"]

\* request_consume and request_consume_admin: the parser after reading buffer b,
\* and what is left of b.  They stop at the first done or error.
request_consume(p, b, argless) ==
  LET h == FirstHead(b)
      p1 == IF h = 1 THEN p ELSE [p EXCEPT !.req.verb = Unknown]
      p2 == ReadHead(p1, b[h], argless)
  IN  CASE p.st = "cr" -> [p |-> ReadLF(p, b[1]), rest |-> After(b, 1)]
        [] p.st # "cr" /\ h > Len(b) -> [p |-> p1, rest |-> <<>>]
        [] p.st # "cr" /\ h <= Len(b) /\ (p2.st = "error" \/ h = Len(b)) ->
             [p |-> p2, rest |-> After(b, h)]
        [] OTHER -> [p |-> ReadLF(p2, b[h + 1]), rest |-> After(b, h + 1)]

\* Mutant: the terminator is looked for only after two lines.
Terminators_late(b) == {i \in 4..Len(b) : b[i] = Dot /\ b[i - 1] = LF}

\* The positions where body() sees the terminator's dot: an LF right before it,
\* in the same read, because every read starts from a fresh parser.
Terminators(b) == {i \in 2..Len(b) : b[i] = Dot /\ b[i - 1] = LF}

\* Mutant: the CRLF before the terminator stays in the body.
request_consume_data_long(p, b) ==
  LET i == Min(Terminators(b))
  IN  IF Terminators(b) = {}
      THEN [p |-> [p EXCEPT !.data = b], rest |-> <<>>]
      ELSE [p |-> [p EXCEPT !.data = SubSeq(b, 1, i - 1),
                            !.st = CASE i = Len(b) -> "cr"
                                     [] i < Len(b) /\ b[i + 1] = LF -> "done"
                                     [] OTHER -> "error"],
            rest |-> After(b, i + 1)]

\* When the terminator comes first in its read, body() cuts the data one byte before
\* its beginning, at an index that is unsigned.
CutsBefore(b) == Len(b) >= 2 /\ b[1] = LF /\ b[2] = Dot

\* request_consume_data: the terminator's dot drops the CRLF before it, and must
\* be followed by LF in the same read.  Without a dot the whole buffer is data.
request_consume_data(p, b) ==
  LET i == Min(Terminators(b))
  IN  IF Terminators(b) = {}
      THEN [p |-> [p EXCEPT !.data = b], rest |-> <<>>]
      ELSE [p |-> [p EXCEPT !.data = SubSeq(b, 1, IF i = 2 THEN 2 ELSE i - 2),
                            !.st = CASE i = Len(b) -> "cr"
                                     [] i < Len(b) /\ b[i + 1] = LF -> "done"
                                     [] OTHER -> "error"],
            rest |-> After(b, i + 1)]
=============================================================================
