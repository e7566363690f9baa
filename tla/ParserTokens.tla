---------------------------- MODULE ParserTokens ----------------------------
(***************************************************************************)
(* That SmtpParsers, over tokens, says what RequestParser, over bytes,     *)
(* does: whenever the bytes a parser was given spell whole tokens, however *)
(* they were cut, both have come to the same.                              *)
(***************************************************************************)
EXTENDS RequestParser, SequencesExt

CONSTANTS Tokens,       \* the tokens compared
          Spelling,     \* the bytes of their verbs and arguments
          TextMax       \* the tokens of a text at most (bound)

T == INSTANCE SmtpParsers WITH User <- {}, NoUser <- "nobody"

\* Verbs are words, arguments are text that fits on a line and in the parser's array
\* (longer ones are refused by every parser over bytes and have no token), only the dot is
\* spelled as one, and the lists of verbs without an argument are the same ones, spelled.
ASSUME SpellingAssumption ==
  /\ TextMax \in Nat /\ Tokens \subseteq T!Token
  /\ Spelling["."] = <<Dot>>
  /\ \A t \in Tokens \ {T!LF} :
       /\ Spelling[t.verb] # <<>> /\ Spelling[t.verb] \in Seq(Byte \ {SP, CR, LF, NUL})
       /\ t.arg # T!NoArg => /\ Spelling[t.arg] \in Seq(Byte \ {CR, LF, NUL})
                             /\ Len(Spelling[t.arg]) <= ArgMax
       /\ Spelling[t.verb] = <<Dot>> => t.verb = "."
       /\ \A u \in Tokens \ {T!LF} : Spelling[t.verb] = Spelling[u.verb] => t.verb = u.verb
       /\ \A m \in {"READ", "ADMIN"} :
            StartsWithVerb(Spelling[t.verb], WithoutArg[m]) <=> t.verb \in T!Argless(m)
  /\ \A m \in {"READ", "ADMIN"} : \A v \in WithoutArg[m] : v # <<>> /\ v[1] # LF

Bytes(t) ==
  IF t = T!LF THEN <<LF>>
  ELSE Spelling[t.verb] \o (IF t.arg = T!NoArg THEN <<>> ELSE <<SP>> \o Spelling[t.arg]) \o <<CR>>

Spelled(ts) == FlattenSeq([k \in DOMAIN ts |-> Bytes(ts[k])])

\* What clients send of lines that end in CRLF, from the middle of one on or not: up to
\* a body's last line and its terminator.
Texts == {ts \in BoundedSeq(Tokens, TextMax) :
            /\ \A k \in 1..Len(ts) - 1 : ts[k] = T!LF <=> ts[k + 1] # T!LF
            /\ Len(Spelled(ts)) <= BufferSize}

\* Each with what it spells.
SpelledTexts == {[ts |-> ts, bytes |-> Spelled(ts)] : ts \in Texts}

\* The state of the token parser a byte parser stands for.
TokenState == IF p.state = "arg" THEN "verb" ELSE p.state

\* The verb of a finished request: a known one, or one that is no command.
SameVerb(v) ==
  IF v = T!Unknown THEN ~\E t \in Tokens : t.verb \notin {T!Unknown, "LF"} /\ Text(p.verb) = Spelling[t.verb]
  ELSE Text(p.verb) = Spelling[v]

CommandAgrees(ts) ==
  LET r == T!request_consume(T!request_parser_init, ts, T!Argless(mode))
  IN  /\ TokenState = r.p.st /\ rbuf = Spelled(r.rest)
      /\ p.state = "done" => /\ SameVerb(r.p.req.verb)
                             /\ Text(p.arg) = (IF r.p.req.arg = T!NoArg THEN <<>> ELSE Spelling[r.p.req.arg])

\* The tokens of a finished body keep the CR of the last line.
BodyAgrees(ts) ==
  LET r == T!request_consume_data(T!request_parser_data_init, ts)
  IN  /\ TokenState = r.p.st /\ rbuf = Spelled(r.rest)
      /\ Spelled(r.p.data) = Text(p.data) \o (IF p.state = "body" THEN <<>> ELSE <<CR>>)

\* The parsers the sessions are checked with are those of the code: fed the same line
\* ends, verbs and dots they stop at the same place, in the same state, with the same
\* request or text.  (Not for a verb too long for its array, nor for a body that is a
\* dot behind the end of a line, where the code writes outside its own.)
TokensAgree ==
  \A text \in SpelledTexts :
    text.bytes = seen \o rbuf /\ seen # <<>> =>
      CASE mode = "DATA" -> 1 \in Dots \/ BodyAgrees(text.ts)
        [] mode # "DATA" -> Len(Line(seen).verb) > VerbMax \/ CommandAgrees(text.ts)
=============================================================================
