-------------------------- MODULE SmtpSessionProofs --------------------------
(***************************************************************************)
(* Theorems about SmtpSession for every set of connections, users, scripts,*)
(* mocks and faults.                                                       *)
(***************************************************************************)
EXTENDS SmtpRefinement, TLAPS, SequenceTheorems, FiniteSetTheorems, WellFoundedInduction

-----------------------------------------------------------------------------
(* The command handlers.                                                   *)

\* An answer is data of a session and a reply.
LEMMA AnswerType ==
  ASSUME NEW d \in SmtpData, NEW next \in SmtpState, NEW msg \in Reply
  PROVE  /\ Answer(d, next, msg).data \in SmtpData
         /\ Answer(d, next, msg).msg \in Reply
         /\ Answer(d, next, msg).data.state = next
BY DEF Answer, SmtpData

\* handle_helo answers with data of a session and a reply.
LEMMA HeloType ==
  ASSUME NEW d \in SmtpData, NEW r \in Request
  PROVE  handle_helo(d, r).data \in SmtpData /\ handle_helo(d, r).msg \in Reply
BY DEF handle_helo, Answer, SmtpData, Reply, SmtpState

\* handle_xauth answers with data of a session and a reply.
LEMMA XauthType ==
  ASSUME NEW d \in SmtpData, NEW r \in Request
  PROVE  handle_xauth(d, r).data \in SmtpData /\ handle_xauth(d, r).msg \in Reply
BY DEF handle_xauth, Answer, SmtpData, Reply, SmtpState, Refusal

\* handle_from answers with data of a session and a reply.
LEMMA FromType ==
  ASSUME NEW d \in SmtpData, NEW r \in Request
  PROVE  handle_from(d, r).data \in SmtpData /\ handle_from(d, r).msg \in Reply
BY XauthType DEF handle_from, Answer, SmtpData, Reply, SmtpState, Refusal

\* handle_to answers with data of a session and a reply.
LEMMA ToType ==
  ASSUME NEW d \in SmtpData, NEW r \in Request
  PROVE  handle_to(d, r).data \in SmtpData /\ handle_to(d, r).msg \in Reply
<1>1. CASE r.verb = "RCPT" /\ r.arg \in User
  <2>1. Append(d.rcpt_to, r.arg) \in Seq(User)
    BY <1>1, AppendProperties DEF SmtpData
  <2>2. QED
    BY <1>1, <2>1 DEF handle_to, Answer, SmtpData, Reply, SmtpState
<1>2. CASE ~(r.verb = "RCPT" /\ r.arg \in User)
  BY <1>2 DEF handle_to, Answer, SmtpData, Reply, SmtpState, Refusal
<1>3. QED
  BY <1>1, <1>2

\* handle_data answers with data of a session and a reply.
LEMMA DataType ==
  ASSUME NEW d \in SmtpData, NEW r \in Request
  PROVE  handle_data(d, r).data \in SmtpData /\ handle_data(d, r).msg \in Reply
BY ToType DEF handle_data, Answer, SmtpData, Reply, SmtpState

\* handle_body answers with data of a session and a reply.
LEMMA BodyType ==
  ASSUME NEW d \in SmtpData, NEW r \in Request
  PROVE  handle_body(d, r).data \in SmtpData /\ handle_body(d, r).msg \in Reply
BY DEF handle_body, Answer, SmtpData, Reply, SmtpState

\* handle_xtran answers with data of a session and a reply.
LEMMA XtranType ==
  ASSUME NEW d \in SmtpData, NEW r \in Request
  PROVE  handle_xtran(d, r).data \in SmtpData /\ handle_xtran(d, r).msg \in Reply
BY DEF handle_xtran, Answer, SmtpData, Reply, SmtpState, Refusal

\* handle_xfrom answers with data of a session and a reply.
LEMMA XfromType ==
  ASSUME NEW d \in SmtpData, NEW r \in Request, NEW reg
  PROVE  handle_xfrom(d, r, reg).data \in SmtpData /\ handle_xfrom(d, r, reg).msg \in Reply
BY XtranType DEF handle_xfrom, Answer, SmtpData, Reply, SmtpState, Refusal

\* handle_xget answers with data of a session and a reply.
LEMMA XgetType ==
  ASSUME NEW d \in SmtpData, NEW r \in Request, NEW reg
  PROVE  handle_xget(d, r, reg).data \in SmtpData /\ handle_xget(d, r, reg).msg \in Reply
BY XfromType DEF handle_xget, Answer, SmtpData, Reply, SmtpState, Refusal

\* Whatever the state and the request, request_process has a reply.
LEMMA ProcessType ==
  ASSUME NEW d \in SmtpData, NEW r \in Request, NEW reg
  PROVE  Process(d, r, reg).data \in SmtpData /\ Process(d, r, reg).msg \in Reply
<1>1. handlers_table(d, r, reg).data \in SmtpData /\ handlers_table(d, r, reg).msg \in Reply
  <2>1. d.state \in SmtpState
    BY DEF SmtpData
  <2>2. QED
    BY <2>1, HeloType, FromType, ToType, DataType, BodyType, XfromType, XgetType
    DEF handlers_table, SmtpState
<1>2. Answer(d, d.state, "250").data \in SmtpData /\ Answer(d, d.state, "501").data \in SmtpData
      /\ Answer(d, "FROM", "250").data \in SmtpData
  BY DEF Answer, SmtpData, SmtpState
<1>3. QED
  BY <1>1, <1>2 DEF Process, handle_reset, handle_xquit, Answer, Reply

-----------------------------------------------------------------------------
(* Sequences and the parsers.                                              *)

\* A set of naturals that is not empty has a least member.
LEMMA MinOfNats ==
  ASSUME NEW S \in SUBSET Nat, S # {}
  PROVE  Min(S) \in S /\ \A y \in S : Min(S) <= y
<1> DEFINE R == {ss \in Nat \X Nat : ss[1] < ss[2]}
<1>1. IsWellFoundedOn(R, Nat)
  BY NatLessThanWellFounded, Zenon DEF OpToRel
<1>2. PICK x \in S : \A y \in S : <<y, x>> \notin R
  BY <1>1, WFMin, Zenon
<1>3. ASSUME NEW y \in S PROVE x <= y
  <2>1. y < x => <<y, x>> \in R
    OBVIOUS
  <2>2. QED
    BY <2>1, <1>2
<1>4. QED
  BY <1>3 DEF Min

\* What follows the first k tokens.
LEMMA AfterType ==
  ASSUME NEW S, NEW b \in Seq(S), NEW k \in Nat
  PROVE  After(b, k) \in Seq(S)
<1>1. \A i \in k + 1..Len(b) : b[i] \in S
  BY ElementOfSeq, LenProperties
<1>2. QED
  BY <1>1, SubSeqProperties, LenProperties DEF After

\* The first head of a line, if any, is a token of the buffer and no LF.
LEMMA FirstHeadRange ==
  ASSUME NEW b \in Seq(Token)
  PROVE  /\ FirstHead(b) \in 1..Len(b) + 1
         /\ FirstHead(b) <= Len(b) => b[FirstHead(b)] # LF /\ b[FirstHead(b)] \in Line
<1> DEFINE S == {i \in 1..Len(b) : b[i] # LF} \cup {Len(b) + 1}
<1>1. S \in SUBSET Nat /\ S # {} /\ S \subseteq 1..Len(b) + 1
  BY LenProperties
<1>2. FirstHead(b) = Min(S) /\ Min(S) \in S
  BY <1>1, MinOfNats DEF FirstHead
<1>3. QED
  <2>1. FirstHead(b) \in 1..Len(b) + 1
    BY <1>1, <1>2
  <2>2. ASSUME FirstHead(b) <= Len(b) PROVE b[FirstHead(b)] # LF /\ b[FirstHead(b)] \in Token
    BY <1>2, <2>2, <2>1, ElementOfSeq, LenProperties
  <2>3. QED
    BY <2>1, <2>2 DEF Token

\* The head of a line leaves a parser.
LEMMA ReadHeadType ==
  ASSUME NEW p \in Parser, NEW t \in Line, NEW argless
  PROVE  ReadHead(p, t, argless) \in Parser
BY DEF ReadHead, Parser, Request, Line, Verb, Unknown

\* The end of a line leaves a parser that has finished.
LEMMA ReadLFType ==
  ASSUME NEW p \in Parser, NEW t
  PROVE  ReadLF(p, t) \in Parser /\ request_is_done(ReadLF(p, t))
BY DEF ReadLF, Parser, request_is_done

\* The parser consumes all it is given unless it ends a request.
LEMMA ConsumeType ==
  ASSUME NEW p \in Parser, NEW b \in Seq(Token), NEW argless
  PROVE  LET r == request_consume(p, b, argless)
         IN  /\ r.p \in Parser
             /\ r.rest \in Seq(Token)
             /\ ~request_is_done(r.p) => r.rest = <<>>
<1> DEFINE h  == FirstHead(b)
           p1 == IF h = 1 THEN p ELSE [p EXCEPT !.req.verb = Unknown]
           p2 == ReadHead(p1, b[h], argless)
           r  == request_consume(p, b, argless)
<1>1. h \in 1..Len(b) + 1 /\ (h <= Len(b) => b[h] \in Line) /\ Len(b) \in Nat
  BY FirstHeadRange, LenProperties
<1>2. p1 \in Parser
  BY DEF Parser, Request, Unknown, Verb
<1>3. h <= Len(b) => p2 \in Parser
  BY <1>1, <1>2, ReadHeadType
<1>4. CASE p.st = "cr"
  <2>1. r = [p |-> ReadLF(p, b[1]), rest |-> After(b, 1)]
    BY <1>4 DEF request_consume
  <2>2. QED
    BY <2>1, ReadLFType, AfterType
<1>5. CASE p.st # "cr" /\ h > Len(b)
  <2>1. r = [p |-> p1, rest |-> <<>>]
    BY <1>5, <1>1 DEF request_consume
  <2>2. QED
    BY <2>1, <1>2, EmptySeq
<1>6. CASE p.st # "cr" /\ h <= Len(b) /\ (p2.st = "error" \/ h = Len(b))
  <2>1. r = [p |-> p2, rest |-> After(b, h)]
    BY <1>6, <1>1 DEF request_consume
  <2>2. r.p \in Parser /\ r.rest \in Seq(Token)
    BY <2>1, <1>1, <1>3, <1>6, AfterType
  <2>3. h = Len(b) => After(b, h) = <<>>
    BY <1>1, SubSeqEmpty DEF After
  <2>4. QED
    BY <2>1, <2>2, <2>3, <1>6 DEF request_is_done
<1>7. CASE p.st # "cr" /\ h <= Len(b) /\ ~(p2.st = "error" \/ h = Len(b))
  <2>1. r = [p |-> ReadLF(p2, b[h + 1]), rest |-> After(b, h + 1)]
    BY <1>7, <1>1 DEF request_consume
  <2>2. ReadLF(p2, b[h + 1]) \in Parser /\ request_is_done(ReadLF(p2, b[h + 1]))
    BY <1>3, <1>7, ReadLFType
  <2>3. After(b, h + 1) \in Seq(Token)
    BY <1>1, AfterType
  <2>4. QED
    BY <2>1, <2>2, <2>3
<1>8. QED
  BY <1>1, <1>4, <1>5, <1>6, <1>7

\* The parser of a body leaves a parser and the tokens it did not read.
LEMMA ConsumeDataType ==
  ASSUME NEW p \in Parser, NEW b \in Seq(Token)
  PROVE  LET r == request_consume_data(p, b)
         IN  r.p \in Parser /\ r.rest \in Seq(Token)
<1> DEFINE i == Min(Terminators(b))
           n == IF i = 2 THEN 2 ELSE i - 2
           r == request_consume_data(p, b)
<1>1. CASE Terminators(b) = {}
  <2>1. r = [p |-> [p EXCEPT !.data = b], rest |-> <<>>]
    BY <1>1 DEF request_consume_data
  <2>2. QED
    BY <2>1, EmptySeq DEF Parser
<1>2. CASE Terminators(b) # {}
  <2>1. i \in 2..Len(b) /\ Len(b) \in Nat
    <3>1. Terminators(b) \in SUBSET Nat /\ Terminators(b) \subseteq 2..Len(b)
      BY LenProperties DEF Terminators
    <3>2. i \in Terminators(b)
      BY <1>2, <3>1, MinOfNats
    <3>3. QED
      BY <3>1, <3>2, LenProperties
  <2>2. SubSeq(b, 1, n) \in Seq(Token)
    <3>1. \A k \in 1..n : b[k] \in Token
      BY <2>1, ElementOfSeq
    <3>2. n \in Int
      BY <2>1
    <3>3. QED
      BY <3>1, <3>2, SubSeqProperties
  <2>3. After(b, i + 1) \in Seq(Token)
    BY <2>1, AfterType
  <2>4. DEFINE st == CASE i = Len(b) -> "cr"
                       [] i < Len(b) /\ b[i + 1] = LF -> "done"
                       [] OTHER -> "error"
               q  == [p EXCEPT !.data = SubSeq(b, 1, n), !.st = st]
  <2>5. r = [p |-> q, rest |-> After(b, i + 1)]
    BY <1>2 DEF request_consume_data
  <2>6. st \in {"cr", "done", "error"}
    OBVIOUS
  <2>7. q \in Parser
    <3> HIDE DEF st, n
    <3>1. QED
      BY <2>2, <2>6 DEF Parser
  <2>8. QED
    <3> HIDE DEF q
    <3>1. QED
      BY <2>3, <2>5, <2>7
<1>3. QED
  BY <1>1, <1>2

-----------------------------------------------------------------------------
(* What the invariant says of one session, and of its envelope.            *)

EnvelopeOK(d) ==
  /\ d.state \in {"TO", "DATA", "BODY"} => d.mail_from # NoUser
  /\ d.state \in {"DATA", "BODY"} => d.rcpt_to # <<>>

WaitOK(s) ==
  /\ s.interest = "READ"  => s.stm \in {"READ", "DATA", "ADMIN"}
  /\ s.interest = "WRITE" => s.stm \in {"NULL", "WRITE"}
  /\ s.interest = "NOOP"  => s.stm \in {"DATA_WRITE", "ERROR"}
  /\ s.output = "WRITE" <=> s.interest = "NOOP"

BufferOK(s) ==
  /\ Len(s.wbuf) = IF s.interest = "WRITE" THEN 1 ELSE 0
  /\ s.interest = "READ" /\ s.stm = "READ" => s.rbuf = <<>>

BodyOK(s) ==
  s.stm \in {"DATA", "DATA_WRITE"} => s.data.state = "BODY" /\ s.temp_path \in User

SessionInv(s) ==
  /\ s \in Session
  /\ s.output = "WRITE" => s.phase = "open"
  /\ s.stm = "ERROR" => "write" \in Faults
  /\ s.phase = "none" => s = NoSession
  /\ s.phase = "open" => WaitOK(s) /\ BufferOK(s) /\ EnvelopeOK(s.data) /\ BodyOK(s)

\* The properties of the runs that speak of one session at a time are one invariant of
\* each session.
LEMMA InvOfSessions ==
  ASSUME sess \in [Conn -> Session]
  PROVE  (\A c \in Conn : SessionInv(sess[c])) <=>
           /\ InterestMatchesState /\ ArmedOutputHasSession /\ OneReplyPending
           /\ NothingLeftBehind /\ EnvelopeComplete /\ BodyHasFile /\ ErrorNeedsWriteError
           /\ FreshUntilAccepted
BY DEF SessionInv, WaitOK, BufferOK, EnvelopeOK, BodyOK, Open, InterestMatchesState,
       ArmedOutputHasSession, OneReplyPending, NothingLeftBehind, EnvelopeComplete,
       BodyHasFile, ErrorNeedsWriteError, FreshUntilAccepted

\* No command leads into TO, DATA or BODY without its part of the envelope.
LEMMA ProcessEnvelope ==
  ASSUME NEW d \in SmtpData, NEW r \in Request, NEW reg, EnvelopeOK(d)
  PROVE  EnvelopeOK(Process(d, r, reg).data)
<1> DEFINE T == handlers_table(d, r, reg).data
<1> USE DEF Answer, SmtpData
<1>1. \A u \in User : u # NoUser
  BY UserAssumption DEF Arg
<1>2. EnvelopeOK(handle_helo(d, r).data)
  BY DEF handle_helo, EnvelopeOK
<1>3. EnvelopeOK(handle_from(d, r).data)
  BY <1>1 DEF handle_from, handle_xauth, EnvelopeOK
<1>4. d.state \in {"TO", "DATA"} => EnvelopeOK(handle_to(d, r).data)
  <2>1. r.arg \in User => Append(d.rcpt_to, r.arg) # <<>>
    BY AppendProperties
  <2>2. QED
    BY <2>1 DEF handle_to, EnvelopeOK
<1>5. d.state = "DATA" => EnvelopeOK(handle_data(d, r).data)
  BY <1>4 DEF handle_data, EnvelopeOK
<1>6. EnvelopeOK(handle_body(d, r).data)
  BY DEF handle_body, EnvelopeOK
<1>7. EnvelopeOK(handle_xfrom(d, r, reg).data)
  BY DEF handle_xfrom, handle_xtran, EnvelopeOK
<1>8. EnvelopeOK(handle_xget(d, r, reg).data)
  BY <1>7 DEF handle_xget, EnvelopeOK
<1>9. EnvelopeOK(T)
  <2>1. d.state \in SmtpState
    OBVIOUS
  <2>2. QED
    BY <1>2, <1>3, <1>4, <1>5, <1>6, <1>7, <1>8, <2>1 DEF handlers_table, SmtpState
<1>10. QED
  BY <1>9 DEF Process, handle_reset, handle_xquit, EnvelopeOK

\* The end of a body is answered whatever the request was: it was cleared.
LEMMA ProcessEndOfBody ==
  ASSUME NEW d \in SmtpData, d.state = "BODY", NEW reg
  PROVE  /\ Process(d, EmptyRequest, reg).data = [d EXCEPT !.state = "EHLO"]
         /\ Process(d, EmptyRequest, reg).msg = "250 queued"
         /\ EnvelopeOK(Process(d, EmptyRequest, reg).data)
<1>1. EmptyRequest.verb = ""
  BY DEF EmptyRequest
<1>2. Process(d, EmptyRequest, reg) = handlers_table(d, EmptyRequest, reg)
  BY <1>1 DEF Process, AdminState
<1>3. handlers_table(d, EmptyRequest, reg) = handle_body(d, EmptyRequest)
  BY DEF handlers_table
<1>4. /\ handle_body(d, EmptyRequest).data = [d EXCEPT !.state = "EHLO"]
      /\ handle_body(d, EmptyRequest).msg = "250 queued"
      /\ handle_body(d, EmptyRequest).data.state = "EHLO"
  BY DEF handle_body, Answer, SmtpData
<1>5. Process(d, EmptyRequest, reg) = handle_body(d, EmptyRequest)
  BY <1>2, <1>3
<1>6. QED
  BY <1>4, <1>5 DEF EnvelopeOK

-----------------------------------------------------------------------------
(* The building blocks of the handlers.                                    *)

\* smtp_done leaves a session that satisfies the invariant.
LEMMA DoneInv ==
  ASSUME NEW s \in Session, s.output # "WRITE", s.stm = "ERROR" => "write" \in Faults
  PROVE  SessionInv(smtp_done(s))
BY DEF SessionInv, smtp_done, Session

\* A session that is answered waits to write exactly that answer.
LEMMA ReplyInv ==
  ASSUME NEW s \in Session, s.phase = "open", s.interest = "WRITE", s.output # "WRITE",
         s.stm # "ERROR", s.wbuf = <<>>,
         EnvelopeOK(Process(s.data, s.par.req, registry).data)
  PROVE  SessionInv(request_process(s))
<1> DEFINE a == Process(s.data, s.par.req, registry)
           t == [s EXCEPT !.data = a.data, !.wbuf = Append(@, a.msg), !.stm = "WRITE"]
<1>1. s.data \in SmtpData /\ s.par.req \in Request
  BY DEF Session, Parser
<1>2. a.data \in SmtpData /\ a.msg \in Reply
  BY <1>1, ProcessType
<1>3. Append(s.wbuf, a.msg) \in Seq(Reply) /\ Len(Append(s.wbuf, a.msg)) = 1
  <2>1. s.wbuf \in Seq(Reply) /\ Len(s.wbuf) = 0
    BY EmptySeq DEF Session
  <2>2. QED
    BY <1>2, <2>1, AppendProperties
<1>4. SessionInv(t)
  <2> HIDE DEF a
  <2>1. t \in Session
    BY <1>2, <1>3 DEF Session, StmState
  <2>2. /\ t.stm = "WRITE" /\ t.interest = "WRITE" /\ t.output = s.output
        /\ t.phase = "open" /\ t.data = a.data /\ Len(t.wbuf) = 1
    BY <1>3 DEF Session
  <2>3. EnvelopeOK(t.data)
    BY <2>2 DEF a
  <2>4. QED
    BY <2>1, <2>2, <2>3 DEF SessionInv, WaitOK, BufferOK, BodyOK
<1>5. QED
  BY <1>4, DoneInv DEF request_process

\* Overwriting a file gives a file.
LEMMA OverwriteType ==
  ASSUME NEW S, NEW old \in Seq(S), NEW new \in Seq(S)
  PROVE  Overwrite(old, new) \in Seq(S)
<1>1. \A i \in Len(new) + 1..Len(old) : old[i] \in S
  BY ElementOfSeq, LenProperties
<1>2. SubSeq(old, Len(new) + 1, Len(old)) \in Seq(S)
  BY <1>1, SubSeqProperties, LenProperties
<1>3. QED
  BY <1>2, ConcatProperties DEF Overwrite

\* The header alone is a file.
LEMMA HeaderType ==
  ASSUME NEW d \in SmtpData
  PROVE  <<Header(d)>> \in File
<1>1. Header(d) \in Cell
  BY DEF Header, Cell, SmtpData
<1>2. QED
  BY <1>1 DEF File

\* Arriving at DATA with a complete envelope.
LEMMA DataInitInv ==
  ASSUME NEW s \in Session, s.phase = "open", s.interest = "READ", s.wbuf = <<>>,
         s.data.state = "BODY", EnvelopeOK(s.data), NEW opened \in BOOLEAN, transform \in BOOLEAN
  PROVE  SessionInv(request_data_init(s, opened))
<1> DEFINE u == s.data.rcpt_to[1]
           f == IF opened /\ ~transform THEN Overwrite(s.tmp[u], <<Header(s.data)>>) ELSE s.tmp[u]
           p == IF s.temp_path = NoUser THEN u ELSE s.temp_path
           o == IF opened \/ transform THEN "NOOP" ELSE "none"
           n == IF s.output = "none" THEN s.stale ELSE s.stale + 1
           t == request_data_init(s, opened)
<1>1. u \in User
  <2>1. s.data.rcpt_to # <<>> /\ s.data.rcpt_to \in Seq(User)
    BY DEF EnvelopeOK, Session, SmtpData
  <2>2. QED
    BY <2>1, EmptySeq, ElementOfSeq
<1>2. s.tmp[u] \in File /\ f \in File
  BY <1>1, HeaderType, OverwriteType DEF Session, File
<1>3. p \in User /\ o \in {"none", "NOOP"} /\ n \in Nat
  BY <1>1 DEF Session
<1>4. request_parser_data_init \in Parser
  BY EmptySeq DEF request_parser_data_init, EmptyRequest, Parser, Request, Arg, OtherArg
<1>5. t = [s EXCEPT !.stm = "DATA", !.par = request_parser_data_init, !.temp_path = p,
                    !.tmp[u] = f, !.stale = n, !.output = o, !.pipe = transform]
  BY DEF request_data_init
<1>6. t \in Session /\ t.stm = "DATA" /\ t.temp_path = p /\ t.output = o /\ t.data = s.data
      /\ t.interest = "READ" /\ t.phase = "open" /\ t.wbuf = <<>>
  <2> HIDE DEF u, f, p, o, n, t
  <2>1. [s.tmp EXCEPT ![u] = f] \in [User -> File]
    BY <1>1, <1>2 DEF Session
  <2>2. QED
    BY <1>1, <1>2, <1>3, <1>4, <1>5, <2>1 DEF Session, StmState
<1>7. QED
  <2> HIDE DEF p, o, t
  <2>1. Len(t.wbuf) = 0
    BY <1>6, EmptySeq
  <2>2. SessionInv(t)
    BY <1>3, <1>6, <2>1 DEF SessionInv, WaitOK, BufferOK, BodyOK
  <2>3. QED
    BY <2>2 DEF t

\* request_actual_read of a command.
LEMMA ReadCommandInv ==
  ASSUME NEW s \in Session, s.phase = "open", s.interest = "READ", s.stm \in {"READ", "ADMIN"},
         s.output # "WRITE", s.wbuf = <<>>, EnvelopeOK(s.data)
  PROVE  SessionInv(ReadCommand(s))
<1> DEFINE r == request_consume(s.par, s.rbuf, Argless(s.stm))
           t == [s EXCEPT !.par = r.p, !.rbuf = r.rest]
           w == [t EXCEPT !.interest = "WRITE"]
<1>1. r.p \in Parser /\ r.rest \in Seq(Token) /\ (~request_is_done(r.p) => r.rest = <<>>)
  BY ConsumeType DEF Session
<1>2. t \in Session /\ t.rbuf = r.rest /\ t.par = r.p
      /\ t.phase = "open" /\ t.interest = "READ" /\ t.stm = s.stm /\ t.output = s.output
      /\ t.wbuf = <<>> /\ t.data = s.data
  <2> HIDE DEF r
  <2>1. QED
    BY <1>1 DEF Session
<1>3. CASE request_is_done(r.p)
  <2>1. w \in Session /\ w.phase = "open" /\ w.interest = "WRITE" /\ w.output = s.output
        /\ w.stm = s.stm /\ w.wbuf = <<>> /\ w.data = s.data /\ w.par = r.p
    <3> HIDE DEF t
    <3>1. QED
      BY <1>2 DEF Session
  <2>2. EnvelopeOK(Process(w.data, w.par.req, registry).data)
    <3> HIDE DEF r, w
    <3>1. s.data \in SmtpData /\ r.p.req \in Request
      BY <1>1 DEF Session, Parser
    <3>2. QED
      BY <2>1, <3>1, ProcessEnvelope
  <2>3. SessionInv(request_process(w))
    <3> HIDE DEF w
    <3>1. QED
      BY <2>1, <2>2, ReplyInv
  <2>4. QED
    BY <1>3, <2>3 DEF ReadCommand
<1>4. CASE ~request_is_done(r.p)
  <2>1. Len(t.wbuf) = 0 /\ t.rbuf = <<>>
    BY <1>1, <1>2, <1>4, EmptySeq
  <2>2. SessionInv(t)
    <3> HIDE DEF t
    <3>1. t.output # "WRITE"
      BY <1>2
    <3>2. QED
      BY <1>2, <2>1, <3>1 DEF SessionInv, WaitOK, BufferOK, BodyOK, EnvelopeOK
  <2>3. QED
    BY <1>4, <2>2 DEF ReadCommand
<1>5. QED
  BY <1>3, <1>4

\* request_actual_read of a body.
LEMMA ReadBodyInv ==
  ASSUME NEW s \in Session, s.phase = "open", s.interest = "READ", s.stm = "DATA",
         s.output # "WRITE", s.wbuf = <<>>, EnvelopeOK(s.data), BodyOK(s)
  PROVE  SessionInv(ReadBody(s))
<1> DEFINE r == request_consume_data(s.par, s.rbuf)
           t == [s EXCEPT !.par = r.p, !.rbuf = r.rest]
           w == [t EXCEPT !.interest = "NOOP", !.output = "WRITE", !.stm = "DATA_WRITE"]
<1>1. r.p \in Parser /\ r.rest \in Seq(Token)
  BY ConsumeDataType DEF Session
<1>2. t \in Session /\ t.phase = "open" /\ t.stm = "DATA" /\ t.output = s.output
      /\ t.wbuf = <<>> /\ t.data = s.data /\ t.temp_path = s.temp_path
  <2> HIDE DEF r
  <2>1. QED
    BY <1>1 DEF Session
<1>3. w \in Session /\ w.phase = "open" /\ w.interest = "NOOP" /\ w.output = "WRITE"
      /\ w.stm = "DATA_WRITE" /\ w.wbuf = <<>> /\ w.data = s.data /\ w.temp_path = s.temp_path
  <2> HIDE DEF t
  <2>1. QED
    BY <1>2 DEF Session, StmState
<1>4. SessionInv(w)
  <2> HIDE DEF w
  <2>1. Len(w.wbuf) = 0
    BY <1>3, EmptySeq
  <2>2. QED
    BY <1>3, <2>1 DEF SessionInv, WaitOK, BufferOK, BodyOK, EnvelopeOK
<1>5. SessionInv(smtp_done(t))
  <2> HIDE DEF t
  <2>1. QED
    BY <1>2, DoneInv
<1>6. QED
  BY <1>4, <1>5 DEF ReadBody

\* A read of what is buffered keeps the invariant of its session.
LEMMA ReadInv ==
  ASSUME NEW s \in Session, s.phase = "open", s.interest = "READ",
         s.stm \in {"READ", "DATA", "ADMIN"},
         s.output # "WRITE", s.wbuf = <<>>, EnvelopeOK(s.data), BodyOK(s)
  PROVE  SessionInv(request_actual_read(s))
BY ReadCommandInv, ReadBodyInv DEF request_actual_read

\* write_handler, the reading of what is already buffered included.
LEMMA SentAndReadInv ==
  ASSUME NEW s \in Session, SessionInv(s), s.phase = "open", s.interest = "WRITE",
         NEW opened \in BOOLEAN, transform \in BOOLEAN
  PROVE  SessionInv(SentAndRead(s, opened))
<1> DEFINE t == [s EXCEPT !.wbuf = <<>>, !.interest = "READ"]
           x == Sent(s, opened)
<1>1. t \in Session /\ t.phase = "open" /\ t.interest = "READ" /\ t.wbuf = <<>>
      /\ t.data = s.data /\ t.output # "WRITE" /\ t.output = s.output
      /\ t.rbuf = s.rbuf /\ t.stm = s.stm /\ t.temp_path = s.temp_path
  BY EmptySeq DEF Session, SessionInv, WaitOK
<1>2. EnvelopeOK(s.data) /\ Len(<<>>) = 0
  BY EmptySeq DEF SessionInv
<1>3. request_parser_init \in Parser
  BY EmptySeq DEF request_parser_init, EmptyRequest, Parser, Request, Arg, OtherArg
<1>4. CASE s.data.state = "BODY"
  <2>1. x = request_data_init(t, opened)
    BY <1>4 DEF Sent, AdminState
  <2>2. SessionInv(x)
    <3> HIDE DEF t, x
    <3>1. QED
      BY <1>1, <1>2, <1>4, <2>1, DataInitInv
  <2>3. x.phase = "open" /\ x.interest = "READ" /\ x.output # "WRITE" /\ x.wbuf = <<>>
        /\ x.stm = "DATA" /\ x.data = s.data
    <3> HIDE DEF t, x
    <3>1. QED
      BY <1>1, <2>1 DEF request_data_init, Session
  <2>4. x \in Session /\ BodyOK(x) /\ EnvelopeOK(x.data)
    <3> HIDE DEF x
    <3>1. QED
      BY <2>2, <2>3 DEF SessionInv
  <2>5. SessionInv(request_actual_read(x))
    <3> HIDE DEF x
    <3>1. QED
      BY <2>3, <2>4, ReadInv
  <2>6. QED
    BY <2>2, <2>5 DEF SentAndRead
<1>5. CASE s.data.state # "BODY"
  <2> DEFINE m == IF s.data.state \in AdminState THEN "ADMIN" ELSE "READ"
  <2>1. x = [t EXCEPT !.stm = m, !.par = request_parser_init]
    BY <1>5 DEF Sent
  <2>2. x \in Session /\ x.phase = "open" /\ x.interest = "READ" /\ x.output # "WRITE"
        /\ x.wbuf = <<>> /\ x.stm = m /\ x.data = s.data /\ x.rbuf = s.rbuf
    <3> HIDE DEF t, x
    <3>1. QED
      BY <1>1, <1>3, <2>1 DEF Session, StmState
  <2>3. SessionInv(request_actual_read(x))
    <3> HIDE DEF x
    <3>1. QED
      BY <1>2, <2>2, ReadInv DEF BodyOK
  <2>4. x.rbuf = <<>> \/ x.stm = "ADMIN" => SessionInv(x)
    <3> HIDE DEF x
    <3>1. QED
      BY <1>2, <2>2 DEF SessionInv, WaitOK, BufferOK, BodyOK
  <2>5. QED
    <3> HIDE DEF x
    <3>1. SentAndRead(s, opened) = IF x.stm \in {"READ", "DATA"} /\ x.rbuf # <<>>
                                   THEN request_actual_read(x) ELSE x
      BY DEF SentAndRead, x
    <3>2. QED
      BY <2>2, <2>3, <2>4, <3>1
<1>6. QED
  BY <1>4, <1>5

\* write_file_handler: the write changes the temporary file only.
LEMMA WrittenType ==
  ASSUME NEW s \in Session, EnvelopeOK(s.data), s.data.state = "BODY"
  PROVE  /\ Written(s) \in Session
         /\ Written(s) = [s EXCEPT !.tmp = Written(s).tmp]
<1> DEFINE u == s.data.rcpt_to[1]
           f == Overwrite(s.tmp[u], <<Header(s.data)>> \o s.par.data)
           g == [s.tmp EXCEPT ![u] = f]
<1>1. u \in User
  <2>1. s.data.rcpt_to # <<>> /\ s.data.rcpt_to \in Seq(User)
    BY DEF EnvelopeOK, Session, SmtpData
  <2>2. QED
    BY <2>1, EmptySeq, ElementOfSeq
<1>2. f \in File
  <2>1. s.par.data \in File
    <3>1. s.par.data \in Seq(Token) /\ Token \subseteq Cell
      BY DEF Session, Parser, Cell
    <3>2. QED
      BY <3>1, SeqMonotonic DEF File
  <2>2. <<Header(s.data)>> \o s.par.data \in File
    BY <2>1, HeaderType, ConcatProperties DEF Session, File
  <2>3. s.tmp[u] \in File
    BY <1>1 DEF Session
  <2>4. QED
    BY <2>2, <2>3, OverwriteType DEF File
<1>3. g \in [User -> File]
  <2> HIDE DEF f, u
  <2>1. QED
    BY <1>1, <1>2 DEF Session
<1>4. Written(s) = IF s.pipe THEN s ELSE [s EXCEPT !.tmp = g]
  BY DEF Written
<1>5. QED
  <2> HIDE DEF g
  <2>1. QED
    BY <1>3, <1>4 DEF Session

\* maildir.c's copies are files of users.
LEMMA DeliveredType ==
  ASSUME NEW s \in Session, s.temp_path \in User, NEW failed
  PROVE  Delivered(s, failed) \in [User -> File]
<1>1. \A u \in User : Overwrite(s.new[u], s.tmp[s.temp_path]) \in File /\ s.new[u] \in File
  BY OverwriteType DEF Session, File
<1>2. QED
  BY <1>1 DEF Delivered

\* The end of the body, before the answer: the request and the envelope are cleared.
Cleaned(s, failed) ==
  clean_request([s EXCEPT !.new = Delivered(s, failed), !.interest = "WRITE", !.output = "none"])

\* clean_request, after a mail, leaves a session with nothing pending.
LEMMA CleanedType ==
  ASSUME NEW s \in Session, s.temp_path \in User, s.wbuf = <<>>, NEW failed
  PROVE  LET w == Cleaned(s, failed)
         IN  /\ w \in Session
             /\ w.phase = s.phase /\ w.interest = "WRITE" /\ w.output = "none" /\ w.stm = s.stm
             /\ w.wbuf = <<>> /\ w.data.state = s.data.state /\ w.par.req = EmptyRequest
<1> DEFINE n == Delivered(s, failed)
           v == [s EXCEPT !.new = n, !.interest = "WRITE", !.output = "none"]
           p == [v.par EXCEPT !.req = EmptyRequest]
           d == [v.data EXCEPT !.mail_from = NoUser, !.rcpt_to = <<>>]
           w == Cleaned(s, failed)
<1>1. n \in [User -> File]
  BY DeliveredType
<1>2. v \in Session /\ v.phase = s.phase /\ v.interest = "WRITE" /\ v.output = "none"
      /\ v.stm = s.stm /\ v.wbuf = <<>> /\ v.data = s.data
  <2> HIDE DEF n
  <2>1. QED
    BY <1>1 DEF Session
<1>3. p \in Parser /\ p.req = EmptyRequest
  <2>1. v.par \in Parser /\ EmptyRequest \in Request
    BY <1>2 DEF Session, EmptyRequest, Request, Arg, OtherArg
  <2> HIDE DEF v
  <2>2. QED
    BY <2>1 DEF Parser
<1>4. d \in SmtpData /\ d.state = s.data.state
  <2>1. v.data \in SmtpData /\ v.data.state = s.data.state
    BY <1>2 DEF Session
  <2> HIDE DEF v
  <2>2. QED
    BY <2>1, EmptySeq DEF SmtpData
<1>5. w = [v EXCEPT !.par = p, !.data = d]
  <2>1. w = clean_request(v)
    BY DEF Cleaned
  <2>2. v.data \in SmtpData /\ v.par \in Parser
    BY <1>2 DEF Session
  <2> HIDE DEF v, w
  <2>3. QED
    BY <1>2, <2>1, <2>2 DEF clean_request, Session, SmtpData, Parser
<1>6. /\ w \in Session
      /\ w.phase = s.phase /\ w.interest = "WRITE" /\ w.output = "none" /\ w.stm = s.stm
      /\ w.wbuf = <<>> /\ w.data.state = s.data.state /\ w.par.req = EmptyRequest
  <2> HIDE DEF v, p, d, w
  <2>1. QED
    BY <1>2, <1>3, <1>4, <1>5 DEF Session
<1>7. QED
  BY <1>6

\* The end of the body: the answer, from a request that was cleared.
LEMMA FinishedInv ==
  ASSUME NEW s \in Session, SessionInv(s), s.phase = "open", s.stm = "DATA_WRITE",
         s.interest = "NOOP", NEW failed
  PROVE  SessionInv(Finished(s, failed))
<1> DEFINE w == Cleaned(s, failed)
<1>1. s.data.state = "BODY" /\ s.temp_path \in User /\ s.wbuf = <<>>
  BY EmptySeq DEF SessionInv, BodyOK, BufferOK, Session
<1>2. w \in Session /\ w.phase = "open" /\ w.interest = "WRITE" /\ w.output = "none"
      /\ w.stm = "DATA_WRITE" /\ w.wbuf = <<>> /\ w.data.state = "BODY" /\ w.par.req = EmptyRequest
  BY <1>1, CleanedType
<1>3. Finished(s, failed) = request_process(w)
  BY DEF Finished, Cleaned
<1> HIDE DEF w
<1>4. EnvelopeOK(Process(w.data, w.par.req, registry).data)
  <2>1. w.data \in SmtpData
    BY <1>2 DEF Session
  <2>2. QED
    BY <1>2, <2>1, ProcessEndOfBody
<1>5. SessionInv(request_process(w))
  BY <1>2, <1>4, ReplyInv
<1>6. QED
  BY <1>3, <1>5

\* More body to come.
LEMMA StoreChunkInv ==
  ASSUME NEW s \in Session, SessionInv(s), s.phase = "open", s.stm = "DATA_WRITE",
         s.interest = "NOOP", NEW opened \in BOOLEAN, transform \in BOOLEAN
  PROVE  SessionInv(request_data_init([Written(s) EXCEPT !.interest = "READ", !.output = "NOOP"],
                                      opened))
<1> DEFINE w == Written(s)
           v == [w EXCEPT !.interest = "READ", !.output = "NOOP"]
<1>1. s.data.state = "BODY" /\ EnvelopeOK(s.data) /\ Len(s.wbuf) = 0
  BY DEF SessionInv, BodyOK, BufferOK
<1>2. w \in Session /\ w = [s EXCEPT !.tmp = w.tmp]
  BY <1>1, WrittenType
<1>3. v \in Session /\ v.phase = "open" /\ v.interest = "READ" /\ v.data = s.data /\ v.wbuf = s.wbuf
  <2> HIDE DEF w
  <2>1. w.phase = "open" /\ w.data = s.data /\ w.wbuf = s.wbuf
    BY <1>2 DEF Session
  <2>2. QED
    BY <1>2, <2>1 DEF Session
<1>4. v.wbuf = <<>>
  BY <1>1, <1>3, EmptySeq DEF Session
<1>5. QED
  <2> HIDE DEF v
  <2>1. SessionInv(request_data_init(v, opened))
    BY <1>1, <1>3, <1>4, DataInitInv
  <2>2. QED
    BY <2>1 DEF v

-----------------------------------------------------------------------------
(* The types of what the sessions share.                                   *)

\* Whatever is counted, the counters stay counters.
LEMMA MonitorType ==
  ASSUME NEW m \in Monitor, NEW n \in Nat, NEW s
  PROVE  /\ [m EXCEPT !.curr = @ + 1, !.total = @ + 1] \in Monitor
         /\ [m EXCEPT !.sent_bytes = (@ + n) % SentModulus] \in Monitor
         /\ monitor_close_connection(m) \in Monitor
         /\ CloseCounted(m, s) \in Monitor
<1>1. m.curr + 1 \in Int /\ m.curr - 1 \in Int /\ m.total + 1 \in Nat
  BY DEF Monitor
<1>2. (m.sent_bytes + n) % SentModulus \in 0..SentModulus - 1
  BY ModulusAssumption DEF Monitor
<1>3. [m EXCEPT !.curr = @ + 1, !.total = @ + 1] \in Monitor
  BY <1>1 DEF Monitor
<1>4. [m EXCEPT !.sent_bytes = (@ + n) % SentModulus] \in Monitor
  BY <1>2 DEF Monitor
<1>5. monitor_close_connection(m) \in Monitor
  BY <1>1 DEF Monitor, monitor_close_connection
<1>6. QED
  BY <1>3, <1>4, <1>5 DEF CloseCounted

\* Lines on the wire are tokens.
LEMMA WireType ==
  ASSUME NEW w \in Seq(Line)
  PROVE  Wire(w) \in Seq(Token)
<1> DEFINE n == 2 * Len(w)
<1>1. Len(w) \in Nat /\ n \in Nat
  BY LenProperties
<1>2. ASSUME NEW i \in 1..n PROVE (IF i % 2 = 1 THEN w[(i + 1) \div 2] ELSE LF) \in Token
  <2>1. i % 2 = 1 => (i + 1) \div 2 \in 1..Len(w)
    BY <1>1
  <2>2. i % 2 = 1 => w[(i + 1) \div 2] \in Line
    BY <2>1, ElementOfSeq
  <2>3. QED
    BY <2>2 DEF Token
<1>3. Wire(w) \in [1..n -> Token]
  BY <1>2 DEF Wire
<1>4. QED
  BY <1>1, <1>3, SeqDef

\* What recv takes is a prefix of what is on its way.
LEMMA PrefixType ==
  ASSUME NEW S, NEW b \in Seq(S), NEW n \in 0..Len(b)
  PROVE  SubSeq(b, 1, n) \in Seq(S)
<1>1. \A i \in 1..n : b[i] \in S
  BY ElementOfSeq, LenProperties
<1>2. QED
  BY <1>1, SubSeqProperties, LenProperties

\* The registry's entries of one mail are mails.
LEMMA EntriesType ==
  ASSUME NEW c \in Conn, NEW d \in SmtpData
  PROVE  Entries(c, d) \in Seq(Mail)
<1>1. d.rcpt_to \in Seq(User) /\ DOMAIN d.rcpt_to = 1..Len(d.rcpt_to) /\ Len(d.rcpt_to) \in Nat
  BY LenProperties DEF SmtpData
<1>2. \A i \in 1..Len(d.rcpt_to) :
        [from |-> d.mail_from, to |-> d.rcpt_to[i], path |-> c, today |-> TRUE] \in Mail
  BY <1>1, ElementOfSeq DEF Mail, SmtpData
<1>3. Entries(c, d) \in [1..Len(d.rcpt_to) -> Mail]
  BY <1>1, <1>2 DEF Entries
<1>4. QED
  BY <1>1, <1>3, SeqDef

-----------------------------------------------------------------------------
(* The steps.                                                              *)

\* The invariant, for one session.
LEMMA SessionOf ==
  ASSUME IInv, NEW c \in Conn
  PROVE  SessionInv(sess[c])
BY InvOfSessions DEF IInv, TypeOK

\* A step that replaces the record of one connection.
LEMMA StepInv ==
  ASSUME IInv, NEW c \in Conn, NEW s, SessionInv(s), sess' = [sess EXCEPT ![c] = s],
         server' \in {"up", "aborted", "sigpipe", "sigsegv"}, listening' \in SUBSET Listener,
         transform' \in BOOLEAN,
         registry' \in Seq(Mail), monitor' \in Monitor, client' \in [Conn -> Client],
         server' = "aborted" => "write" \in Faults
  PROVE  IInv'
<1>1. sess' \in [Conn -> Session]
  BY DEF IInv, TypeOK, SessionInv
<1>2. \A d \in Conn : SessionInv(sess'[d])
  BY SessionOf DEF IInv, TypeOK
<1>3. TypeOK'
  BY <1>1 DEF TypeOK
<1>4. AbortNeedsWriteError'
  BY DEF AbortNeedsWriteError
<1>5. /\ InterestMatchesState' /\ ArmedOutputHasSession' /\ OneReplyPending'
      /\ NothingLeftBehind' /\ EnvelopeComplete' /\ BodyHasFile' /\ ErrorNeedsWriteError'
      /\ FreshUntilAccepted'
  BY <1>1, <1>2
  DEF SessionInv, WaitOK, BufferOK, EnvelopeOK, BodyOK, Open, InterestMatchesState,
      ArmedOutputHasSession, OneReplyPending, NothingLeftBehind, EnvelopeComplete,
      BodyHasFile, ErrorNeedsWriteError, FreshUntilAccepted
<1>6. QED
  BY <1>3, <1>4, <1>5 DEF IInv

\* A step that leaves the sessions alone.
LEMMA IdleInv ==
  ASSUME IInv, sess' = sess,
         server' \in {"up", "aborted", "sigpipe", "sigsegv"}, listening' \in SUBSET Listener,
         transform' \in BOOLEAN,
         registry' \in Seq(Mail), monitor' \in Monitor, client' \in [Conn -> Client],
         server' = "aborted" => "write" \in Faults
  PROVE  IInv'
BY DEF IInv, TypeOK, AbortNeedsWriteError, Open, InterestMatchesState,
       ArmedOutputHasSession, OneReplyPending, NothingLeftBehind, EnvelopeComplete,
       BodyHasFile, ErrorNeedsWriteError, FreshUntilAccepted

\* Initially no client has connected.
LEMMA InitInv == Init => IInv
<1> SUFFICES ASSUME Init PROVE IInv
  OBVIOUS
<1>1. request_parser_init \in Parser
  BY EmptySeq DEF request_parser_init, EmptyRequest, Parser, Request, Arg, OtherArg
<1>2. InitData \in SmtpData
  BY EmptySeq DEF InitData, SmtpData, SmtpState
<1>3. [u \in User |-> <<>>] \in [User -> File]
  BY EmptySeq DEF File
<1>4. NoSession \in Session
  BY <1>1, <1>2, <1>3, EmptySeq DEF NoSession, Session, StmState
<1>5. SessionInv(NoSession)
  BY <1>4 DEF SessionInv, NoSession
<1>6. sess \in [Conn -> Session] /\ \A c \in Conn : SessionInv(sess[c])
  BY <1>4, <1>5 DEF Init
<1>7. registry \in Seq(Mail)
  <2>1. [from : User, to : User, path : {"mock"}, today : BOOLEAN] \subseteq Mail
    BY DEF Mail
  <2>2. QED
    BY <2>1, MockAssumption, SeqMonotonic DEF Init
<1>8. monitor \in Monitor
  BY ModulusAssumption DEF Init, Monitor
<1>9. client \in [Conn -> Client]
  <2>1. \A w \in Scripts : [todo |-> w, net |-> <<>>, eof |-> FALSE] \in Client
    BY ScriptAssumption, EmptySeq DEF Client
  <2>2. QED
    BY <2>1 DEF Init
<1>10. TypeOK
  BY <1>6, <1>7, <1>8, <1>9 DEF Init, TypeOK
<1>11. QED
  BY <1>6, <1>10, InvOfSessions DEF Init, IInv, AbortNeedsWriteError

\* What clients do keeps the invariant.
LEMMA ClientInv ==
  ASSUME IInv, NEW c \in Conn, ClientSend(c) \/ ClientClose(c)
  PROVE  IInv'
<1>1. client[c] \in Client /\ client \in [Conn -> Client]
  BY DEF IInv, TypeOK
<1>2. CASE ClientSend(c)
  <2> DEFINE n == IF WholeSend THEN Len(client[c].todo) ELSE 1
             k == [client[c] EXCEPT !.net = @ \o Wire(SubSeq(client[c].todo, 1, n)),
                                    !.todo = After(@, n)]
  <2>1. client[c].todo \in Seq(Line) /\ client[c].net \in Seq(Token) /\ client[c].todo # <<>>
    BY <1>1, <1>2 DEF Client, ClientSend
  <2>2. n \in 0..Len(client[c].todo)
    BY <2>1, EmptySeq, FaultAssumption
  <2>3. Wire(SubSeq(client[c].todo, 1, n)) \in Seq(Token) /\ After(client[c].todo, n) \in Seq(Line)
    <3> HIDE DEF n
    <3>1. SubSeq(client[c].todo, 1, n) \in Seq(Line)
      BY <2>1, <2>2, PrefixType
    <3>2. n \in Nat
      BY <2>1, <2>2, LenProperties
    <3>3. QED
      BY <2>1, <3>1, <3>2, WireType, AfterType
  <2>4. client[c].net \o Wire(SubSeq(client[c].todo, 1, n)) \in Seq(Token)
    BY <2>1, <2>3, ConcatProperties
  <2>5. client' = [client EXCEPT ![c] = k]
    BY <1>2 DEF ClientSend
  <2>6. k \in Client
    <3> HIDE DEF n
    <3>1. QED
      BY <1>1, <2>3, <2>4 DEF Client
  <2>7. client' \in [Conn -> Client]
    <3> HIDE DEF k
    <3>1. QED
      BY <1>1, <2>5, <2>6
  <2>8. QED
    BY <1>2, <2>7, IdleInv DEF ClientSend, ServerUnchanged, IInv, TypeOK, AbortNeedsWriteError
<1>3. CASE ClientClose(c)
  <2>1. client' \in [Conn -> Client]
    BY <1>1, <1>3, EmptySeq DEF ClientClose, Client
  <2>2. QED
    BY <1>3, <2>1, IdleInv DEF ClientClose, ServerUnchanged, IInv, TypeOK, AbortNeedsWriteError
<1>4. QED
  BY <1>2, <1>3

\* smtp_passive_accept keeps the invariant, whichever call fails.
LEMMA AcceptInv ==
  ASSUME IInv, NEW c \in Conn, OnListener(c)
  PROVE  IInv'
<1> DEFINE s == sess[c]
<1>1. s \in Session /\ SessionInv(s) /\ monitor \in Monitor
  BY SessionOf DEF IInv, TypeOK
<1>2. CASE Accept(c)
  <2> DEFINE t == [s EXCEPT !.phase = "open", !.interest = "WRITE", !.wbuf = <<"220">>]
  <2>1. s = NoSession
    BY <1>1, <1>2 DEF Accept, Pending, SessionInv
  <2>2. <<"220">> \in Seq(Reply) /\ Len(<<"220">>) = 1
    BY DEF Reply
  <2>3. t \in Session /\ t.phase = "open" /\ t.interest = "WRITE" /\ t.wbuf = <<"220">>
        /\ t.output = s.output /\ t.stm = s.stm /\ t.data = s.data
    BY <1>1, <2>2 DEF Session
  <2>4. s.output = "none" /\ s.stm = "NULL" /\ s.data.state = "EHLO"
    BY <2>1 DEF NoSession, InitData
  <2>5. SessionInv(t)
    <3> HIDE DEF t, s
    <3>1. QED
      BY <2>2, <2>3, <2>4 DEF SessionInv, WaitOK, BufferOK, BodyOK, EnvelopeOK
  <2>6. sess' = [sess EXCEPT ![c] = t] /\ monitor' \in Monitor
    BY <1>1, <1>2, MonitorType DEF Accept, monitor_add_connection
  <2>7. QED
    <3> HIDE DEF t
    <3>1. QED
      BY <1>2, <2>5, <2>6, StepInv DEF Accept, IInv, TypeOK, AbortNeedsWriteError
<1>3. CASE AcceptNoMemory(c) \/ AcceptNoRegister(c)
  <2> DEFINE t == [s EXCEPT !.phase = "lost"]
  <2>1. s = NoSession
    BY <1>1, <1>3 DEF AcceptNoMemory, AcceptNoRegister, Pending, SessionInv
  <2>2. t \in Session /\ t.phase = "lost" /\ t.output = s.output /\ t.stm = s.stm
    BY <1>1 DEF Session
  <2>3. s.output = "none" /\ s.stm = "NULL"
    BY <2>1 DEF NoSession
  <2>4. SessionInv(t)
    <3> HIDE DEF t, s
    <3>1. QED
      BY <2>2, <2>3 DEF SessionInv
  <2>5. sess' = [sess EXCEPT ![c] = t]
    BY <1>3 DEF AcceptNoMemory, AcceptNoRegister
  <2>6. QED
    <3> HIDE DEF t
    <3>1. QED
      BY <1>3, <2>4, <2>5, StepInv
      DEF AcceptNoMemory, AcceptNoRegister, IInv, TypeOK, AbortNeedsWriteError
<1>4. QED
  BY <1>2, <1>3 DEF OnListener

\* request_write_handler keeps the invariant.
LEMMA WriteInv ==
  ASSUME IInv, NEW c \in Conn, Write(c)
  PROVE  IInv'
<1>1. SessionInv(sess[c]) /\ sess[c] \in Session /\ monitor \in Monitor /\ transform \in BOOLEAN
  BY SessionOf DEF IInv, TypeOK, SessionInv
<1>2. PICK opened \in BOOLEAN :
        /\ sess' = [sess EXCEPT ![c] = SentAndRead(sess[c], opened)]
        /\ monitor' = CloseCounted(monitor_add_sent_bytes(Bytes(sess[c].wbuf)),
                                   SentAndRead(sess[c], opened))
  BY DEF Write
<1>3. SessionInv(SentAndRead(sess[c], opened))
  BY <1>1, SentAndReadInv DEF Write, Dispatched, Open
<1>4. monitor' \in Monitor
  <2>1. Bytes(sess[c].wbuf) \in Nat
    BY <1>1, LenProperties DEF Session, Bytes
  <2>2. monitor_add_sent_bytes(Bytes(sess[c].wbuf)) \in Monitor
    BY <1>1, <2>1, MonitorType DEF monitor_add_sent_bytes
  <2>3. QED
    BY <1>2, <2>2, MonitorType
<1>5. QED
  BY <1>2, <1>3, <1>4, StepInv DEF Write, IInv, TypeOK, AbortNeedsWriteError

\* A failed send and the end of a stream keep the invariant.
LEMMA EndInv ==
  ASSUME IInv, NEW c \in Conn, WriteFails(c) \/ ReadEnd(c)
  PROVE  IInv'
<1>1. SessionInv(sess[c]) /\ sess[c] \in Session /\ monitor \in Monitor
  BY SessionOf DEF IInv, TypeOK, SessionInv
<1>2. SessionInv(smtp_done(sess[c]))
  BY <1>1, DoneInv DEF WriteFails, ReadEnd, Dispatched, Open, SessionInv, WaitOK
<1>3. sess' = [sess EXCEPT ![c] = smtp_done(sess[c])]
  BY DEF WriteFails, ReadEnd
<1>4. monitor' \in Monitor
  <2>1. SentModulus - 1 \in Nat
    BY ModulusAssumption
  <2>2. monitor_add_sent_bytes(SentModulus - 1) \in Monitor
    BY <1>1, <2>1, MonitorType DEF monitor_add_sent_bytes
  <2>3. QED
    BY <1>1, <2>2, MonitorType DEF WriteFails, ReadEnd
<1>5. QED
  BY <1>2, <1>3, <1>4, StepInv DEF WriteFails, ReadEnd, IInv, TypeOK, AbortNeedsWriteError

\* A read from the socket keeps the invariant.
LEMMA ReadStepInv ==
  ASSUME IInv, NEW c \in Conn, Read(c)
  PROVE  IInv'
<1>1. SessionInv(sess[c]) /\ sess[c] \in Session /\ monitor \in Monitor
      /\ client \in [Conn -> Client] /\ client[c].net \in Seq(Token)
      /\ sess[c].rbuf \in Seq(Token) /\ sess[c].wbuf \in Seq(Reply)
  BY SessionOf DEF IInv, TypeOK, SessionInv, Session, Client
<1> DEFINE b(n) == sess[c].rbuf \o SubSeq(client[c].net, 1, n)
           s(n) == [sess[c] EXCEPT !.rbuf = b(n)]
<1>2. PICK n \in Received(c) :
        /\ sess' = [sess EXCEPT ![c] = request_actual_read(s(n))]
        /\ client' = [client EXCEPT ![c].net = After(@, n)]
        /\ transform' = IF request_actual_read(s(n)).stm = "WRITE"
                        THEN set_status(sess[c].data, request_actual_read(s(n)).par.req, transform)
                        ELSE transform
        /\ monitor' = CloseCounted(monitor, request_actual_read(s(n)))
  BY DEF Read
<1>3. n \in 0..Len(client[c].net)
  <2>1. Len(client[c].net) \in Nat
    BY <1>1, LenProperties
  <2>2. QED
    BY <1>2, <2>1 DEF Received
<1>4. b(n) \in Seq(Token)
  BY <1>1, <1>3, PrefixType, ConcatProperties
<1>5. s(n) \in Session /\ s(n).phase = "open" /\ s(n).interest = "READ" /\ s(n).stm = sess[c].stm
      /\ s(n).output = sess[c].output /\ s(n).wbuf = sess[c].wbuf /\ s(n).data = sess[c].data
      /\ s(n).temp_path = sess[c].temp_path
  <2> HIDE DEF b
  <2>1. sess[c].phase = "open" /\ sess[c].interest = "READ"
    BY DEF Read, Dispatched, Open
  <2>2. QED
    BY <1>1, <1>4, <2>1 DEF Session
<1>6. SessionInv(request_actual_read(s(n)))
  <2>1. sess[c].wbuf = <<>>
    BY <1>1, EmptySeq DEF SessionInv, BufferOK, Read, Dispatched, Open
  <2>2. EnvelopeOK(sess[c].data) /\ BodyOK(sess[c]) /\ sess[c].output # "WRITE"
    BY <1>1 DEF SessionInv, WaitOK, Read, Dispatched, Open
  <2> HIDE DEF s
  <2>3. EnvelopeOK(s(n).data) /\ BodyOK(s(n))
    BY <1>5, <2>2 DEF BodyOK
  <2>4. QED
    BY <1>5, <2>1, <2>2, <2>3, ReadInv DEF Read
<1>7. client' \in [Conn -> Client]
  <2>1. After(client[c].net, n) \in Seq(Token)
    BY <1>1, <1>3, AfterType, LenProperties
  <2>2. QED
    BY <1>1, <1>2, <2>1 DEF Client
<1>8. transform' \in BOOLEAN
  BY <1>2 DEF set_status, IInv, TypeOK
<1>9. monitor' \in Monitor
  BY <1>1, <1>2, MonitorType
<1>10. QED
  <2> HIDE DEF s
  <2>1. QED
    BY <1>2, <1>6, <1>7, <1>8, <1>9, StepInv DEF Read, IInv, TypeOK, AbortNeedsWriteError

\* The handlers of the output file keep the invariant.
LEMMA OutputInv ==
  ASSUME IInv, NEW c \in Conn, OnOutput(c)
  PROVE  IInv'
<1>1. SessionInv(sess[c]) /\ sess[c] \in Session /\ transform \in BOOLEAN /\ sess \in [Conn -> Session]
  BY SessionOf DEF IInv, TypeOK, SessionInv
<1>2. sess[c].output = "WRITE" /\ sess[c].phase = "open" /\ sess[c].interest = "NOOP"
      /\ sess[c].stm = "DATA_WRITE"
  BY <1>1 DEF OnOutput, StoreLast, StoreChunk, StoreFails, StoreToDeadPipe, OutputReady,
              SessionInv, WaitOK
<1>3. sess[c].data.state = "BODY" /\ EnvelopeOK(sess[c].data) /\ sess[c].data \in SmtpData
  BY <1>1, <1>2 DEF SessionInv, BodyOK, Session
<1> DEFINE w == Written(sess[c])
<1>4. w \in Session /\ w = [sess[c] EXCEPT !.tmp = w.tmp]
  BY <1>1, <1>3, WrittenType
<1>5. /\ w.phase = "open" /\ w.interest = "NOOP" /\ w.stm = "DATA_WRITE" /\ w.output = "WRITE"
      /\ w.data = sess[c].data /\ w.wbuf = sess[c].wbuf /\ w.temp_path = sess[c].temp_path
  <2> HIDE DEF w
  <2>1. QED
    BY <1>1, <1>2, <1>4 DEF Session
<1>6. SessionInv(w)
  <2> HIDE DEF w
  <2>1. QED
    BY <1>1, <1>2, <1>4, <1>5 DEF SessionInv, WaitOK, BufferOK, BodyOK
<1>7. CASE StoreLast(c)
  <2>1. PICK failed : sess' = [sess EXCEPT ![c] = Finished(w, failed)]
    BY <1>7 DEF StoreLast
  <2>2. SessionInv(Finished(w, failed))
    <3> HIDE DEF w
    <3>1. QED
      BY <1>4, <1>5, <1>6, FinishedInv
  <2>3. registry' \in Seq(Mail)
    <3>1. registry \in Seq(Mail) /\ Entries(c, sess[c].data) \in Seq(Mail)
      BY <1>3, EntriesType DEF IInv, TypeOK
    <3>2. QED
      BY <1>7, <3>1, ConcatProperties DEF StoreLast
  <2>4. QED
    <3> HIDE DEF w
    <3>1. QED
      BY <1>7, <2>1, <2>2, <2>3, StepInv DEF StoreLast, IInv, TypeOK, AbortNeedsWriteError
<1>8. CASE StoreChunk(c)
  <2> DEFINE v(opened) == request_data_init([w EXCEPT !.interest = "READ", !.output = "NOOP"], opened)
  <2>1. PICK opened \in BOOLEAN : sess' = [sess EXCEPT ![c] = v(opened)]
    BY <1>8 DEF StoreChunk
  <2>2. SessionInv(v(opened))
    BY <1>1, <1>2, StoreChunkInv
  <2>3. QED
    <3> HIDE DEF v
    <3>1. QED
      BY <1>8, <2>1, <2>2, StepInv DEF StoreChunk, IInv, TypeOK, AbortNeedsWriteError
<1>9. CASE StoreFails(c)
  <2> DEFINE t == [sess[c] EXCEPT !.stm = "ERROR"]
  <2>1. t \in Session /\ t.phase = "open" /\ t.interest = "NOOP" /\ t.output = "WRITE"
        /\ t.stm = "ERROR" /\ t.data = sess[c].data /\ t.wbuf = sess[c].wbuf
    BY <1>1, <1>2 DEF Session, StmState
  <2>2. "write" \in Faults
    BY <1>9 DEF StoreFails
  <2>3. SessionInv(t)
    <3> HIDE DEF t
    <3>1. QED
      BY <1>1, <1>2, <1>3, <2>1, <2>2 DEF SessionInv, WaitOK, BufferOK, BodyOK
  <2>4. sess' = [sess EXCEPT ![c] = t]
    BY <1>9 DEF StoreFails
  <2>5. QED
    <3> HIDE DEF t
    <3>1. QED
      BY <1>9, <2>3, <2>4, StepInv DEF StoreFails, IInv, TypeOK, AbortNeedsWriteError
<1>10. CASE StoreToDeadPipe(c)
  <2>1. sess' = [sess EXCEPT ![c] = w]
    BY <1>10 DEF StoreToDeadPipe
  <2>2. QED
    <3> HIDE DEF w
    <3>1. QED
      BY <1>6, <1>10, <2>1, StepInv DEF StoreToDeadPipe, IInv, TypeOK, AbortNeedsWriteError
<1>11. QED
  BY <1>7, <1>8, <1>9, <1>10 DEF OnOutput

\* An abort ends with the invariant.
LEMMA AbortInv ==
  ASSUME IInv, NEW c \in Conn, Abort(c)
  PROVE  IInv'
<1>1. sess[c].stm = "ERROR"
  BY SessionOf DEF Abort, Dispatched, OutputReady, Open, SessionInv, WaitOK
<1>2. "write" \in Faults
  BY <1>1, SessionOf DEF SessionInv
<1>3. QED
  BY <1>2, IdleInv DEF Abort, IInv, TypeOK

\* Every step keeps the invariant.
LEMMA NextInv == IInv /\ [Next]_vars => IInv'
<1> SUFFICES ASSUME IInv, [Next]_vars PROVE IInv'
  OBVIOUS
<1>1. ASSUME NEW c \in Conn, ClientSend(c) \/ ClientClose(c) PROVE IInv'
  BY <1>1, ClientInv
<1>2. ASSUME NEW c \in Conn, OnListener(c) PROVE IInv'
  BY <1>2, AcceptInv
<1>3. ASSUME NEW c \in Conn, Write(c) PROVE IInv'
  BY <1>3, WriteInv
<1>4. ASSUME NEW c \in Conn, WriteFails(c) \/ ReadEnd(c) PROVE IInv'
  BY <1>4, EndInv
<1>5. ASSUME NEW c \in Conn, WriteToDeadPipe(c) \/ ReadOutside(c) PROVE IInv'
  BY <1>5, IdleInv DEF WriteToDeadPipe, ReadOutside, IInv, TypeOK
<1>6. ASSUME NEW c \in Conn, Read(c) PROVE IInv'
  BY <1>6, ReadStepInv
<1>7. ASSUME NEW c \in Conn, OnOutput(c) PROVE IInv'
  BY <1>7, OutputInv
<1>8. ASSUME NEW c \in Conn, Abort(c) PROVE IInv'
  BY <1>8, AbortInv
<1>9. CASE UNCHANGED vars
  BY <1>9, IdleInv DEF vars, IInv, TypeOK, AbortNeedsWriteError
<1>10. QED
  BY <1>1, <1>2, <1>3, <1>4, <1>5, <1>6, <1>7, <1>8, <1>9 DEF Next, OnSocket

-----------------------------------------------------------------------------
\* Every reachable state satisfies the inductive invariant.
THEOREM Invariant == Spec => []IInv
<1>1. Init => IInv
  BY InitInv
<1>2. IInv /\ [Next]_vars => IInv'
  BY NextInv
<1>3. QED
  BY <1>1, <1>2, PTL DEF Spec

\* The state of the server stays within its types: in particular every request has a
\* reply, whatever the dialogue's state, and the mailbox of a body is a user's.
THEOREM TypeCorrect == Spec => []TypeOK
<1>1. IInv => TypeOK
  BY DEF IInv
<1>2. QED
  BY <1>1, Invariant, PTL

\* selector.c never dispatches a session to a state of stm.c without the handler,
\* and a session waits on exactly one of its two descriptors.
THEOREM InterestMatches == Spec => []InterestMatchesState
<1>1. IInv => InterestMatchesState
  BY DEF IInv
<1>2. QED
  BY <1>1, Invariant, PTL

\* Only a failed write() of a mail file can make stm.c abort the server.
THEOREM AbortOnlyByWriteError == Spec => []AbortNeedsWriteError
<1>1. IInv => AbortNeedsWriteError
  BY DEF IInv
<1>2. QED
  BY <1>1, Invariant, PTL

\* write_file is never dispatched for a session that was freed.
THEOREM ArmedOutputIsLive == Spec => []ArmedOutputHasSession
<1>1. IInv => ArmedOutputHasSession
  BY DEF IInv
<1>2. QED
  BY <1>1, Invariant, PTL

\* write_buffer holds one reply while the socket waits to be written, else none.
THEOREM OneReply == Spec => []OneReplyPending
<1>1. IInv => OneReplyPending
  BY DEF IInv
<1>2. QED
  BY <1>1, Invariant, PTL

\* No session waits in READ with unread bytes in read_buffer.
THEOREM AllParsed == Spec => []NothingLeftBehind
<1>1. IInv => NothingLeftBehind
  BY DEF IInv
<1>2. QED
  BY <1>1, Invariant, PTL

\* Every body is accepted for a sender and at least one recipient.
THEOREM Envelopes == Spec => []EnvelopeComplete
<1>1. IInv => EnvelopeComplete
  BY DEF IInv
<1>2. QED
  BY <1>1, Invariant, PTL

-----------------------------------------------------------------------------
(* What the handlers of a socket make of a session.                        *)

Waits(d, stm, u) ==
  /\ stm # "DATA"
  /\ u.phase = "open" /\ u.interest = "READ" /\ u.stm = stm /\ u.data = d /\ u.wbuf = <<>>

Quits(d, stm, u) ==
  u.phase = "closed" /\ u.interest = "NOOP" /\ u.stm = stm /\ u.data = d /\ u.wbuf = <<>>

Replies(d, stm, u) ==
  /\ stm # "DATA"
  /\ u.phase = "open" /\ u.interest = "WRITE" /\ u.stm = "WRITE"
  /\ u.par.req \in Request
  /\ u.data = Process(d, u.par.req, registry).data
  /\ u.wbuf = <<Process(d, u.par.req, registry).msg>>

Stores(d, stm, u) ==
  /\ stm = "DATA"
  /\ u.phase = "open" /\ u.interest = "NOOP" /\ u.stm = "DATA_WRITE" /\ u.data = d /\ u.wbuf = <<>>

\* The outcomes of reading in state stm of the machine, with the dialogue's data d.
ReadOutcome(d, stm, u) ==
  Waits(d, stm, u) \/ Quits(d, stm, u) \/ Replies(d, stm, u) \/ Stores(d, stm, u)

\* A reply appended to an empty buffer is alone there.
LEMMA OneReplyAppended ==
  ASSUME NEW m \in Reply
  PROVE  Append(<<>>, m) = <<m>>
<1>1. <<>> \in Seq(Reply)
  BY EmptySeq
<1>2. QED
  BY <1>1, AppendIsConcat

\* request_process either quits the session or leaves one reply to send.
LEMMA ProcessOutcome ==
  ASSUME NEW s \in Session, s.phase = "open", s.interest = "WRITE", s.wbuf = <<>>, s.stm # "DATA"
  PROVE  Quits(s.data, s.stm, request_process(s)) \/ Replies(s.data, s.stm, request_process(s))
<1> DEFINE a == Process(s.data, s.par.req, registry)
           t == [s EXCEPT !.data = a.data, !.wbuf = Append(@, a.msg), !.stm = "WRITE"]
<1>1. s.data \in SmtpData /\ s.par.req \in Request
  BY DEF Session, Parser
<1>2. Append(s.wbuf, a.msg) = <<a.msg>>
  BY <1>1, ProcessType, OneReplyAppended
<1>3. CASE handle_quit(s.par.req)
  BY <1>3 DEF request_process, smtp_done, Quits, Session
<1>4. CASE ~handle_quit(s.par.req)
  <2>1. request_process(s) = t
    BY <1>4 DEF request_process
  <2>2. /\ t.phase = "open" /\ t.interest = "WRITE" /\ t.stm = "WRITE"
        /\ t.par = s.par /\ t.data = a.data /\ t.wbuf = <<a.msg>>
    <3> HIDE DEF a
    <3>1. QED
      BY <1>2 DEF Session
  <2>3. QED
    <3> HIDE DEF t
    <3>1. QED
      BY <1>1, <2>1, <2>2 DEF Replies
<1>5. QED
  BY <1>3, <1>4

\* A read waits for more, fails, or leaves one reply, by the state it is made in.
LEMMA ReadOutcomes ==
  ASSUME NEW s \in Session, s.phase = "open", s.interest = "READ",
         s.stm \in {"READ", "DATA", "ADMIN"}, s.wbuf = <<>>
  PROVE  ReadOutcome(s.data, s.stm, request_actual_read(s))
<1>1. CASE s.stm = "DATA"
  <2> DEFINE r == request_consume_data(s.par, s.rbuf)
             t == [s EXCEPT !.par = r.p, !.rbuf = r.rest]
             w == [t EXCEPT !.interest = "NOOP", !.output = "WRITE", !.stm = "DATA_WRITE"]
  <2>1. r.p \in Parser /\ r.rest \in Seq(Token)
    BY ConsumeDataType DEF Session
  <2>2. t \in Session /\ t.phase = "open" /\ t.stm = "DATA" /\ t.wbuf = <<>> /\ t.data = s.data
    <3> HIDE DEF r
    <3>1. QED
      BY <1>1, <2>1 DEF Session
  <2>3. Stores(s.data, s.stm, w) /\ Quits(s.data, s.stm, smtp_done(t))
    <3> HIDE DEF t
    <3>1. QED
      BY <1>1, <2>2 DEF Session, Stores, Quits, smtp_done
  <2>4. QED
    BY <1>1, <2>3 DEF request_actual_read, ReadBody, ReadOutcome
<1>2. CASE s.stm # "DATA"
  <2> DEFINE r == request_consume(s.par, s.rbuf, Argless(s.stm))
             t == [s EXCEPT !.par = r.p, !.rbuf = r.rest]
             w == [t EXCEPT !.interest = "WRITE"]
  <2>1. r.p \in Parser /\ r.rest \in Seq(Token)
    BY ConsumeType DEF Session
  <2>2. t \in Session /\ t.phase = "open" /\ t.interest = "READ" /\ t.stm = s.stm
        /\ t.wbuf = <<>> /\ t.data = s.data
    <3> HIDE DEF r
    <3>1. QED
      BY <2>1 DEF Session
  <2>3. w \in Session /\ w.phase = "open" /\ w.interest = "WRITE" /\ w.stm = s.stm
        /\ w.wbuf = <<>> /\ w.data = s.data
    <3> HIDE DEF t
    <3>1. QED
      BY <2>2 DEF Session
  <2>4. Quits(s.data, s.stm, request_process(w)) \/ Replies(s.data, s.stm, request_process(w))
    <3> HIDE DEF w
    <3>1. QED
      BY <1>2, <2>3, ProcessOutcome
  <2>5. Waits(s.data, s.stm, t)
    <3> HIDE DEF t
    <3>1. QED
      BY <1>2, <2>2 DEF Waits
  <2>6. request_actual_read(s) = IF request_is_done(r.p) THEN request_process(w) ELSE t
    BY <1>2 DEF request_actual_read, ReadCommand
  <2>7. QED
    <3> HIDE DEF r, t, w
    <3>1. QED
      BY <2>4, <2>5, <2>6 DEF ReadOutcome
<1>3. QED
  BY <1>1, <1>2

\* What the machine reads next once a reply was sent.
NextStm(d) ==
  CASE d.state = "BODY" -> "DATA"
    [] d.state \in AdminState -> "ADMIN"
    [] OTHER -> "READ"

\* After the reply: the session waits for its client in the state its dialogue calls
\* for, or what was buffered has been read there.
LEMMA SentOutcomes ==
  ASSUME NEW s \in Session, SessionInv(s), s.phase = "open", s.interest = "WRITE",
         NEW opened \in BOOLEAN, transform \in BOOLEAN
  PROVE  LET u == SentAndRead(s, opened)
         IN  \/ /\ u.phase = "open" /\ u.interest = "READ" /\ u.stm = NextStm(s.data)
                /\ u.data = s.data /\ u.wbuf = <<>>
             \/ ReadOutcome(s.data, NextStm(s.data), u)
<1> DEFINE t == [s EXCEPT !.wbuf = <<>>, !.interest = "READ"]
           x == Sent(s, opened)
<1>1. t \in Session /\ t.phase = "open" /\ t.interest = "READ" /\ t.wbuf = <<>> /\ t.data = s.data
  BY EmptySeq DEF Session
<1>2. x \in Session /\ x.phase = "open" /\ x.interest = "READ" /\ x.wbuf = <<>>
      /\ x.stm = NextStm(s.data) /\ x.data = s.data
  <2>1. CASE s.data.state = "BODY"
    <3>1. x = request_data_init(t, opened) /\ NextStm(s.data) = "DATA"
      BY <2>1 DEF Sent, AdminState, NextStm
    <3>2. EnvelopeOK(s.data)
      BY DEF SessionInv
    <3> HIDE DEF t, x
    <3>3. SessionInv(request_data_init(t, opened))
      BY <1>1, <2>1, <3>2, DataInitInv
    <3>4. x \in Session
      BY <3>1, <3>3 DEF SessionInv
    <3>5. x.phase = "open" /\ x.interest = "READ" /\ x.wbuf = <<>> /\ x.stm = "DATA"
          /\ x.data = s.data
      BY <1>1, <3>1 DEF request_data_init, Session
    <3>6. QED
      BY <3>1, <3>4, <3>5
  <2>2. CASE s.data.state # "BODY"
    <3> DEFINE m == IF s.data.state \in AdminState THEN "ADMIN" ELSE "READ"
    <3>1. x = [t EXCEPT !.stm = m, !.par = request_parser_init] /\ NextStm(s.data) = m
      BY <2>2 DEF Sent, NextStm
    <3>2. request_parser_init \in Parser
      BY EmptySeq DEF request_parser_init, EmptyRequest, Parser, Request, Arg, OtherArg
    <3>3. m \in StmState
      BY DEF StmState
    <3> HIDE DEF t, x, m
    <3>4. QED
      BY <1>1, <3>1, <3>2, <3>3 DEF Session
  <2>3. QED
    BY <2>1, <2>2
<1>3. x.stm \in {"READ", "DATA", "ADMIN"}
  BY <1>2 DEF NextStm
<1> HIDE DEF x
<1>4. ReadOutcome(s.data, NextStm(s.data), request_actual_read(x))
  BY <1>2, <1>3, ReadOutcomes
<1>5. SentAndRead(s, opened) = IF x.stm \in {"READ", "DATA"} /\ x.rbuf # <<>>
                               THEN request_actual_read(x) ELSE x
  BY DEF SentAndRead, x
<1>6. QED
  BY <1>2, <1>4, <1>5

-----------------------------------------------------------------------------
(* The command handlers once more: who enters the administration, and which *)
(* replies announce a body or a stored mail.                               *)

\* No request but the password leads to the administrator's states.
LEMMA EntersByPassword ==
  ASSUME NEW d \in SmtpData, NEW r \in Request, NEW reg,
         d.state \notin AdminState, Process(d, r, reg).data.state \in AdminState
  PROVE  r = [verb |-> "XAUTH", arg |-> Password]
<1> USE DEF Answer, SmtpData, AdminState
<1>1. d.state \in {"EHLO", "FROM", "TO", "DATA", "BODY"}
  BY DEF SmtpState
<1>2. Process(d, r, reg).data.state = handlers_table(d, r, reg).data.state
  BY <1>1 DEF Process, handle_reset
<1>3. d.state = "FROM"
  <2>1. handle_helo(d, r).data.state \notin AdminState
    BY DEF handle_helo
  <2>2. handle_to(d, r).data.state \notin AdminState
    BY DEF handle_to
  <2>3. handle_data(d, r).data.state \notin AdminState
    BY DEF handle_data
  <2>4. handle_body(d, r).data.state \notin AdminState
    BY DEF handle_body
  <2>5. QED
    BY <1>1, <1>2, <2>1, <2>2, <2>3, <2>4 DEF handlers_table
<1>4. handle_from(d, r).data.state \in AdminState
  BY <1>2, <1>3 DEF handlers_table
<1>5. r.verb = "XAUTH" /\ r.arg = Password
  BY <1>4 DEF handle_from, handle_xauth
<1>6. r = [verb |-> r.verb, arg |-> r.arg]
  BY DEF Request
<1>7. QED
  BY <1>5, <1>6

\* XTRAN keeps an administrator one.
LEMMA XtranStays ==
  ASSUME NEW d \in SmtpData, NEW r \in Request, NEW reg, d.state = "XFROM", r.verb = "XTRAN"
  PROVE  Process(d, r, reg).data.state = "XFROM"
<1>1. Process(d, r, reg) = handlers_table(d, r, reg)
  BY DEF Process
<1>2. handlers_table(d, r, reg) = handle_xfrom(d, r, reg)
  BY DEF handlers_table
<1>3. handle_xfrom(d, r, reg) = handle_xtran(d, r)
  BY DEF handle_xfrom
<1>4. handle_xtran(d, r).data.state = "XFROM"
  BY DEF handle_xtran, Answer, SmtpData
<1>5. QED
  BY <1>1, <1>2, <1>3, <1>4

-----------------------------------------------------------------------------
(* The monitor's counters.                                                 *)

OpenIn(f)   == {c \in Conn : f[c].phase = "open"}
ServedIn(f) == {c \in Conn : f[c].phase \in {"open", "closed"}}

\* The counters m agree with the sessions f, of which finitely many were served.
CountsOK(f, m) ==
  /\ IsFiniteSet(ServedIn(f))
  /\ m.curr  = Cardinality(OpenIn(f))
  /\ m.total = Cardinality(ServedIn(f))

\* One more open session, one fewer, or neither.
LEMMA CountingStep ==
  ASSUME NEW f \in [Conn -> Session], NEW c \in Conn, NEW s \in Session,
         NEW m \in Monitor, NEW n \in Monitor, CountsOK(f, m),
         \/ f[c].phase = "none" /\ s.phase = "open" /\ n.curr = m.curr + 1 /\ n.total = m.total + 1
         \/ f[c].phase = "open" /\ s.phase = "closed" /\ n.curr = m.curr - 1 /\ n.total = m.total
         \/ f[c].phase = "none" /\ s.phase = "lost" /\ n.curr = m.curr /\ n.total = m.total
         \/ f[c].phase = s.phase /\ n.curr = m.curr /\ n.total = m.total
  PROVE  CountsOK([f EXCEPT ![c] = s], n)
<1> DEFINE g == [f EXCEPT ![c] = s]
<1> SUFFICES CountsOK(g, n)
  OBVIOUS
<1>1. \A d \in Conn : g[d] = IF d = c THEN s ELSE f[d]
  OBVIOUS
<1>2. /\ IsFiniteSet(ServedIn(f)) /\ m.curr = Cardinality(OpenIn(f)) /\ m.total = Cardinality(ServedIn(f))
      /\ OpenIn(f) \subseteq ServedIn(f)
  BY DEF CountsOK, OpenIn, ServedIn
<1>3. IsFiniteSet(OpenIn(f)) /\ Cardinality(OpenIn(f)) \in Nat /\ Cardinality(ServedIn(f)) \in Nat
  BY <1>2, FS_Subset, FS_CardinalityType
<1> HIDE DEF g
<1>4. CASE f[c].phase = "none" /\ s.phase = "open"
  <2>1. OpenIn(g) = OpenIn(f) \cup {c} /\ c \notin OpenIn(f)
    BY <1>1, <1>4 DEF OpenIn
  <2>2. ServedIn(g) = ServedIn(f) \cup {c} /\ c \notin ServedIn(f)
    BY <1>1, <1>4 DEF ServedIn
  <2>3. n.curr = m.curr + 1 /\ n.total = m.total + 1
    BY <1>4
  <2>4. Cardinality(OpenIn(g)) = Cardinality(OpenIn(f)) + 1
    BY <1>3, <2>1, FS_AddElement
  <2>5. IsFiniteSet(ServedIn(g)) /\ Cardinality(ServedIn(g)) = Cardinality(ServedIn(f)) + 1
    BY <1>2, <2>2, FS_AddElement
  <2>6. QED
    BY <1>2, <2>3, <2>4, <2>5 DEF CountsOK
<1>5. CASE f[c].phase = "open" /\ s.phase = "closed"
  <2>1. OpenIn(g) = OpenIn(f) \ {c} /\ c \in OpenIn(f)
    BY <1>1, <1>5 DEF OpenIn
  <2>2. ServedIn(g) = ServedIn(f)
    BY <1>1, <1>5 DEF ServedIn
  <2>3. n.curr = m.curr - 1 /\ n.total = m.total
    BY <1>5
  <2>4. Cardinality(OpenIn(g)) = Cardinality(OpenIn(f)) - 1
    BY <1>3, <2>1, FS_RemoveElement
  <2>5. QED
    BY <1>2, <2>2, <2>3, <2>4 DEF CountsOK
<1>6. CASE (f[c].phase = "none" /\ s.phase = "lost") \/ f[c].phase = s.phase
  <2>1. OpenIn(g) = OpenIn(f) /\ ServedIn(g) = ServedIn(f)
    BY <1>1, <1>6 DEF OpenIn, ServedIn
  <2>2. n.curr = m.curr /\ n.total = m.total
    BY <1>6
  <2>3. QED
    BY <1>2, <2>1, <2>2 DEF CountsOK
<1>7. QED
  BY <1>4, <1>5, <1>6

\* The counting invariant is about the connections of the runs.
LEMMA CountsAreConnections == CountsOK(sess, monitor) => ConnectionsCounted
BY DEF CountsOK, OpenIn, ServedIn, ConnectionsCounted, Open

-----------------------------------------------------------------------------
(* What the handlers of the output file make of a session.                 *)

Storing(s) ==
  /\ s \in Session /\ SessionInv(s)
  /\ s.phase = "open" /\ s.interest = "NOOP" /\ s.stm = "DATA_WRITE"

\* A chunk written leaves a session that is storing a body.
LEMMA WrittenStoring ==
  ASSUME NEW s, Storing(s)
  PROVE  /\ Storing(Written(s)) /\ Written(s).data = s.data /\ Written(s).wbuf = <<>>
         /\ s.wbuf = <<>> /\ s.data.state = "BODY"
<1> DEFINE w == Written(s)
<1>1. /\ s \in Session /\ s.data.state = "BODY" /\ EnvelopeOK(s.data) /\ BodyOK(s) /\ WaitOK(s)
      /\ BufferOK(s) /\ (s.stm = "ERROR" => "write" \in Faults)
      /\ s.phase = "open" /\ s.interest = "NOOP" /\ s.stm = "DATA_WRITE"
  BY DEF Storing, SessionInv, BodyOK
<1>2. w \in Session /\ w = [s EXCEPT !.tmp = w.tmp]
  BY <1>1, WrittenType
<1> HIDE DEF w
<1>3. /\ w.phase = s.phase /\ w.interest = s.interest /\ w.stm = s.stm /\ w.output = s.output
      /\ w.data = s.data /\ w.wbuf = s.wbuf /\ w.rbuf = s.rbuf /\ w.temp_path = s.temp_path
  BY <1>1, <1>2 DEF Session
<1>4. s.wbuf = <<>>
  BY <1>1, EmptySeq DEF BufferOK, Session
<1>5. Storing(w)
  BY <1>1, <1>2, <1>3 DEF Storing, SessionInv, WaitOK, BufferOK, BodyOK
<1>6. QED
  BY <1>1, <1>3, <1>4, <1>5 DEF w

\* The end of a body leaves its 250 to send, and the dialogue at its start.
LEMMA FinishedOutcome ==
  ASSUME NEW s, Storing(s), NEW failed
  PROVE  LET u == Finished(s, failed)
         IN  /\ u.phase = "open" /\ u.interest = "WRITE" /\ u.stm = "WRITE"
             /\ u.data.state = "EHLO" /\ u.wbuf = <<"250 queued">>
<1> DEFINE w == Cleaned(s, failed)
           a == Process(w.data, w.par.req, registry)
           t == [w EXCEPT !.data = a.data, !.wbuf = Append(@, a.msg), !.stm = "WRITE"]
<1>1. s \in Session /\ s.data.state = "BODY" /\ s.wbuf = <<>> /\ s.phase = "open"
      /\ s.temp_path \in User
  BY WrittenStoring DEF Storing, SessionInv, BodyOK
<1>2. w \in Session /\ w.phase = "open" /\ w.interest = "WRITE" /\ w.wbuf = <<>>
      /\ w.data.state = "BODY" /\ w.par.req = EmptyRequest
  BY <1>1, CleanedType
<1>3. Finished(s, failed) = request_process(w)
  BY DEF Finished, Cleaned
<1> HIDE DEF w
<1>4. w.data \in SmtpData
  BY <1>2 DEF Session
<1>5. a.data = [w.data EXCEPT !.state = "EHLO"] /\ a.msg = "250 queued"
  BY <1>2, <1>4, ProcessEndOfBody
<1>6. a.data.state = "EHLO"
  <2> HIDE DEF a
  <2>1. QED
    BY <1>4, <1>5 DEF SmtpData
<1>7. Append(w.wbuf, a.msg) = <<"250 queued">>
  <2>1. "250 queued" \in Reply
    BY DEF Reply
  <2> HIDE DEF a
  <2>2. QED
    BY <1>2, <1>5, <2>1, OneReplyAppended
<1>8. request_process(w) = t
  <2>1. ~handle_quit(EmptyRequest)
    BY DEF handle_quit, EmptyRequest
  <2>2. QED
    BY <1>2, <2>1 DEF request_process
<1>9. /\ t.phase = "open" /\ t.interest = "WRITE" /\ t.stm = "WRITE"
      /\ t.data = a.data /\ t.wbuf = <<"250 queued">>
  <2> HIDE DEF a
  <2>1. QED
    BY <1>2, <1>7 DEF Session
<1>10. QED
  <2> HIDE DEF a, t
  <2>1. QED
    BY <1>3, <1>6, <1>8, <1>9

\* request_data_init changes neither the dialogue nor what is pending.
LEMMA DataInitOutcome ==
  ASSUME NEW s \in Session, NEW opened
  PROVE  LET u == request_data_init(s, opened)
         IN  /\ u.phase = s.phase /\ u.interest = s.interest /\ u.stm = "DATA"
             /\ u.data = s.data /\ u.wbuf = s.wbuf
BY DEF request_data_init, Session

\* The states in which the output file's handlers find a session.
LEMMA OutputStoring ==
  ASSUME IInv, NEW c \in Conn, OnOutput(c)
  PROVE  Storing(sess[c])
BY SessionOf DEF OnOutput, StoreLast, StoreChunk, StoreFails, StoreToDeadPipe, OutputReady,
                 SessionInv, WaitOK, Storing

-----------------------------------------------------------------------------
(* What a step makes of the session it is about.                           *)

SentOutcome(d, u) ==
  \/ u.phase = "open" /\ u.interest = "READ" /\ u.stm = NextStm(d) /\ u.data = d /\ u.wbuf = <<>>
  \/ ReadOutcome(d, NextStm(d), u)

\* A reply sent changes one session, and counts its bytes and its end.
LEMMA WriteOutcome ==
  ASSUME IInv, NEW c \in Conn, Write(c)
  PROVE  \E u \in Session :
           /\ sess' = [sess EXCEPT ![c] = u]
           /\ SentOutcome(sess[c].data, u)
           /\ monitor' = CloseCounted(monitor_add_sent_bytes(Bytes(sess[c].wbuf)), u)
<1>1. SessionInv(sess[c]) /\ sess[c] \in Session /\ transform \in BOOLEAN
  BY SessionOf DEF IInv, TypeOK, SessionInv
<1>2. PICK opened \in BOOLEAN :
        /\ sess' = [sess EXCEPT ![c] = SentAndRead(sess[c], opened)]
        /\ monitor' = CloseCounted(monitor_add_sent_bytes(Bytes(sess[c].wbuf)),
                                   SentAndRead(sess[c], opened))
  BY DEF Write
<1> DEFINE u == SentAndRead(sess[c], opened)
<1>3. sess[c].phase = "open" /\ sess[c].interest = "WRITE"
  BY DEF Write, Dispatched, Open
<1>4. u \in Session
  BY <1>1, <1>3, SentAndReadInv DEF SessionInv
<1>5. SentOutcome(sess[c].data, u)
  BY <1>1, <1>3, SentOutcomes DEF SentOutcome
<1>6. QED
  <2> HIDE DEF u
  <2>1. sess' = [sess EXCEPT ![c] = u]
        /\ monitor' = CloseCounted(monitor_add_sent_bytes(Bytes(sess[c].wbuf)), u)
    BY <1>2 DEF u
  <2>2. QED
    BY <1>4, <1>5, <2>1

\* A read changes one session, what it switches and whether it is counted.
LEMMA ReadStepOutcome ==
  ASSUME IInv, NEW c \in Conn, Read(c)
  PROVE  \E u \in Session :
           /\ sess' = [sess EXCEPT ![c] = u]
           /\ ReadOutcome(sess[c].data, sess[c].stm, u)
           /\ transform' = IF u.stm = "WRITE" THEN set_status(sess[c].data, u.par.req, transform)
                           ELSE transform
           /\ monitor' = CloseCounted(monitor, u)
<1>1. SessionInv(sess[c]) /\ sess[c] \in Session /\ client[c].net \in Seq(Token)
      /\ sess[c].rbuf \in Seq(Token) /\ sess[c].wbuf \in Seq(Reply)
  BY SessionOf DEF IInv, TypeOK, SessionInv, Session, Client
<1> DEFINE b(n) == sess[c].rbuf \o SubSeq(client[c].net, 1, n)
           s(n) == [sess[c] EXCEPT !.rbuf = b(n)]
           u(n) == request_actual_read(s(n))
<1>2. PICK n \in Received(c) :
        /\ sess' = [sess EXCEPT ![c] = u(n)]
        /\ transform' = IF u(n).stm = "WRITE" THEN set_status(sess[c].data, u(n).par.req, transform)
                        ELSE transform
        /\ monitor' = CloseCounted(monitor, u(n))
  BY DEF Read
<1>3. n \in 0..Len(client[c].net)
  <2>1. Len(client[c].net) \in Nat
    BY <1>1, LenProperties
  <2>2. QED
    BY <1>2, <2>1 DEF Received
<1>4. b(n) \in Seq(Token)
  BY <1>1, <1>3, PrefixType, ConcatProperties
<1>5. sess[c].wbuf = <<>> /\ sess[c].phase = "open" /\ sess[c].interest = "READ"
      /\ sess[c].stm \in {"READ", "DATA", "ADMIN"}
  BY <1>1, EmptySeq DEF SessionInv, BufferOK, Read, Dispatched, Open
<1>6. s(n) \in Session /\ s(n).phase = "open" /\ s(n).interest = "READ" /\ s(n).stm = sess[c].stm
      /\ s(n).wbuf = <<>> /\ s(n).data = sess[c].data
  <2> HIDE DEF b
  <2>1. QED
    BY <1>1, <1>4, <1>5 DEF Session
<1>7. ReadOutcome(sess[c].data, sess[c].stm, u(n))
  <2> HIDE DEF s
  <2>1. ReadOutcome(s(n).data, s(n).stm, request_actual_read(s(n)))
    BY <1>5, <1>6, ReadOutcomes
  <2>2. QED
    BY <1>6, <2>1
<1> HIDE DEF u
<1>8. u(n) \in Session
  BY <1>2, NextInv DEF Next, OnSocket, IInv, TypeOK
<1>9. QED
  BY <1>2, <1>7, <1>8

\* What a read leaves of the session's phase and place in the dialogue.
LEMMA ReadPhase ==
  ASSUME NEW d, NEW stm, NEW u, ReadOutcome(d, stm, u)
  PROVE  u.phase \in {"open", "closed"}
BY DEF ReadOutcome, Waits, Quits, Replies, Stores

\* After a reply a session is open or closed.
LEMMA SentPhase ==
  ASSUME NEW d, NEW u, SentOutcome(d, u)
  PROVE  u.phase \in {"open", "closed"}
BY ReadPhase DEF SentOutcome

-----------------------------------------------------------------------------
(* The counters, step by step.                                             *)

\* Ending a session takes it off the current connections, whatever was sent before.
LEMMA ClosedCounters ==
  ASSUME NEW m \in Monitor, NEW u
  PROVE  /\ CloseCounted(m, u).curr = IF u.phase = "closed" THEN m.curr - 1 ELSE m.curr
         /\ CloseCounted(m, u).total = m.total
BY DEF CloseCounted, monitor_close_connection, Monitor

\* Bytes sent change no count of connections.
LEMMA SentCounters ==
  ASSUME monitor \in Monitor, NEW n \in Nat
  PROVE  /\ monitor_add_sent_bytes(n) \in Monitor
         /\ monitor_add_sent_bytes(n).curr = monitor.curr
         /\ monitor_add_sent_bytes(n).total = monitor.total
<1>1. monitor_add_sent_bytes(n) \in Monitor
  BY MonitorType DEF monitor_add_sent_bytes
<1>2. QED
  BY <1>1 DEF monitor_add_sent_bytes, Monitor

\* The phases a step may take a session through, with what it counts.
LEMMA PhaseStep ==
  ASSUME IInv, IInv', CountsOK(sess, monitor), NEW c \in Conn, NEW s \in Session,
         sess' = [sess EXCEPT ![c] = s],
         \/ /\ sess[c].phase = "none" /\ s.phase = "open"
            /\ monitor'.curr = monitor.curr + 1 /\ monitor'.total = monitor.total + 1
         \/ /\ sess[c].phase = "open" /\ s.phase = "closed"
            /\ monitor'.curr = monitor.curr - 1 /\ monitor'.total = monitor.total
         \/ /\ sess[c].phase = "none" /\ s.phase = "lost"
            /\ monitor'.curr = monitor.curr /\ monitor'.total = monitor.total
         \/ /\ sess[c].phase = s.phase
            /\ monitor'.curr = monitor.curr /\ monitor'.total = monitor.total
  PROVE  CountsOK(sess', monitor')
<1>1. sess \in [Conn -> Session] /\ monitor \in Monitor /\ monitor' \in Monitor
  BY DEF IInv, TypeOK
<1>2. QED
  BY <1>1, CountingStep

\* An accepted connection is counted once, a refused one not at all.
LEMMA AcceptCounts ==
  ASSUME IInv, IInv', CountsOK(sess, monitor), NEW c \in Conn, OnListener(c)
  PROVE  CountsOK(sess', monitor')
<1>1. sess[c] \in Session /\ sess[c].phase = "none" /\ monitor \in Monitor
  BY DEF OnListener, Accept, AcceptNoMemory, AcceptNoRegister, Pending, IInv, TypeOK
<1>2. sess' \in [Conn -> Session]
  BY DEF IInv, TypeOK
<1>3. CASE Accept(c)
  <2> DEFINE t == [sess[c] EXCEPT !.phase = "open", !.interest = "WRITE", !.wbuf = <<"220">>]
  <2>1. sess' = [sess EXCEPT ![c] = t] /\ monitor' = monitor_add_connection
    BY <1>3 DEF Accept
  <2>2. t \in Session /\ t.phase = "open"
    BY <1>1, <1>2, <2>1 DEF IInv, TypeOK, Session
  <2>3. monitor'.curr = monitor.curr + 1 /\ monitor'.total = monitor.total + 1
    BY <1>1, <2>1 DEF monitor_add_connection, Monitor
  <2> HIDE DEF t
  <2>4. QED
    BY <1>1, <2>1, <2>2, <2>3, PhaseStep
<1>4. CASE AcceptNoMemory(c) \/ AcceptNoRegister(c)
  <2> DEFINE t == [sess[c] EXCEPT !.phase = "lost"]
  <2>1. sess' = [sess EXCEPT ![c] = t] /\ monitor' = monitor
    BY <1>4 DEF AcceptNoMemory, AcceptNoRegister
  <2>2. t \in Session /\ t.phase = "lost"
    BY <1>1 DEF Session
  <2> HIDE DEF t
  <2>3. QED
    BY <1>1, <2>1, <2>2, PhaseStep
<1>5. QED
  BY <1>3, <1>4 DEF OnListener

\* The handlers of a socket count a session out when they end it.
LEMMA SocketCounts ==
  ASSUME IInv, IInv', CountsOK(sess, monitor), NEW c \in Conn,
         Write(c) \/ Read(c) \/ WriteFails(c) \/ ReadEnd(c)
  PROVE  CountsOK(sess', monitor')
<1>1. sess[c] \in Session /\ sess[c].phase = "open" /\ monitor \in Monitor
  BY DEF Write, Read, WriteFails, ReadEnd, Dispatched, Open, IInv, TypeOK
<1>2. CASE Write(c)
  <2>1. PICK u \in Session :
           /\ sess' = [sess EXCEPT ![c] = u] /\ SentOutcome(sess[c].data, u)
           /\ monitor' = CloseCounted(monitor_add_sent_bytes(Bytes(sess[c].wbuf)), u)
    BY <1>2, WriteOutcome
  <2>2. u.phase \in {"open", "closed"}
    BY <2>1, SentPhase
  <2>3. Bytes(sess[c].wbuf) \in Nat
    BY <1>1, LenProperties DEF Session, Bytes
  <2>4. /\ monitor'.curr = IF u.phase = "closed" THEN monitor.curr - 1 ELSE monitor.curr
        /\ monitor'.total = monitor.total
    BY <1>1, <2>1, <2>3, SentCounters, ClosedCounters
  <2>5. QED
    BY <1>1, <2>1, <2>2, <2>4, PhaseStep
<1>3. CASE Read(c)
  <2>1. PICK u \in Session :
           /\ sess' = [sess EXCEPT ![c] = u] /\ ReadOutcome(sess[c].data, sess[c].stm, u)
           /\ monitor' = CloseCounted(monitor, u)
    BY <1>3, ReadStepOutcome
  <2>2. u.phase \in {"open", "closed"}
    BY <2>1, ReadPhase
  <2>3. /\ monitor'.curr = IF u.phase = "closed" THEN monitor.curr - 1 ELSE monitor.curr
        /\ monitor'.total = monitor.total
    BY <1>1, <2>1, ClosedCounters
  <2>4. QED
    BY <1>1, <2>1, <2>2, <2>3, PhaseStep
<1>4. CASE WriteFails(c) \/ ReadEnd(c)
  <2> DEFINE t == smtp_done(sess[c])
  <2>1. sess' = [sess EXCEPT ![c] = t]
    BY <1>4 DEF WriteFails, ReadEnd
  <2>2. t \in Session /\ t.phase = "closed"
    BY <1>1 DEF smtp_done, Session
  <2>3. SentModulus - 1 \in Nat
    BY ModulusAssumption
  <2>4. monitor'.curr = monitor.curr - 1 /\ monitor'.total = monitor.total
    BY <1>1, <1>4, <2>3, SentCounters DEF WriteFails, ReadEnd, monitor_close_connection, Monitor
  <2> HIDE DEF t
  <2>5. QED
    BY <1>1, <2>1, <2>2, <2>4, PhaseStep
<1>5. QED
  BY <1>2, <1>3, <1>4

\* The handlers of the output file keep the counts.
LEMMA OutputCounts ==
  ASSUME IInv, IInv', CountsOK(sess, monitor), NEW c \in Conn, OnOutput(c)
  PROVE  CountsOK(sess', monitor')
<1> DEFINE w == Written(sess[c])
           v == [w EXCEPT !.interest = "READ", !.output = "NOOP"]
<1>1. Storing(sess[c]) /\ Storing(w) /\ sess[c] \in Session /\ sess[c].phase = "open"
      /\ w \in Session /\ w.phase = "open"
  BY OutputStoring, WrittenStoring DEF Storing
<1>2. monitor' = monitor
  BY DEF OnOutput, StoreLast, StoreChunk, StoreFails, StoreToDeadPipe
<1>3. \E s : sess' = [sess EXCEPT ![c] = s] /\ s.phase = "open"
  <2>1. CASE StoreLast(c)
    <3>1. PICK failed : sess' = [sess EXCEPT ![c] = Finished(w, failed)]
      BY <2>1 DEF StoreLast
    <3>2. Finished(w, failed).phase = "open"
      BY <1>1, FinishedOutcome
    <3>3. QED
      BY <3>1, <3>2
  <2>2. CASE StoreChunk(c)
    <3>1. PICK opened \in BOOLEAN : sess' = [sess EXCEPT ![c] = request_data_init(v, opened)]
      BY <2>2 DEF StoreChunk
    <3>2. v \in Session /\ v.phase = "open"
      <4> HIDE DEF w
      <4>1. QED
        BY <1>1 DEF Session
    <3>3. request_data_init(v, opened).phase = "open"
      BY <3>2, DataInitOutcome
    <3>4. QED
      BY <3>1, <3>3
  <2>3. CASE StoreFails(c)
    <3>1. [sess[c] EXCEPT !.stm = "ERROR"].phase = "open"
      BY <1>1 DEF Session
    <3>2. QED
      BY <2>3, <3>1 DEF StoreFails
  <2>4. CASE StoreToDeadPipe(c)
    BY <1>1, <2>4 DEF StoreToDeadPipe
  <2>5. QED
    BY <2>1, <2>2, <2>3, <2>4 DEF OnOutput
<1>4. PICK s : sess' = [sess EXCEPT ![c] = s] /\ s.phase = "open"
  BY <1>3
<1>5. s \in Session
  BY <1>4 DEF IInv, TypeOK
<1>6. QED
  BY <1>1, <1>2, <1>4, <1>5, PhaseStep

\* Every step keeps the counts.
LEMMA CountsNext ==
  ASSUME IInv, CountsOK(sess, monitor), [Next]_vars
  PROVE  CountsOK(sess', monitor')
<1>1. IInv'
  BY NextInv
<1>2. ASSUME sess' = sess, monitor' = monitor PROVE CountsOK(sess', monitor')
  BY <1>2
<1>3. ASSUME NEW c \in Conn, \/ ClientSend(c) \/ ClientClose(c) \/ WriteToDeadPipe(c)
                             \/ ReadOutside(c) \/ Abort(c)
      PROVE  CountsOK(sess', monitor')
  BY <1>2, <1>3
  DEF ClientSend, ClientClose, ServerUnchanged, WriteToDeadPipe, ReadOutside, Abort
<1>4. CASE UNCHANGED vars
  BY <1>2, <1>4 DEF vars
<1>5. QED
  BY <1>1, <1>3, <1>4, AcceptCounts, SocketCounts, OutputCounts DEF Next, OnSocket

\* Initially nobody is counted.
LEMMA InitCounts == Init => CountsOK(sess, monitor)
<1> SUFFICES ASSUME Init PROVE CountsOK(sess, monitor)
  OBVIOUS
<1>1. \A c \in Conn : sess[c].phase = "none"
  BY DEF Init, NoSession
<1>2. OpenIn(sess) = {} /\ ServedIn(sess) = {}
  BY <1>1 DEF OpenIn, ServedIn
<1>3. QED
  BY <1>2, FS_EmptySet DEF CountsOK, Init

\* The monitor tells the truth about the sessions: the connections it says are current are
\* the sessions that are open, and the historic ones all that were ever registered,
\* for every set of connections and whatever fails.
THEOREM CountersAreTrue == Spec => []ConnectionsCounted
<1> DEFINE Inv == IInv /\ CountsOK(sess, monitor)
<1>1. Init => Inv
  BY InitInv, InitCounts
<1>2. Inv /\ [Next]_vars => Inv'
  BY NextInv, CountsNext
<1>3. Inv => ConnectionsCounted
  BY CountsAreConnections
<1>4. QED
  <2> HIDE DEF Inv
  <2>1. QED
    BY <1>1, <1>2, <1>3, PTL DEF Spec

-----------------------------------------------------------------------------
(* The action properties.                                                  *)

\* A read, at once or when the socket is readable, enters the administration only
\* by the password.
LEMMA ReadEntersByPassword ==
  ASSUME NEW d \in SmtpData, NEW stm, NEW u, ReadOutcome(d, stm, u),
         d.state \notin AdminState, u.data.state \in AdminState
  PROVE  u.par.req = [verb |-> "XAUTH", arg |-> Password]
<1>1. Replies(d, stm, u)
  BY DEF ReadOutcome, Waits, Quits, Stores
<1>2. QED
  BY <1>1, EntersByPassword DEF Replies

\* A step in which a session becomes an administrator reads the password.
LEMMA AdminStep ==
  ASSUME IInv, [Next]_vars, NEW e \in Conn,
         sess[e].data.state \notin AdminState, sess'[e].data.state \in AdminState
  PROVE  sess'[e].par.req = [verb |-> "XAUTH", arg |-> Password]
<1> DEFINE Goal == sess'[e].par.req = [verb |-> "XAUTH", arg |-> Password]
<1>1. sess \in [Conn -> Session] /\ \A c \in Conn : sess[c] \in Session /\ sess[c].data \in SmtpData
  BY DEF IInv, TypeOK, Session
<1>2. ASSUME NEW c \in Conn, NEW u, sess' = [sess EXCEPT ![c] = u],
             \/ u.data.state = sess[c].data.state
             \/ u.data.state = "EHLO"
             \/ u.data.state \in AdminState => u.par.req = [verb |-> "XAUTH", arg |-> Password]
      PROVE  Goal
  <2>1. CASE c = e
    BY <1>1, <1>2, <2>1 DEF AdminState
  <2>2. CASE c # e
    BY <1>1, <1>2, <2>2
  <2>3. QED
    BY <2>1, <2>2
<1>3. ASSUME sess' = sess PROVE Goal
  BY <1>3
<1> HIDE DEF Goal
<1>4. ASSUME NEW c \in Conn, OnListener(c) PROVE Goal
  <2>1. CASE Accept(c)
    <3> DEFINE u == [sess[c] EXCEPT !.phase = "open", !.interest = "WRITE", !.wbuf = <<"220">>]
    <3>1. sess' = [sess EXCEPT ![c] = u]
      BY <2>1 DEF Accept
    <3>2. u.data = sess[c].data
      BY <1>1 DEF Session
    <3> HIDE DEF u
    <3>3. QED
      BY <1>2, <3>1, <3>2
  <2>2. CASE AcceptNoMemory(c) \/ AcceptNoRegister(c)
    <3> DEFINE u == [sess[c] EXCEPT !.phase = "lost"]
    <3>1. sess' = [sess EXCEPT ![c] = u]
      BY <2>2 DEF AcceptNoMemory, AcceptNoRegister
    <3>2. u.data = sess[c].data
      BY <1>1 DEF Session
    <3> HIDE DEF u
    <3>3. QED
      BY <1>2, <3>1, <3>2
  <2>3. QED
    BY <1>4, <2>1, <2>2 DEF OnListener
<1>5. ASSUME NEW c \in Conn, Write(c) PROVE Goal
  <2>1. PICK u \in Session : sess' = [sess EXCEPT ![c] = u] /\ SentOutcome(sess[c].data, u)
    BY <1>5, WriteOutcome
  <2>2. \/ u.data.state = sess[c].data.state
        \/ sess[c].data.state \notin AdminState /\ ReadOutcome(sess[c].data, NextStm(sess[c].data), u)
        \/ sess[c].data.state \in AdminState
    BY <2>1 DEF SentOutcome
  <2>3. CASE sess[c].data.state \in AdminState
    BY <1>1, <2>1, <2>3 DEF Goal
  <2>4. QED
    BY <1>1, <1>2, <2>1, <2>2, <2>3, ReadEntersByPassword
<1>6. ASSUME NEW c \in Conn, Read(c) PROVE Goal
  <2>1. PICK u \in Session :
          sess' = [sess EXCEPT ![c] = u] /\ ReadOutcome(sess[c].data, sess[c].stm, u)
    BY <1>6, ReadStepOutcome
  <2>2. CASE sess[c].data.state \in AdminState
    BY <1>1, <2>1, <2>2 DEF Goal
  <2>3. QED
    BY <1>1, <1>2, <2>1, <2>2, ReadEntersByPassword
<1>7. ASSUME NEW c \in Conn, WriteFails(c) \/ ReadEnd(c) PROVE Goal
  <2>1. sess' = [sess EXCEPT ![c] = smtp_done(sess[c])]
    BY <1>7 DEF WriteFails, ReadEnd
  <2>2. smtp_done(sess[c]).data.state = sess[c].data.state
    BY <1>1 DEF smtp_done, Session
  <2>3. QED
    BY <1>2, <2>1, <2>2
<1>8. ASSUME NEW c \in Conn, OnOutput(c) PROVE Goal
  <2> DEFINE w == Written(sess[c])
             v == [w EXCEPT !.interest = "READ", !.output = "NOOP"]
  <2>1. Storing(w) /\ w \in Session /\ w.data = sess[c].data
    BY <1>8, OutputStoring, WrittenStoring DEF Storing
  <2> HIDE DEF w
  <2>2. CASE StoreLast(c)
    <3>1. PICK failed : sess' = [sess EXCEPT ![c] = Finished(w, failed)]
      BY <2>2 DEF StoreLast, w
    <3>2. Finished(w, failed).data.state = "EHLO"
      BY <2>1, FinishedOutcome
    <3>3. QED
      BY <1>2, <3>1, <3>2
  <2>3. CASE StoreChunk(c)
    <3>1. PICK opened \in BOOLEAN : sess' = [sess EXCEPT ![c] = request_data_init(v, opened)]
      BY <2>3 DEF StoreChunk, w
    <3>2. v \in Session /\ v.data = sess[c].data
      BY <2>1 DEF Session
    <3>3. request_data_init(v, opened).data = sess[c].data
      BY <3>2, DataInitOutcome
    <3>4. QED
      BY <1>2, <3>1, <3>3
  <2>4. CASE StoreFails(c)
    <3>1. sess' = [sess EXCEPT ![c] = [sess[c] EXCEPT !.stm = "ERROR"]]
      BY <2>4 DEF StoreFails
    <3>2. [sess[c] EXCEPT !.stm = "ERROR"].data = sess[c].data
      BY <1>1 DEF Session
    <3>3. QED
      BY <1>2, <3>1, <3>2
  <2>5. CASE StoreToDeadPipe(c)
    <3>1. sess' = [sess EXCEPT ![c] = w]
      BY <2>5 DEF StoreToDeadPipe, w
    <3>2. QED
      BY <1>2, <2>1, <3>1
  <2>6. QED
    BY <1>8, <2>2, <2>3, <2>4, <2>5 DEF OnOutput
<1>9. ASSUME NEW c \in Conn, \/ ClientSend(c) \/ ClientClose(c) \/ WriteToDeadPipe(c)
                             \/ ReadOutside(c) \/ Abort(c)
      PROVE  Goal
  BY <1>3, <1>9
  DEF ClientSend, ClientClose, ServerUnchanged, WriteToDeadPipe, ReadOutside, Abort
<1>10. ASSUME UNCHANGED vars PROVE Goal
  BY <1>3, <1>10 DEF vars
<1>11. Goal
  BY <1>4, <1>5, <1>6, <1>7, <1>8, <1>9, <1>10 DEF Next, OnSocket
<1>12. QED
  BY <1>11 DEF Goal

\* Whatever a session was through, only a request with the password makes it one of the
\* administrator's.
THEOREM PasswordGuardsAdmin == Spec => AdminByPassword
<1>1. IInv /\ [Next]_vars
        => [\A c \in Conn :
              sess[c].data.state \notin AdminState /\ sess'[c].data.state \in AdminState
                => sess'[c].par.req = [verb |-> "XAUTH", arg |-> Password]]_vars
  BY AdminStep
<1>2. QED
  BY <1>1, Invariant, PTL DEF Spec, AdminByPassword

\* The step that switches the transformation is an administrator's.
LEMMA TransformStep ==
  ASSUME IInv, [Next]_vars, transform' # transform
  PROVE  \E c \in Conn : /\ sess[c] # sess'[c]
                         /\ {sess[c].data.state, sess'[c].data.state} = {"XFROM"}
<1>1. PICK c \in Conn : Read(c)
  BY DEF Next, vars, OnListener, OnSocket, OnOutput, ClientSend, ClientClose, ServerUnchanged,
         Accept, AcceptNoMemory, AcceptNoRegister, Write, WriteFails, WriteToDeadPipe, ReadOutside,
         ReadEnd, StoreLast, StoreChunk, StoreFails, StoreToDeadPipe, Abort
<1> DEFINE d == sess[c].data
<1>2. PICK u \in Session :
        /\ sess' = [sess EXCEPT ![c] = u]
        /\ ReadOutcome(d, sess[c].stm, u)
        /\ transform' = IF u.stm = "WRITE" THEN set_status(d, u.par.req, transform) ELSE transform
  BY <1>1, ReadStepOutcome
<1>3. sess[c] \in Session /\ d \in SmtpData /\ sess'[c] = u
      /\ sess[c].stm \in {"READ", "DATA", "ADMIN"}
  BY <1>1, <1>2 DEF IInv, TypeOK, Session, Read
<1>4. u.stm = "WRITE" /\ d.state = "XFROM" /\ u.par.req.verb = "XTRAN"
  BY <1>2 DEF set_status
<1>5. Replies(d, sess[c].stm, u)
  BY <1>2, <1>3, <1>4 DEF ReadOutcome, Waits, Quits, Stores
<1>6. u.data.state = "XFROM"
  BY <1>3, <1>4, <1>5, XtranStays DEF Replies
<1>7. u # sess[c]
  BY <1>3, <1>4
<1>8. QED
  BY <1>3, <1>4, <1>6, <1>7

\* config.transform, which every session uses, changes only in a read of a session that is
\* in the administration states and stays there.
THEOREM AdminsSwitchTransform == Spec => TransformByAdmin
<1>1. IInv /\ [Next]_vars
        => [transform' # transform =>
              \E c \in Conn : /\ sess[c] # sess'[c]
                              /\ {sess[c].data.state, sess'[c].data.state} = {"XFROM"}]_vars
  BY TransformStep
<1>2. QED
  BY <1>1, Invariant, PTL DEF Spec, TransformByAdmin

\* Whom the mails registered last are for.
LateRecipients(old, new) == {m.to : m \in {new[i] : i \in Len(old) + 1..Len(new)}}

\* The entries of a mail name its recipients, in their order.
LEMMA EntriesRecipients ==
  ASSUME NEW c \in Conn, NEW d \in SmtpData, NEW reg \in Seq(Mail),
         NEW new, new = reg \o Entries(c, d)
  PROVE  LateRecipients(reg, new) = Range(d.rcpt_to)
<1> DEFINE n == Len(reg)
           k == Len(d.rcpt_to)
           es == Entries(c, d)
<1>1. /\ d.rcpt_to \in Seq(User) /\ DOMAIN d.rcpt_to = 1..k /\ k \in Nat /\ n \in Nat
      /\ es \in Seq(Mail) /\ DOMAIN es = 1..k
      /\ \A i \in 1..k : es[i].to = d.rcpt_to[i]
  BY LenProperties, EntriesType DEF SmtpData, Entries
<1>2. Len(es) = k
  BY <1>1, LenProperties
<1> HIDE DEF es
<1>3. Len(new) = n + k /\ \A i \in n + 1..n + k : new[i] = es[i - n]
  <2>1. new = reg \o es
    BY DEF es
  <2>2. /\ Len(reg \o es) = Len(reg) + Len(es)
        /\ \A i \in 1..Len(reg) + Len(es) :
             (reg \o es)[i] = IF i <= Len(reg) THEN reg[i] ELSE es[i - Len(reg)]
    BY <1>1, ConcatProperties
  <2>3. QED
    BY <1>1, <1>2, <2>1, <2>2
<1> DEFINE late == {new[i] : i \in n + 1..Len(new)}
<1>4. ASSUME NEW m \in late PROVE m.to \in Range(d.rcpt_to)
  <2>1. PICK i \in n + 1..n + k : m = new[i]
    BY <1>3
  <2>2. i - n \in 1..k
    BY <1>1
  <2>3. m.to = d.rcpt_to[i - n]
    BY <1>1, <1>3, <2>1, <2>2
  <2>4. QED
    BY <1>1, <2>2, <2>3 DEF Range
<1>5. ASSUME NEW u \in Range(d.rcpt_to) PROVE \E m \in late : u = m.to
  <2>1. PICK j \in 1..k : u = d.rcpt_to[j]
    BY <1>1 DEF Range
  <2>2. n + j \in n + 1..n + k /\ (n + j) - n = j
    BY <1>1
  <2>3. new[n + j] \in late /\ new[n + j].to = u
    BY <1>1, <1>3, <2>1, <2>2
  <2>4. QED
    BY <2>3
<1>6. {m.to : m \in late} = Range(d.rcpt_to)
  <2> HIDE DEF late
  <2>1. QED
    BY <1>4, <1>5
<1>7. QED
  BY <1>6 DEF LateRecipients

\* The step that registers a mail puts its reply in place, for all recipients.
LEMMA RegisterStep ==
  ASSUME IInv, [Next]_vars, registry' # registry
  PROVE  \E c \in Conn :
           /\ sess'[c].wbuf = <<"250 queued">> /\ sess[c].wbuf = <<>>
           /\ {m.to : m \in {registry'[i] : i \in Len(registry) + 1..Len(registry')}}
                = Range(sess[c].data.rcpt_to)
<1>1. PICK c \in Conn : StoreLast(c)
  BY DEF Next, vars, OnListener, OnSocket, OnOutput, ClientSend, ClientClose, ServerUnchanged,
         Accept, AcceptNoMemory, AcceptNoRegister, Write, WriteFails, WriteToDeadPipe, ReadOutside,
         Read, ReadEnd, StoreChunk, StoreFails, StoreToDeadPipe, Abort
<1>2. Storing(sess[c]) /\ Storing(Written(sess[c])) /\ sess[c].wbuf = <<>>
  BY <1>1, OutputStoring, WrittenStoring DEF OnOutput
<1>3. sess'[c].wbuf = <<"250 queued">>
  <2>1. PICK failed : sess' = [sess EXCEPT ![c] = Finished(Written(sess[c]), failed)]
    BY <1>1 DEF StoreLast
  <2>2. sess'[c] = Finished(Written(sess[c]), failed)
    BY <2>1 DEF IInv, TypeOK
  <2>3. Finished(Written(sess[c]), failed).wbuf = <<"250 queued">>
    BY <1>2, FinishedOutcome
  <2>4. QED
    BY <2>2, <2>3
<1>4. LateRecipients(registry, registry') = Range(sess[c].data.rcpt_to)
  <2>1. sess[c].data \in SmtpData /\ registry \in Seq(Mail)
    BY DEF IInv, TypeOK, Session
  <2>2. registry' = registry \o Entries(c, sess[c].data)
    BY <1>1 DEF StoreLast
  <2>3. QED
    BY <2>1, <2>2, EntriesRecipients
<1>5. QED
  BY <1>2, <1>3, <1>4 DEF LateRecipients

\* The registry grows only when a body ends: by one entry for each recipient the session
\* accepted, in the step that puts the "queued" reply into its empty write_buffer.
THEOREM RegisteredMailsAreAnswered == Spec => RegisteredWithReply
<1>1. IInv /\ [Next]_vars
        => [registry' # registry =>
              \E c \in Conn :
                /\ sess'[c].wbuf = <<"250 queued">> /\ sess[c].wbuf = <<>>
                /\ {m.to : m \in {registry'[i] : i \in Len(registry) + 1..Len(registry')}}
                     = Range(sess[c].data.rcpt_to)]_vars
  BY RegisterStep
<1>2. QED
  BY <1>1, Invariant, PTL DEF Spec, RegisteredWithReply

-----------------------------------------------------------------------------
(* The dialogue and the replies.  The inductive invariant of SmtpSession    *)
(* does not tell which reply waits to be sent; the turns need that exactly  *)
(* the go-ahead announces a body.                                          *)

GoAheadOK(s) ==
  /\ s.interest = "READ" /\ s.stm \in {"READ", "ADMIN"} => s.data.state # "BODY"
  /\ s.interest = "WRITE" => (s.wbuf[1] = "354" <=> s.data.state = "BODY")

GoAheads == \A c \in Conn : sess[c].phase = "open" => GoAheadOK(sess[c])

\* Only DATA with a recipient is answered 354, and only by entering BODY.
LEMMA ProcessGoAhead ==
  ASSUME NEW d \in SmtpData, NEW r \in Request, NEW reg, d.state # "BODY"
  PROVE  /\ Process(d, r, reg).msg = "354" <=> Process(d, r, reg).data.state = "BODY"
         /\ Process(d, r, reg).msg # "250 queued"
<1> DEFINE Fine(a) == (a.msg = "354" <=> a.data.state = "BODY") /\ a.msg # "250 queued"
<1> USE DEF Answer, SmtpData
<1>1. d.state \in {"EHLO", "FROM", "TO", "DATA", "XFROM", "XGET"}
  BY DEF SmtpState
<1>2. Fine(handle_helo(d, r))
  BY DEF handle_helo
<1>3. Fine(handle_from(d, r))
  BY DEF handle_from, handle_xauth, Refusal
<1>4. Fine(handle_to(d, r))
  <2>1. CASE r.verb = "RCPT" /\ r.arg \in User
    BY <2>1 DEF handle_to
  <2>2. CASE ~(r.verb = "RCPT" /\ r.arg \in User)
    BY <2>2 DEF handle_to, Refusal
  <2>3. QED
    BY <2>1, <2>2
<1>5. d.state = "DATA" => Fine(handle_data(d, r))
  BY <1>4 DEF handle_data
<1>6. Fine(handle_xtran(d, r))
  BY DEF handle_xtran, Refusal
<1>7. Fine(handle_xfrom(d, r, reg))
  BY <1>6 DEF handle_xfrom, Refusal
<1>8. Fine(handle_xget(d, r, reg))
  BY <1>7 DEF handle_xget, Refusal
<1>9. Fine(handlers_table(d, r, reg))
  BY ZenonT(60), <1>1, <1>2, <1>3, <1>4, <1>5, <1>7, <1>8 DEF handlers_table
<1>10. Fine(Process(d, r, reg))
  BY <1>1, <1>9 DEF Process, handle_reset, handle_xquit
<1>11. QED
  BY <1>10

-----------------------------------------------------------------------------
(* The turns that the handlers lead to.                                    *)

\* Whose turn it is after reading in state stm, outside a body, and what is owed.
LEMMA ReadTurn ==
  ASSUME NEW d \in SmtpData, NEW stm \in {"READ", "ADMIN"}, NEW u, d.state # "BODY",
         ReadOutcome(d, stm, u)
  PROVE  /\ u.phase = "open" => GoAheadOK(u)
         /\ \/ TurnOf(u) = "client" /\ OwedBy(u) = "nothing"
            \/ TurnOf(u) = "gone" /\ OwedBy(u) = "nothing"
            \/ TurnOf(u) = "server" /\ OwedBy(u) \in {"reply", "go ahead"}
<1>1. CASE Waits(d, stm, u)
  BY <1>1 DEF Waits, GoAheadOK, TurnOf, OwedBy
<1>2. CASE Quits(d, stm, u)
  BY <1>2 DEF Quits, GoAheadOK, TurnOf, OwedBy
<1>3. CASE Replies(d, stm, u)
  <2> DEFINE a == Process(d, u.par.req, registry)
  <2>1. u.phase = "open" /\ u.interest = "WRITE" /\ u.data = a.data /\ u.wbuf = <<a.msg>>
        /\ u.par.req \in Request
    BY <1>3 DEF Replies
  <2>2. (a.msg = "354" <=> a.data.state = "BODY") /\ a.msg # "250 queued"
    BY <2>1, ProcessGoAhead
  <2> HIDE DEF a
  <2>3. u.wbuf[1] = a.msg
    BY <2>1
  <2>4. QED
    BY <2>1, <2>2, <2>3 DEF GoAheadOK, TurnOf, OwedBy
<1>4. QED
  BY <1>1, <1>2, <1>3 DEF ReadOutcome, Stores

\* The same in a body: it goes to the disk, or the session ends.
LEMMA BodyTurn ==
  ASSUME NEW d, NEW u, ReadOutcome(d, "DATA", u)
  PROVE  /\ u.phase = "open" => GoAheadOK(u)
         /\ OwedBy(u) = "nothing"
         /\ TurnOf(u) \in {"disk", "gone"}
BY DEF ReadOutcome, Waits, Replies, Quits, Stores, GoAheadOK, TurnOf, OwedBy

\* After a reply was sent.
LEMMA SentTurn ==
  ASSUME NEW d \in SmtpData, NEW u, SentOutcome(d, u)
  PROVE  /\ u.phase = "open" => GoAheadOK(u)
         /\ d.state = "BODY" => OwedBy(u) = "nothing" /\ TurnOf(u) \in {"body", "disk", "gone"}
         /\ d.state # "BODY" =>
              \/ TurnOf(u) = "client" /\ OwedBy(u) = "nothing"
              \/ TurnOf(u) = "gone" /\ OwedBy(u) = "nothing"
              \/ TurnOf(u) = "server" /\ OwedBy(u) \in {"reply", "go ahead"}
<1>1. CASE d.state = "BODY"
  <2>1. NextStm(d) = "DATA"
    BY <1>1 DEF NextStm, AdminState
  <2>2. QED
    BY <1>1, <2>1, BodyTurn DEF SentOutcome, GoAheadOK, TurnOf, OwedBy
<1>2. CASE d.state # "BODY"
  <2>1. NextStm(d) \in {"READ", "ADMIN"}
    BY <1>2 DEF NextStm
  <2>2. QED
    BY ZenonT(60), <1>2, <2>1, ReadTurn DEF SentOutcome, GoAheadOK, TurnOf, OwedBy
<1>3. QED
  BY <1>1, <1>2

-----------------------------------------------------------------------------
(* The steps.  One replaces the record of a connection, which moves it.    *)

\* A step of one session is a step of SmtpTurns if its turns are.
LEMMA Moves ==
  ASSUME sess \in [Conn -> Session], NEW c \in Conn, NEW u, sess' = [sess EXCEPT ![c] = u]
  PROVE  /\ Turns!Move(c, TurnOf(sess[c]), TurnOf(u), OwedBy(u))
         /\ (\A d \in Conn : sess[d].phase = "open" => GoAheadOK(sess[d]))
              /\ (u.phase = "open" => GoAheadOK(u)) => GoAheads'
<1>1. sess'[c] = u /\ \A d \in Conn \ {c} : sess'[d] = sess[d]
  OBVIOUS
<1>2. [d \in Conn |-> TurnOf(sess[d])]' = [[d \in Conn |-> TurnOf(sess[d])] EXCEPT ![c] = TurnOf(u)]
  BY <1>1
<1>3. [d \in Conn |-> OwedBy(sess[d])]' = [[d \in Conn |-> OwedBy(sess[d])] EXCEPT ![c] = OwedBy(u)]
  BY <1>1
<1>4. QED
  BY <1>1, <1>2, <1>3 DEF Turns!Move, GoAheads

\* A step that changes no turn and owes nothing is a stutter of SmtpTurns.
LEMMA Stutters ==
  ASSUME sess \in [Conn -> Session], registry' = registry, NEW c \in Conn, NEW u,
         sess' = [sess EXCEPT ![c] = u], TurnOf(u) = TurnOf(sess[c]), OwedBy(u) = OwedBy(sess[c])
  PROVE  UNCHANGED Turns!vars
<1>1. \A d \in Conn : TurnOf(sess'[d]) = TurnOf(sess[d]) /\ OwedBy(sess'[d]) = OwedBy(sess[d])
  OBVIOUS
<1>2. QED
  BY <1>1 DEF Turns!vars

\* The step of the sessions as a step of the turns.
TurnStep == GoAheads' /\ [Turns!Next]_(Turns!vars)

\* Accepting is a step of SmtpTurns.
LEMMA AcceptTurn ==
  ASSUME IInv, GoAheads, NEW c \in Conn, OnListener(c)
  PROVE  TurnStep
<1>1. sess \in [Conn -> Session] /\ sess[c] \in Session /\ sess[c] = NoSession /\ registry' = registry
  BY SessionOf DEF OnListener, Accept, AcceptNoMemory, AcceptNoRegister, Pending, IInv, TypeOK, SessionInv
<1>2. sess[c].phase = "none" /\ TurnOf(sess[c]) = "offline" /\ sess[c].data.state = "EHLO"
  BY <1>1 DEF NoSession, TurnOf, InitData
<1>3. CASE Accept(c)
  <2> DEFINE u == [sess[c] EXCEPT !.phase = "open", !.interest = "WRITE", !.wbuf = <<"220">>]
  <2>1. sess' = [sess EXCEPT ![c] = u]
    BY <1>3 DEF Accept
  <2>2. u.phase = "open" /\ u.interest = "WRITE" /\ u.wbuf[1] = "220" /\ u.data = sess[c].data
    BY <1>1 DEF Session
  <2> HIDE DEF u
  <2>3. TurnOf(u) = "server" /\ OwedBy(u) = "reply" /\ GoAheadOK(u)
    BY <1>2, <2>2 DEF TurnOf, OwedBy, GoAheadOK
  <2>4. GoAheads' /\ Turns!Move(c, "offline", "server", "reply")
    BY <1>1, <1>2, <2>1, <2>3, Moves DEF GoAheads
  <2>5. Turns!Greet(c)
    BY <1>1, <2>4 DEF Turns!Greet
  <2>6. QED
    BY <2>4, <2>5 DEF TurnStep, Turns!Next
<1>4. CASE AcceptNoMemory(c) \/ AcceptNoRegister(c)
  <2> DEFINE u == [sess[c] EXCEPT !.phase = "lost"]
  <2>1. sess' = [sess EXCEPT ![c] = u]
    BY <1>4 DEF AcceptNoMemory, AcceptNoRegister
  <2>2. u.phase = "lost"
    BY <1>1 DEF Session
  <2> HIDE DEF u
  <2>3. TurnOf(u) = "gone" /\ OwedBy(u) = "nothing"
    BY <2>2 DEF TurnOf, OwedBy
  <2>4. GoAheads' /\ Turns!Move(c, "offline", "gone", "nothing")
    BY <1>1, <1>2, <2>1, <2>2, <2>3, Moves DEF GoAheads
  <2>5. Turns!Leave(c)
    BY <1>1, <2>4 DEF Turns!Leave
  <2>6. QED
    BY <2>4, <2>5 DEF TurnStep, Turns!Next
<1>5. QED
  BY <1>3, <1>4 DEF OnListener

\* Sending a reply is a step of SmtpTurns.
LEMMA WriteTurn ==
  ASSUME IInv, GoAheads, NEW c \in Conn, Write(c)
  PROVE  TurnStep
<1>1. /\ sess \in [Conn -> Session] /\ sess[c].data \in SmtpData /\ registry' = registry
      /\ sess[c].phase = "open" /\ sess[c].interest = "WRITE" /\ GoAheadOK(sess[c])
  BY DEF Write, Dispatched, Open, IInv, TypeOK, Session, GoAheads
<1>2. PICK u \in Session : sess' = [sess EXCEPT ![c] = u] /\ SentOutcome(sess[c].data, u)
  BY WriteOutcome
<1>3. /\ TurnOf(sess[c]) = "server"
      /\ OwedBy(sess[c]) = "go ahead" <=> sess[c].data.state = "BODY"
  BY <1>1 DEF TurnOf, OwedBy, GoAheadOK
<1>4. GoAheads' /\ Turns!Move(c, "server", TurnOf(u), OwedBy(u))
  BY <1>1, <1>2, <1>3, SentTurn, Moves DEF GoAheads
<1>5. [d \in Conn |-> OwedBy(sess[d])][c] = OwedBy(sess[c])
  OBVIOUS
<1>6. CASE TurnOf(u) = "gone" /\ OwedBy(u) = "nothing"
  <2>1. Turns!Leave(c)
    BY <1>1, <1>4, <1>6 DEF Turns!Leave
  <2>2. QED
    BY <1>4, <2>1 DEF TurnStep, Turns!Next
<1>7. CASE sess[c].data.state = "BODY" /\ TurnOf(u) # "gone"
  <2>1. OwedBy(u) = "nothing" /\ TurnOf(u) \in {"body", "disk"}
    BY <1>1, <1>2, <1>7, SentTurn
  <2>2. Turns!GoAhead(c)
    BY <1>1, <1>3, <1>4, <1>5, <1>7, <2>1 DEF Turns!GoAhead
  <2>3. QED
    BY <1>4, <2>2 DEF TurnStep, Turns!Next
<1>8. CASE sess[c].data.state # "BODY" /\ TurnOf(u) # "gone"
  <2>1. \/ TurnOf(u) = "client" /\ OwedBy(u) = "nothing"
        \/ TurnOf(u) = "server" /\ OwedBy(u) \in {"reply", "go ahead"}
    BY <1>1, <1>2, <1>8, SentTurn
  <2>2. Turns!Answered(c)
    BY <1>1, <1>3, <1>4, <1>5, <1>8, <2>1 DEF Turns!Answered
  <2>3. QED
    BY <1>4, <2>2 DEF TurnStep, Turns!Next
<1>9. QED
  BY <1>1, <1>2, <1>6, <1>7, <1>8, SentTurn

\* Reading is a step of SmtpTurns.
LEMMA ReadStepTurn ==
  ASSUME IInv, GoAheads, NEW c \in Conn, Read(c)
  PROVE  TurnStep
<1>1. /\ sess \in [Conn -> Session] /\ sess[c].data \in SmtpData /\ registry' = registry
      /\ sess[c].phase = "open" /\ sess[c].interest = "READ" /\ GoAheadOK(sess[c])
      /\ sess[c].stm \in {"READ", "DATA", "ADMIN"}
  BY DEF Read, Dispatched, Open, IInv, TypeOK, Session, GoAheads
<1>2. PICK u \in Session : sess' = [sess EXCEPT ![c] = u] /\ ReadOutcome(sess[c].data, sess[c].stm, u)
  BY ReadStepOutcome
<1>3. CASE sess[c].stm = "DATA"
  <2>1. TurnOf(sess[c]) = "body"
    BY <1>1, <1>3 DEF TurnOf
  <2>2. (u.phase = "open" => GoAheadOK(u)) /\ OwedBy(u) = "nothing" /\ TurnOf(u) \in {"disk", "gone"}
    BY <1>2, <1>3, BodyTurn
  <2>3. GoAheads' /\ Turns!Move(c, "body", TurnOf(u), "nothing")
    BY <1>1, <1>2, <2>1, <2>2, Moves DEF GoAheads
  <2>4. Turns!Body(c) \/ Turns!Leave(c)
    BY <1>1, <2>2, <2>3 DEF Turns!Body, Turns!Leave
  <2>5. QED
    BY <2>3, <2>4 DEF TurnStep, Turns!Next
<1>4. CASE sess[c].stm # "DATA"
  <2>1. TurnOf(sess[c]) = "client" /\ OwedBy(sess[c]) = "nothing" /\ sess[c].data.state # "BODY"
    BY <1>1, <1>4 DEF TurnOf, OwedBy, GoAheadOK
  <2>2. /\ u.phase = "open" => GoAheadOK(u)
        /\ \/ TurnOf(u) = "client" /\ OwedBy(u) = "nothing"
           \/ TurnOf(u) = "gone" /\ OwedBy(u) = "nothing"
           \/ TurnOf(u) = "server" /\ OwedBy(u) \in {"reply", "go ahead"}
    BY <1>1, <1>2, <1>4, <2>1, ReadTurn
  <2>3. GoAheads' /\ Turns!Move(c, "client", TurnOf(u), OwedBy(u))
    BY <1>1, <1>2, <2>1, <2>2, Moves DEF GoAheads
  <2>4. CASE TurnOf(u) = "client" /\ OwedBy(u) = "nothing"
    BY <1>1, <1>2, <2>1, <2>3, <2>4, Stutters DEF TurnStep
  <2>5. CASE TurnOf(u) = "gone" /\ OwedBy(u) = "nothing"
    <3>1. Turns!Leave(c)
      BY <1>1, <2>3, <2>5 DEF Turns!Leave
    <3>2. QED
      BY <2>3, <3>1 DEF TurnStep, Turns!Next
  <2>6. CASE TurnOf(u) = "server" /\ OwedBy(u) \in {"reply", "go ahead"}
    <3>1. Turns!Command(c)
      BY <1>1, <2>3, <2>6 DEF Turns!Command
    <3>2. QED
      BY <2>3, <3>1 DEF TurnStep, Turns!Next
  <2>7. QED
    BY <2>2, <2>4, <2>5, <2>6
<1>5. QED
  BY <1>3, <1>4

\* An end is a step of SmtpTurns.
LEMMA EndTurn ==
  ASSUME IInv, GoAheads, NEW c \in Conn, WriteFails(c) \/ ReadEnd(c)
  PROVE  TurnStep
<1>1. /\ sess \in [Conn -> Session] /\ sess[c] \in Session /\ registry' = registry
      /\ sess[c].phase = "open" /\ sess[c].interest \in {"READ", "WRITE"}
      /\ sess' = [sess EXCEPT ![c] = smtp_done(sess[c])]
  BY DEF WriteFails, ReadEnd, Dispatched, Open, IInv, TypeOK
<1> DEFINE u == smtp_done(sess[c])
<1>2. u.phase = "closed"
  BY <1>1 DEF smtp_done, Session
<1>3. TurnOf(u) = "gone" /\ OwedBy(u) = "nothing"
  <2> HIDE DEF u
  <2>1. QED
    BY <1>2 DEF TurnOf, OwedBy
<1>4. TurnOf(sess[c]) \in {"server", "client", "body"}
  BY <1>1 DEF TurnOf
<1> HIDE DEF u
<1>5. GoAheads' /\ Turns!Move(c, TurnOf(sess[c]), "gone", "nothing")
  BY <1>1, <1>2, <1>3, Moves DEF GoAheads, u
<1>6. Turns!Leave(c)
  BY <1>1, <1>4, <1>5 DEF Turns!Leave
<1>7. QED
  BY <1>5, <1>6 DEF TurnStep, Turns!Next

\* A step after which a session still waits on its output file.
LEMMA StillOnDisk ==
  ASSUME sess \in [Conn -> Session], registry' = registry, GoAheads,
         NEW c \in Conn, TurnOf(sess[c]) = "disk", OwedBy(sess[c]) = "nothing",
         NEW u \in Session, u.phase = "open", u.interest = "NOOP", sess' = [sess EXCEPT ![c] = u]
  PROVE  TurnStep
<1>1. TurnOf(u) = "disk" /\ OwedBy(u) = "nothing" /\ GoAheadOK(u)
  BY DEF TurnOf, OwedBy, GoAheadOK
<1>2. GoAheads'
  BY <1>1, Moves DEF GoAheads
<1>3. QED
  BY <1>1, <1>2, Stutters DEF TurnStep

\* The registry after a mail was stored.
LEMMA RegistryGrows ==
  ASSUME NEW c \in Conn, NEW d \in SmtpData, d.rcpt_to # <<>>, NEW reg \in Seq(Mail),
         NEW new, new = reg \o Entries(c, d)
  PROVE  Len(new) > Len(reg) /\ SubSeq(new, 1, Len(reg)) = reg
<1> DEFINE es == Entries(c, d)
<1>1. es \in Seq(Mail) /\ Len(es) \in Nat /\ Len(reg) \in Nat
  BY EntriesType, LenProperties
<1>2. Len(es) > 0
  <2>1. d.rcpt_to \in Seq(User) /\ Len(d.rcpt_to) \in Nat /\ DOMAIN d.rcpt_to = 1..Len(d.rcpt_to)
    BY LenProperties DEF SmtpData
  <2>2. Len(d.rcpt_to) # 0
    BY <2>1, EmptySeq
  <2>3. DOMAIN es = 1..Len(d.rcpt_to) /\ DOMAIN es = 1..Len(es)
    BY <1>1, <2>1, LenProperties DEF Entries
  <2>4. QED
    BY <1>1, <2>1, <2>2, <2>3
<1> HIDE DEF es
<1>3. Len(reg \o es) = Len(reg) + Len(es)
  BY <1>1, ConcatProperties
<1>4. SubSeq(reg \o es, 1, Len(reg)) = reg
  <2>1. CASE reg = <<>>
    <3>1. Len(reg) = 0 /\ reg \o es = es
      BY <1>1, <2>1, EmptySeq, ConcatEmptySeq
    <3>2. SubSeq(es, 1, 0) = <<>>
      BY <1>1, SubSeqEmpty
    <3>3. QED
      BY <2>1, <3>1, <3>2
  <2>2. CASE reg # <<>>
    <3>1. Len(reg) \in 1..Len(reg) /\ 1 \in 1..Len(reg)
      BY <1>1, <2>2, EmptySeq
    <3>2. SubSeq(reg \o es, 1, Len(reg)) = SubSeq(reg, 1, Len(reg))
      BY <1>1, <3>1, SubSeqOfConcat1
    <3>3. QED
      BY <3>2, SubSeqFull
  <2>3. QED
    BY <2>1, <2>2
<1>5. QED
  BY <1>1, <1>2, <1>3, <1>4 DEF es

\* The output file is served by a step of SmtpTurns.
LEMMA OutputTurn ==
  ASSUME IInv, GoAheads, NEW c \in Conn, OnOutput(c)
  PROVE  TurnStep
<1> DEFINE w == Written(sess[c])
           v == [w EXCEPT !.interest = "READ", !.output = "NOOP"]
<1>1. /\ Storing(sess[c]) /\ Storing(w) /\ w \in Session /\ w.phase = "open" /\ w.interest = "NOOP"
      /\ w.data = sess[c].data /\ sess[c].data.state = "BODY"
      /\ sess[c] \in Session /\ sess[c].phase = "open" /\ sess[c].interest = "NOOP"
  BY OutputStoring, WrittenStoring DEF Storing
<1>2. TurnOf(sess[c]) = "disk" /\ OwedBy(sess[c]) = "nothing" /\ sess \in [Conn -> Session]
  BY <1>1 DEF TurnOf, OwedBy, IInv, TypeOK
<1> HIDE DEF w
<1>3. CASE StoreLast(c)
  <2>1. PICK failed : sess' = [sess EXCEPT ![c] = Finished(w, failed)]
    BY <1>3 DEF StoreLast, w
  <2> DEFINE u == Finished(w, failed)
  <2>2. u.phase = "open" /\ u.interest = "WRITE" /\ u.data.state = "EHLO" /\ u.wbuf = <<"250 queued">>
    BY <1>1, FinishedOutcome
  <2> HIDE DEF u
  <2>3. TurnOf(u) = "server" /\ OwedBy(u) = "stored" /\ GoAheadOK(u)
    <3>1. u.wbuf[1] = "250 queued"
      <4>1. \A m : <<m>>[1] = m
        OBVIOUS
      <4>2. u.wbuf = <<"250 queued">>
        BY <2>2
      <4>3. QED
        BY <4>1, <4>2, Zenon
    <3>2. TurnOf(u) = "server"
      BY <2>2 DEF TurnOf
    <3>3. OwedBy(u) = "stored"
      BY <3>1, <3>2 DEF OwedBy
    <3>4. GoAheadOK(u)
      BY <2>2, <3>1 DEF GoAheadOK
    <3>5. QED
      BY <3>2, <3>3, <3>4
  <2>4. GoAheads' /\ Turns!Move(c, "disk", "server", "stored")
    BY <1>2, <2>1, <2>3, Moves DEF GoAheads, u
  <2>5. sess[c].data \in SmtpData /\ sess[c].data.rcpt_to # <<>> /\ registry \in Seq(Mail)
    BY <1>1 DEF Storing, SessionInv, EnvelopeOK, Session, IInv, TypeOK
  <2>6. registry' = registry \o Entries(c, sess[c].data)
    BY <1>3 DEF StoreLast
  <2>7. Turns!Store(c)
    BY <2>4, <2>5, <2>6, RegistryGrows DEF Turns!Store
  <2>8. QED
    BY <2>4, <2>7 DEF TurnStep, Turns!Next
<1>4. CASE StoreChunk(c)
  <2>1. PICK opened \in BOOLEAN : sess' = [sess EXCEPT ![c] = request_data_init(v, opened)]
    BY <1>4 DEF StoreChunk, w
  <2> DEFINE u == request_data_init(v, opened)
  <2>2. v \in Session /\ v.phase = "open" /\ v.interest = "READ"
    BY <1>1 DEF Session
  <2>3. u.phase = "open" /\ u.interest = "READ" /\ u.stm = "DATA"
    <3> HIDE DEF v
    <3>1. QED
      BY <2>2, DataInitOutcome
  <2> HIDE DEF u
  <2>4. TurnOf(u) = "body" /\ OwedBy(u) = "nothing" /\ GoAheadOK(u)
    BY <2>3 DEF TurnOf, OwedBy, GoAheadOK
  <2>5. GoAheads' /\ Turns!Move(c, "disk", "body", "nothing")
    BY <1>2, <2>1, <2>4, Moves DEF GoAheads, u
  <2>6. Turns!Chunk(c)
    BY <1>4, <2>5 DEF Turns!Chunk, StoreChunk
  <2>7. QED
    BY <2>5, <2>6 DEF TurnStep, Turns!Next
<1>5. CASE StoreFails(c)
  <2> DEFINE u == [sess[c] EXCEPT !.stm = "ERROR"]
  <2>1. sess' = [sess EXCEPT ![c] = u] /\ registry' = registry
    BY <1>5 DEF StoreFails
  <2>2. u \in Session /\ u.phase = "open" /\ u.interest = "NOOP"
    BY <1>1 DEF Session, StmState
  <2> HIDE DEF u
  <2>3. QED
    BY <1>2, <2>1, <2>2, StillOnDisk
<1>6. CASE StoreToDeadPipe(c)
  <2>1. sess' = [sess EXCEPT ![c] = w] /\ registry' = registry
    BY <1>6 DEF StoreToDeadPipe, w
  <2>2. QED
    BY <1>1, <1>2, <2>1, StillOnDisk
<1>7. QED
  BY <1>3, <1>4, <1>5, <1>6 DEF OnOutput

\* Every step is a step of SmtpTurns, or a stutter.
LEMMA NextTurn == IInv /\ GoAheads /\ [Next]_vars => TurnStep
<1> SUFFICES ASSUME IInv, GoAheads, [Next]_vars PROVE TurnStep
  OBVIOUS
<1>1. ASSUME sess' = sess, registry' = registry PROVE TurnStep
  BY <1>1 DEF TurnStep, GoAheads, Turns!vars
<1>2. ASSUME NEW c \in Conn, \/ ClientSend(c) \/ ClientClose(c) \/ WriteToDeadPipe(c)
                             \/ ReadOutside(c) \/ Abort(c)
      PROVE  TurnStep
  BY <1>1, <1>2
  DEF ClientSend, ClientClose, ServerUnchanged, WriteToDeadPipe, ReadOutside, Abort
<1>3. ASSUME UNCHANGED vars PROVE TurnStep
  BY <1>1, <1>3 DEF vars
<1>4. QED
  BY <1>2, <1>3, AcceptTurn, WriteTurn, ReadStepTurn, EndTurn, OutputTurn DEF Next, OnSocket

\* The initial states are SmtpTurns' own.
LEMMA InitTurn == Init => GoAheads /\ Turns!Init
<1> SUFFICES ASSUME Init PROVE GoAheads /\ Turns!Init
  OBVIOUS
<1>1. \A c \in Conn : sess[c].phase = "none" /\ TurnOf(sess[c]) = "offline" /\ OwedBy(sess[c]) = "nothing"
  BY DEF Init, NoSession, TurnOf, OwedBy
<1>2. QED
  BY <1>1 DEF Init, GoAheads, Turns!Init

-----------------------------------------------------------------------------
\* The reply 354 waits to be sent exactly while the dialogue is in BODY, and the server
\* never reads commands there: what a client sends as a body is never taken for commands.
THEOREM BodiesAreAnnounced == Spec => []GoAheads
<1>1. Init => GoAheads
  BY InitTurn
<1>2. IInv /\ GoAheads /\ [Next]_vars => GoAheads'
  BY NextTurn DEF TurnStep
<1>3. QED
  BY <1>1, <1>2, Invariant, PTL DEF Spec

\* smtp.c, its buffers, parsers and the selector's interests implement the turns: one
\* reply owed at a time, a body read only after the go-ahead, a mail registered only
\* from the disk and with the news of it.
THEOREM SessionsTakeTurns == Spec => TakesTurns
<1>1. Init => Turns!Init
  BY InitTurn
<1>2. IInv /\ GoAheads /\ [Next]_vars => [Turns!Next]_(Turns!vars)
  BY NextTurn DEF TurnStep
<1>3. QED
  BY <1>1, <1>2, Invariant, BodiesAreAnnounced, PTL DEF Spec, TakesTurns, Turns!Spec
===============================================================================
