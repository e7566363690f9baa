------------------------------- MODULE SmtpMails -------------------------------
(***************************************************************************)
(* The mails that clients send in sessions of SmtpSession, and what must   *)
(* become of them.                                                         *)
(***************************************************************************)
EXTENDS SmtpSession

CONSTANT Mails           \* the mails clients send

\* A mail has a recipient, a line of text, and no line that is the dot of the end.
ASSUME MailAssumption ==
  Mails \subseteq [from : User, rcpts : Seq(User) \ {<<>>}, body : Seq(Line \ {Dot}) \ {<<>>}]

\* The path of the mails registered at startup is no connection's.
ASSUME PathAssumption == "mock" \notin Conn

Cmd(v, a) == [verb |-> v, arg |-> a]

\* A mail as a client sends it: one script for its envelope and body.
Envelope(m) == <<Cmd("HELO", "host"), Cmd("MAIL", m.from)>>
               \o [i \in DOMAIN m.rcpts |-> Cmd("RCPT", m.rcpts[i])] \o <<Cmd("DATA", NoArg)>>
MailScript(m) == Envelope(m) \o m.body \o <<Dot>>

\* Does a script begin with mail m, and neither sends another nor switches the
\* transformation behind it?
OneMail(w, m) ==
  LET n == Len(MailScript(m))
  IN  /\ n <= Len(w) /\ SubSeq(w, 1, n) = MailScript(m)
      /\ \A k \in n + 1..Len(w) : w[k].verb \notin {"MAIL", "XTRAN"}

\* Each client sends a mail in one go, which arrives whole, and no copy fails.
Pipelined ==
  /\ WholeSend /\ WholeRecv /\ "copy" \notin Faults
  /\ \A w \in Scripts : \E m \in Mails : OneMail(w, m)

-----------------------------------------------------------------------------
\* The file of a mail that was delivered whole: its header and its lines, the
\* last one without its end of line.
FileOf(m) == <<[from |-> m.from, rcpts |-> m.rcpts]>>
             \o SubSeq(Wire(m.body), 1, 2 * Len(m.body) - 1)

\* Every mail the registry names is in the recipient's new/ exactly as one client
\* sent it, to that recipient.
DeliveredAsSent ==
  \A i \in DOMAIN registry : registry[i].path \in Conn =>
    \E m \in Mails :
      /\ m.from = registry[i].from
      /\ registry[i].to \in Range(m.rcpts)
      /\ sess[registry[i].path].new[registry[i].to] = FileOf(m)

\* The copy in new/ is a copy of the mail being registered: the last entry's
\* recipient has a file that begins with that entry's sender.
CopyIsOfThisMail ==
  LET last == registry[Len(registry)]
  IN  registry # <<>> => sess[last.path].new[last.to][1].from = last.from

\* The terminator closes the body: a mail that was sent whole is stored and
\* registered for every recipient, unless the client hangs up.  (process.c:464
\* tells the client to end the data with <CR><LF>.<CR><LF>.)
SentMailStored ==
  \A c \in Conn :
    client[c].todo = <<>> /\ client[c].net # <<>> /\ ~client[c].eof ~>
      \/ client[c].eof
      \/ \E m \in Mails : \A u \in Range(m.rcpts) :
           \E i \in DOMAIN registry : registry[i].path = c /\ registry[i].to = u
                                        /\ registry[i].from = m.from
=============================================================================
