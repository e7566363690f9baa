---------------------------- MODULE MCSmtpSession ----------------------------
(***************************************************************************)
(* Small instances of SmtpSession: the clients' scripts.                   *)
(***************************************************************************)
EXTENDS SmtpRefinement, SmtpMails

\* Connections are interchangeable: the safety runs use the symmetry.
ConnSymmetry == Permutations(Conn)

MCUser  == {"ana", "beto"}
MCMocks == <<[from |-> "ana", to |-> "beto", path |-> "mock", today |-> FALSE]>>
NoMocks == <<>>

MCMails == {[from |-> "ana",  rcpts |-> <<"beto">>,        body |-> <<Cmd("?", "host")>>],
            [from |-> "beto", rcpts |-> <<"beto", "ana">>, body |-> <<Cmd("QUIT", NoArg), Cmd("?", NoArg)>>]}

\* concurrency_test.c: the whole mail in one send; with and without what follows.
PipelinedScripts == {MailScript(m) \o tail : m \in Mails,
                       tail \in {<<>>, <<Cmd("QUIT", NoArg)>>, <<Cmd("HELO", "host"), Cmd("NOOP", NoArg)>>}}

\* They are what SmtpMailProofs assumes of clients.
ASSUME PipelinedAssumption == Scripts = PipelinedScripts => Pipelined

\* Every dialogue of up to 4 lines after a sender was accepted, with the commands
\* that leave the usual order, and those a parser refuses.
DialogueLines   == {Cmd("HELO", NoArg), Cmd("MAIL", "beto"), Cmd("RCPT", "beto"), Cmd("RCPT", "remote"),
                    Cmd("DATA", NoArg), Cmd("RSET", NoArg), Cmd("QUIT", NoArg), Dot}

\* Every administration of up to 3 commands, with refused and out-of-order ones.
AdminLines == {Cmd("XFROM", "ana"), Cmd("XFROM", "host"), Cmd("XGET", "ALL"), Cmd("XGET", "today"),
               Cmd("XTRAN", "bad"), Cmd("XQUIT", NoArg), Cmd("DATA", NoArg)}

\* A mail sent by the administrator after the transformation was switched on.
TransformedScripts ==
  {<<Cmd("HELO", "host"), Cmd("XAUTH", Password), Cmd("XTRAN", "ON"), Cmd("XQUIT", NoArg)>>
     \o Tail(MailScript(m)) : m \in {n \in Mails : n.from = "ana"}}

DialogueScripts ==
  {<<Cmd("HELO", "host"), Cmd("MAIL", "ana")>> \o w : w \in BoundedSeq(DialogueLines, 4)}
  \cup {<<Cmd("HELO", "host"), Cmd("XAUTH", Password)>> \o w : w \in BoundedSeq(AdminLines, 3)}
  \cup TransformedScripts

\* Two mails in one session, to different mailboxes.
Reversed == [from |-> "beto", rcpts |-> <<"ana">>, body |-> <<Cmd("?", "host")>>]
TwoMailScripts == {MailScript(m) \o MailScript(Reversed) : m \in Mails}

\* One mail, sent line by line by each client.
FaultScripts == {MailScript(m) : m \in {n \in Mails : n.from = "ana"}}

\* An administrator who switches the transformation, one who does not know the
\* password, and a client sending a mail.
AdminScripts ==
  {<<Cmd("HELO", "host"), Cmd("XAUTH", Password), Cmd("XTRAN", "ON"), Cmd("XQUIT", NoArg)>>,
   <<Cmd("HELO", "host"), Cmd("XAUTH", "bad"), Cmd("XTRAN", "ON"), Cmd("RSET", NoArg)>>}
  \cup FaultScripts

=============================================================================
