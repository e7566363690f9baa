--------------------------- MODULE SmtpRefinement ---------------------------
(***************************************************************************)
(* SmtpSession implements SmtpTurns: the turn of a connection is read off  *)
(* the selector's interest and the state of its machine.                   *)
(***************************************************************************)
EXTENDS SmtpSession

TurnOf(s) ==
  CASE s.phase = "none"               -> "offline"
    [] s.phase \in {"closed", "lost"} -> "gone"
    [] s.phase = "open" /\ s.interest = "WRITE" -> "server"
    [] s.phase = "open" /\ s.interest = "NOOP"  -> "disk"
    [] s.phase = "open" /\ s.interest = "READ" /\ s.stm = "DATA" -> "body"
    [] OTHER -> "client"

OwedBy(s) ==
  CASE TurnOf(s) # "server" -> "nothing"
    [] TurnOf(s) = "server" /\ s.wbuf[1] = "354" -> "go ahead"
    [] TurnOf(s) = "server" /\ s.wbuf[1] = "250 queued" -> "stored"
    [] OTHER -> "reply"

Turns == INSTANCE SmtpTurns WITH
           turn         <- [c \in Conn |-> TurnOf(sess[c])],
           owed         <- [c \in Conn |-> OwedBy(sess[c])],
           registered   <- registry,
           InitialMails <- MockMails

\* Every step of the sessions is a turn, or leaves the turns as they are.
TakesTurns == Turns!Spec
=============================================================================
