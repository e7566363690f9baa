------------------------------ MODULE SmtpTurns ------------------------------
(***************************************************************************)
(* What the server promises each client, without buffers, parsers or the   *)
(* selector: the two take turns.  The server speaks first; it owes one     *)
(* reply at a time and reads on only once it was sent; a body is read only *)
(* after the go-ahead was sent; a mail is registered only from the disk    *)
(* turn, together with the reply that says so, and no session ends while   *)
(* its mail is being written.                                              *)
(***************************************************************************)
EXTENDS Naturals, Sequences

CONSTANTS Conn, InitialMails

VARIABLES turn,        \* whose move it is, per connection
          owed,        \* the reply the server owes, per connection
          registered   \* the mails registered, in order

Turn == {"offline", "server", "client", "body", "disk", "gone"}
Owed == {"nothing", "reply", "go ahead", "stored"}

vars == <<turn, owed, registered>>

Init == /\ turn = [c \in Conn |-> "offline"]
        /\ owed = [c \in Conn |-> "nothing"]
        /\ registered = InitialMails

Move(c, from, to, reply) ==
  /\ turn[c] = from
  /\ turn' = [turn EXCEPT ![c] = to]
  /\ owed' = [owed EXCEPT ![c] = reply]

Greet(c) == Move(c, "offline", "server", "reply") /\ UNCHANGED registered

\* The session ends, or was never served; never from the disk turn.
Leave(c) == /\ \E from \in {"offline", "server", "client", "body"} : Move(c, from, "gone", "nothing")
            /\ UNCHANGED registered

\* The reply is sent.  What the client had already sent may be read at once.
Answered(c) ==
  /\ owed[c] # "go ahead"
  /\ \/ Move(c, "server", "client", "nothing")
     \/ \E reply \in {"reply", "go ahead"} : Move(c, "server", "server", reply)
  /\ UNCHANGED registered

GoAhead(c) ==
  /\ owed[c] = "go ahead"
  /\ \E to \in {"body", "disk"} : Move(c, "server", to, "nothing")
  /\ UNCHANGED registered

Command(c) == /\ \E reply \in {"reply", "go ahead"} : Move(c, "client", "server", reply)
              /\ UNCHANGED registered

Body(c)  == Move(c, "body", "disk", "nothing") /\ UNCHANGED registered
Chunk(c) == Move(c, "disk", "body", "nothing") /\ UNCHANGED registered

\* The mail is stored: the registry grows, and the client is owed the news.
Store(c) == /\ Move(c, "disk", "server", "stored")
            /\ Len(registered') > Len(registered)
            /\ SubSeq(registered', 1, Len(registered)) = registered

Next == \E c \in Conn : \/ Greet(c) \/ Leave(c) \/ Answered(c) \/ GoAhead(c)
                        \/ Command(c) \/ Body(c) \/ Chunk(c) \/ Store(c)

Spec == Init /\ [][Next]_vars
=============================================================================
