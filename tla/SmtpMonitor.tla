----------------------------- MODULE SmtpMonitor -----------------------------
(***************************************************************************)
(* The monitor's UDP protocol (src/src/lib/monitor.c) and the program that *)
(* queries it (src/monitor_client), next to the sessions whose counters it *)
(* tells.                                                                  *)
(*                                                                         *)
(* One client process asks one query; its datagram and the answers to it   *)
(* travel in wire, where they may stay for as long as they like (lost, or  *)
(* late).  A query names its command and its flaws: the client of the      *)
(* repository sends flawless ones, others may send anything.               *)
(***************************************************************************)
EXTENDS SmtpSession

CONSTANT Queries       \* the queries a client process may send

Command == {"HIST", "CONC", "BYTES", "STATUS", "T_ON", "T_OFF"}

\* The checks of parse_monitor_message in their order, with the status each sets.
Checks == <<[flaw |-> "short",     status |-> "S_SIGNATURE_ERR"],
            [flaw |-> "signature", status |-> "S_SIGNATURE_ERR"],
            [flaw |-> "version",   status |-> "S_INV_VERS"],
            [flaw |-> "token",     status |-> "S_AUTH_FAIL"],
            [flaw |-> "command",   status |-> "S_INV_CMD"],
            [flaw |-> "length",    status |-> "S_INV_REQ_LEN"]>>

Query  == [cmd : Command, flaws : SUBSET {Checks[i].flaw : i \in DOMAIN Checks}]
Status == {"S_SUCCESS"} \cup {Checks[i].status : i \in DOMAIN Checks}

ASSUME QueryAssumption == Queries \subseteq Query

VARIABLES asker,     \* the client process
          wire,      \* datagrams under way
          seen       \* what was true of what is asked for, since it was asked

mvars == <<asker, wire, seen>>

NoQuery == [cmd |-> "HIST", flaws |-> {}]

\* A datagram is a query or an answer; data is what the reply's data field holds.
Datagram == [to : {"monitor"}, query : Query]
            \cup [to : {"client"}, status : Status, data : Int]

-----------------------------------------------------------------------------
(* The server.                                                             *)

\* parse_monitor_message: the first check the query fails decides.
parse_monitor_message(q) ==
  LET failed == {i \in DOMAIN Checks : Checks[i].flaw \in q.flaws}
  IN  IF failed = {} THEN "S_SUCCESS" ELSE Checks[Min(failed)].status

\* Mutant: the two counters of connections are swapped.
process_valid_command_swapped(cmd) ==
  CASE cmd = "HIST"   -> monitor.curr
    [] cmd = "CONC"   -> monitor.total
    [] cmd = "BYTES"  -> monitor.sent_bytes
    [] cmd = "STATUS" -> 3
    [] cmd = "T_ON"   -> 4
    [] cmd = "T_OFF"  -> 5

\* process_valid_command: the commands on the transformation only echo their code.
process_valid_command(cmd) ==
  CASE cmd = "HIST"   -> monitor.total
    [] cmd = "CONC"   -> monitor.curr
    [] cmd = "BYTES"  -> monitor.sent_bytes
    [] cmd = "STATUS" -> 3
    [] cmd = "T_ON"   -> 4
    [] cmd = "T_OFF"  -> 5

\* The answers to a query: none if it was not even signed; a failed one has a status
\* and, since the buffer comes from calloc, zeroes.
Answers(q) ==
  LET status == parse_monitor_message(q)
  IN  CASE status = "S_SIGNATURE_ERR" -> {}
        [] status = "S_SUCCESS" ->
             {[to |-> "client", status |-> status, data |-> process_valid_command(q.cmd)]}
        [] OTHER -> {[to |-> "client", status |-> status, data |-> 0]}

-----------------------------------------------------------------------------
(* The client program.                                                     *)

\* print_bytes_recieved: what the line printed says, whatever the answer's status.
print_bytes_recieved(data, cmd) ==
  CASE cmd \in {"HIST", "CONC", "BYTES"} -> data
    [] cmd = "STATUS" -> IF data = 0 THEN "off" ELSE "on"
    [] cmd = "T_ON"   -> "on"
    [] cmd = "T_OFF"  -> "off"

\* What a truthful line would say.
Truth(cmd) ==
  CASE cmd = "HIST"  -> Cardinality({c \in Conn : sess[c].phase \in {"open", "closed"}})
    [] cmd = "CONC"  -> Cardinality({c \in Conn : Open(c)})
    [] cmd = "BYTES" -> monitor.sent_bytes
    [] OTHER -> IF transform THEN "on" ELSE "off"

MonitorInit ==
  /\ asker = [phase |-> "idle", query |-> NoQuery, told |-> 0]
  /\ wire = {}
  /\ seen = {}

\* prepare_buffer and the one sendto.
Ask(q) ==
  /\ asker.phase = "idle"
  /\ asker' = [phase |-> "waiting", query |-> q, told |-> 0]
  /\ wire' = {[to |-> "monitor", query |-> q]}
  /\ seen' = {Truth(q.cmd)}
  /\ UNCHANGED vars

\* handle_udp_packet, dispatched for a monitor socket.  (calloc failing in it leaves
\* the datagram for the next iteration.)
handle_udp_packet ==
  /\ server = "up"
  /\ \E d \in wire : /\ d.to = "monitor"
                     /\ wire' = Answers(d.query)
  /\ UNCHANGED <<vars, asker, seen>>

\* recvfrom, and the line printed.  What comes later finds the socket closed; the next
\* process is taken to get another port.
Tell ==
  /\ asker.phase = "waiting"
  /\ \E d \in wire :
       /\ d.to = "client"
       /\ asker' = [phase |-> "idle", query |-> NoQuery, told |-> print_bytes_recieved(d.data, asker.query.cmd)]
  /\ wire' = {} /\ seen' = {}
  /\ UNCHANGED vars

\* SO_RCVTIMEO: after five seconds nothing is printed and nothing is sent again.
GiveUp ==
  /\ asker.phase = "waiting"
  /\ asker' = [asker EXCEPT !.phase = "idle", !.query = NoQuery]
  /\ wire' = {} /\ seen' = {}
  /\ UNCHANGED vars

\* A step of the sessions, while the client may be waiting.
Meanwhile ==
  /\ Next
  /\ UNCHANGED <<asker, wire>>
  /\ seen' = IF asker.phase = "waiting" THEN seen \cup {Truth(asker.query.cmd)'} ELSE seen

MonitoredInit == Init /\ MonitorInit
MonitoredNext == \/ Meanwhile
                 \/ \E q \in Queries : Ask(q)
                 \/ handle_udp_packet \/ Tell \/ GiveUp

MonitoredSpec == MonitoredInit /\ [][MonitoredNext]_<<vars, mvars>>

-----------------------------------------------------------------------------
\* The number a client prints was the number of sessions, open or ever registered, or of
\* bytes, at some moment while it waited: through the counters that smtp.c keeps on every
\* path of a session, datagrams lost or late, and a client that does not look at what
\* it gets.  A query with a flaw learns nothing: the number printed is 0.
ToldWasTrue ==
  [][Tell /\ asker.query.cmd \in {"HIST", "CONC", "BYTES"}
       => IF asker.query.flaws = {} THEN asker'.told \in seen ELSE asker'.told = 0]_<<vars, mvars>>
=============================================================================
