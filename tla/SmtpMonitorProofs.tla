-------------------------- MODULE SmtpMonitorProofs --------------------------
(***************************************************************************)
(* What a monitor client prints was true while it waited, for every set of *)
(* connections, scripts, faults and queries.                               *)
(***************************************************************************)
EXTENDS SmtpMonitor, SmtpSessionProofs

-----------------------------------------------------------------------------
(* The server's answer.                                                    *)

\* Every check that fails has a status that is not success.
LEMMA ChecksRange ==
  ASSUME NEW i \in DOMAIN Checks
  PROVE  Checks[i].status # "S_SUCCESS"
<1>1. DOMAIN Checks = 1..6
  BY DEF Checks
<1>2. i \in {1, 2, 3, 4, 5, 6}
  BY <1>1
<1>3. QED
  BY <1>2 DEF Checks

\* A query succeeds exactly when it has no flaw.
LEMMA FlawlessSucceeds ==
  ASSUME NEW q \in Query
  PROVE  parse_monitor_message(q) = "S_SUCCESS" <=> q.flaws = {}
<1> DEFINE failed == {i \in DOMAIN Checks : Checks[i].flaw \in q.flaws}
<1>1. CASE q.flaws = {}
  BY <1>1 DEF parse_monitor_message
<1>2. CASE q.flaws # {}
  <2>1. q.flaws \subseteq {Checks[i].flaw : i \in DOMAIN Checks}
    BY DEF Query
  <2>2. PICK i \in DOMAIN Checks : Checks[i].flaw \in q.flaws
    BY <1>2, <2>1
  <2>3. failed # {} /\ failed \in SUBSET Nat
    <3>1. DOMAIN Checks = 1..6
      BY DEF Checks
    <3>2. QED
      BY <2>2, <3>1
  <2>4. Min(failed) \in failed
    BY <2>3, MinOfNats
  <2>5. Checks[Min(failed)].status # "S_SUCCESS"
    BY <2>4, ChecksRange
  <2>6. parse_monitor_message(q) = Checks[Min(failed)].status
    BY <2>3 DEF parse_monitor_message
  <2>7. QED
    BY <1>2, <2>5, <2>6
<1>3. QED
  BY <1>1, <1>2

Number == {"HIST", "CONC", "BYTES"}

\* What an answer holds for a client that asked for a number.
LEMMA AnswerHolds ==
  ASSUME NEW q \in Query, q.cmd \in Number, NEW d \in Answers(q)
  PROVE  d.to = "client" /\ d.data = IF q.flaws = {} THEN process_valid_command(q.cmd) ELSE 0
<1> DEFINE status == parse_monitor_message(q)
<1>1. status = "S_SUCCESS" <=> q.flaws = {}
  BY FlawlessSucceeds
<1>2. Answers(q) = CASE status = "S_SIGNATURE_ERR" -> {}
                     [] status = "S_SUCCESS" ->
                          {[to |-> "client", status |-> status, data |-> process_valid_command(q.cmd)]}
                     [] OTHER -> {[to |-> "client", status |-> status, data |-> 0]}
  BY DEF Answers
<1> HIDE DEF status
<1>3. QED
  BY <1>1, <1>2

\* The counters of monitor.c hold what is true of the sessions.
LEMMA CommandTruth ==
  ASSUME CountsOK(sess, monitor), NEW cmd \in Number
  PROVE  process_valid_command(cmd) = Truth(cmd)
BY CountsAreConnections DEF Number, process_valid_command, Truth, ConnectionsCounted

-----------------------------------------------------------------------------
(* The inductive invariant: besides the one of the sessions and their      *)
(* counters, a client that waits for a number has been told of every moment *)
(* so far (seen), and what travels is its own query or an answer that was  *)
(* true at one of them.                                                    *)

WireOK ==
  asker.phase = "waiting" /\ asker.query.cmd \in Number =>
    /\ Truth(asker.query.cmd) \in seen
    /\ \A d \in wire :
         /\ d.to = "monitor" => d.query = asker.query
         /\ d.to = "client" => IF asker.query.flaws = {} THEN d.data \in seen ELSE d.data = 0

MInv ==
  /\ IInv /\ CountsOK(sess, monitor)
  /\ asker = [phase |-> asker.phase, query |-> asker.query, told |-> asker.told]
  /\ asker.query \in Query
  /\ WireOK

\* The client starts with no query.
LEMMA NoQueryType == NoQuery \in Query
BY DEF NoQuery, Query, Command

\* A step of the monitor alone leaves what is true as it is.
LEMMA TruthStays ==
  ASSUME UNCHANGED vars, NEW cmd
  PROVE  Truth(cmd)' = Truth(cmd)
BY DEF vars, Truth, Open

\* Every step of the server, the monitor or its client keeps the invariant.
LEMMA MonitorStep == MInv /\ [MonitoredNext]_<<vars, mvars>> => MInv'
<1> SUFFICES ASSUME MInv, [MonitoredNext]_<<vars, mvars>> PROVE MInv'
  OBVIOUS
<1>1. [Next]_vars
  BY DEF MonitoredNext, Meanwhile, Ask, handle_udp_packet, Tell, GiveUp
<1>2. IInv' /\ CountsOK(sess, monitor)'
  BY <1>1, NextInv, CountsNext DEF MInv
<1>3. CASE Meanwhile
  BY <1>2, <1>3 DEF Meanwhile, MInv, WireOK
<1>4. ASSUME NEW q \in Queries, Ask(q) PROVE MInv'
  <2>1. asker' = [phase |-> "waiting", query |-> q, told |-> 0] /\ UNCHANGED vars
        /\ wire' = {[to |-> "monitor", query |-> q]} /\ seen' = {Truth(q.cmd)}
    BY <1>4 DEF Ask
  <2>2. Truth(q.cmd)' = Truth(q.cmd)
    BY <2>1, TruthStays
  <2>3. asker'.query = q /\ q \in Query
        /\ asker' = [phase |-> asker'.phase, query |-> asker'.query, told |-> asker'.told]
    BY <2>1, QueryAssumption
  <2>4. WireOK'
    BY <2>1, <2>2, <2>3 DEF WireOK
  <2>5. QED
    BY <1>2, <2>3, <2>4 DEF MInv
<1>5. CASE handle_udp_packet
  <2>1. PICK q : q.to = "monitor" /\ q \in wire /\ wire' = Answers(q.query)
    BY <1>5 DEF handle_udp_packet
  <2>2. UNCHANGED <<vars, asker, seen>>
    BY <1>5 DEF handle_udp_packet
  <2>3. WireOK'
    <3> SUFFICES ASSUME asker.phase = "waiting", asker.query.cmd \in Number PROVE WireOK'
      BY <2>2 DEF WireOK
    <3>1. q.query = asker.query /\ asker.query \in Query /\ Truth(asker.query.cmd) \in seen
      BY <2>1 DEF MInv, WireOK
    <3>2. process_valid_command(asker.query.cmd) \in seen
      BY <3>1, CommandTruth DEF MInv
    <3>3. \A d \in wire' : d.to = "client" /\ d.data = IF asker.query.flaws = {}
                                                      THEN process_valid_command(asker.query.cmd) ELSE 0
      BY <2>1, <3>1, AnswerHolds
    <3>4. Truth(asker.query.cmd)' = Truth(asker.query.cmd)
      BY <2>2, TruthStays DEF vars, Truth, Open
    <3>5. QED
      BY <2>2, <3>1, <3>2, <3>3, <3>4 DEF WireOK
  <2>4. QED
    BY <1>2, <2>2, <2>3 DEF MInv
<1>6. CASE Tell \/ GiveUp
  <2>1. asker'.phase = "idle" /\ asker'.query = NoQuery
        /\ asker' = [phase |-> asker'.phase, query |-> asker'.query, told |-> asker'.told]
    <3>1. CASE Tell
      BY <3>1 DEF Tell
    <3>2. CASE GiveUp
      <4>1. asker' = [phase |-> "idle", query |-> NoQuery, told |-> asker.told]
        BY <3>2 DEF GiveUp, MInv
      <4>2. QED
        BY <4>1
    <3>3. QED
      BY <1>6, <3>1, <3>2
  <2>2. QED
    BY <1>2, <2>1, NoQueryType DEF MInv, WireOK
<1>7. CASE UNCHANGED <<vars, mvars>>
  BY <1>2, <1>7 DEF MInv, WireOK, vars, mvars, Truth, Open
<1>8. QED
  BY <1>3, <1>4, <1>5, <1>6, <1>7 DEF MonitoredNext

\* What the client prints was true while it waited, or is 0 for a flawed query.
LEMMA TellStep ==
  ASSUME MInv, Tell, asker.query.cmd \in Number
  PROVE  IF asker.query.flaws = {} THEN asker'.told \in seen ELSE asker'.told = 0
<1>1. PICK d \in wire : d.to = "client" /\ asker'.told = print_bytes_recieved(d.data, asker.query.cmd)
  BY DEF Tell
<1>2. asker'.told = d.data
  BY <1>1 DEF print_bytes_recieved, Number
<1>3. asker.phase = "waiting"
  BY DEF Tell
<1>4. QED
  BY <1>1, <1>2, <1>3 DEF MInv, WireOK

\* The invariant holds before any query.
LEMMA MonitorStart == MonitoredInit => MInv
<1> SUFFICES ASSUME MonitoredInit PROVE MInv
  OBVIOUS
<1>1. IInv /\ CountsOK(sess, monitor)
  BY InitInv, InitCounts DEF MonitoredInit
<1>2. asker = [phase |-> "idle", query |-> NoQuery, told |-> 0]
  BY DEF MonitoredInit, MonitorInit
<1>3. QED
  BY <1>1, <1>2, NoQueryType DEF MInv, WireOK

-----------------------------------------------------------------------------
\* Whatever the sessions do while a datagram or its answer is under way, whatever is lost
\* and however late an answer comes, the number a client prints for a query without flaw
\* was true while it waited, and is 0 for any other.
THEOREM ClientIsToldTheTruth == MonitoredSpec => ToldWasTrue
<1>1. MonitoredInit => MInv
  BY MonitorStart
<1>2. MInv /\ [MonitoredNext]_<<vars, mvars>> => MInv'
  BY MonitorStep
<1>3. MInv => [Tell /\ asker.query.cmd \in {"HIST", "CONC", "BYTES"}
                 => IF asker.query.flaws = {} THEN asker'.told \in seen
                    ELSE asker'.told = 0]_<<vars, mvars>>
  BY TellStep DEF Number
<1>4. QED
  BY <1>1, <1>2, <1>3, PTL DEF MonitoredSpec, ToldWasTrue
===============================================================================
