----------------------------- MODULE Lifecycle ------------------------------
(***************************************************************************)
(* The server from its start to its end: main() of src/src/main.c around   *)
(* the main loop of Descriptors.  The sockets, the selector and the log    *)
(* are set up, each of which may fail; selector_select is called until a   *)
(* signal has set done; the selector is destroyed before the log is        *)
(* finalized.                                                              *)
(***************************************************************************)
EXTENDS Descriptors

CONSTANT InitialItems      \* what main asks selector_new for

VARIABLES at,      \* where main is
          done,    \* the flag sigterm_handler sets
          log      \* log_file_fd of logger.c, -1 when there is none

all == <<vars, at, done, log>>

Servers == Passive \cup Udp

\* 1024, as many items as a descriptor set has; and four servers do not take them all.
ASSUME LifecycleAssumption == InitialItems = ItemsMax /\ Fd \ Servers # {}

NoSessions == [fd \in KernelFd |-> [turn |-> "none", output |-> 0]]

\* sel is the empty table before it is allocated and after it is freed.
Init ==
  /\ process = "running" /\ at = "sockets" /\ done = FALSE /\ log = -1
  /\ loop = [r |-> {}, w |-> {}] /\ ready = {}
  /\ sel = selector_new(InitialItems)
  /\ open = [fd \in KernelFd |-> "free"]
  /\ sess = NoSessions

-----------------------------------------------------------------------------
(* Up to the loop.                                                         *)

\* socket(), bind(), listen() and selector_fd_set_nio() of each server; main returns
\* at once when a socket option cannot be set.  (What finally closes of the sockets
\* never opened is indeterminate; nothing else is open then.)
OpenSockets ==
  /\ at = "sockets"
  /\ \/ /\ open' = [fd \in KernelFd |-> IF fd \in Servers THEN "socket" ELSE "free"]
        /\ at' \in {"selector", "destroy", "end"}
     \/ \E first \in Servers :
          /\ open' = [fd \in KernelFd |-> IF fd \in Servers /\ fd < first THEN "socket" ELSE "free"]
          /\ at' = "destroy"
  /\ UNCHANGED <<process, loop, sel, sess, ready, done, log>>

\* The servers registered in a new table, up to the first that cannot be.
ServersRegistered ==
  LET handler(fd) == IF fd \in Passive THEN "passive" ELSE "udp"
      after[n \in 0..ItemsMax] ==
        CASE n = 0 -> [s |-> selector_new(InitialItems), status |-> "SUCCESS"]
          [] n > 0 /\ (n - 1 \notin Servers \/ after[n - 1].status # "SUCCESS") -> after[n - 1]
          [] OTHER -> selector_register(after[n - 1].s, n - 1, handler(n - 1), {"READ"}, 0)
  IN  after[ItemsMax]

\* selector_init, selector_new, which may find no memory, and the registrations.
NewSelector ==
  /\ at = "selector"
  /\ \/ UNCHANGED sel /\ at' = "destroy"
     \/ /\ sel' = ServersRegistered.s
        /\ at' = IF ServersRegistered.status = "SUCCESS" THEN "logger" ELSE "destroy"
  /\ UNCHANGED <<process, loop, open, sess, ready, done, log>>

\* logger_init with the selector: no log file, or one that is registered, whatever
\* comes of it, and closed again when there is no memory for a buffer.
StartLogger ==
  /\ at = "logger" /\ at' = "check"
  /\ LET f == Lowest([open |-> open])
         Registered == sel' = selector_register(sel, f, "log", {}, 0).s
     IN  \/ UNCHANGED <<sel, open, log>>
         \/ f < FdLimit /\ Registered /\ log' = f /\ open' = [open EXCEPT ![f] = "file"]
         \/ f < FdLimit /\ Registered /\ UNCHANGED <<open, log>>
  /\ UNCHANGED <<process, loop, sess, ready, done>>

-----------------------------------------------------------------------------
(* The loop.                                                               *)

\* SIGTERM or SIGINT, once its handler is installed.  pselect returns for it; one
\* that comes between the test of done and pselect only sets done.  During an
\* iteration it is as if it came at its end, where done is read.
sigterm_handler ==
  /\ at \in {"selector", "logger", "check", "call", "wait"} /\ ~Iterating /\ ~done
  /\ process = "running"
  /\ done' = TRUE
  /\ at' = IF at = "wait" THEN "check" ELSE at
  /\ UNCHANGED <<vars, log>>

\* while (!done), and the status of the last selector_select.
TestDone ==
  /\ at = "check" /\ ~Iterating /\ process # "aborted"
  /\ at' = IF done \/ process = "stopped" THEN "destroy" ELSE "call"
  /\ UNCHANGED <<vars, done, log>>

\* selector_select up to pselect.
CallSelect ==
  /\ at = "call" /\ at' = "wait"
  /\ UNCHANGED <<vars, done, log>>

\* Mutant: without a timeout pselect returns when it has something to report.
Return_untimed ==
  /\ at = "wait" /\ at' = "check"
  /\ Select
  /\ loop'.r \cup loop'.w # {}
  /\ UNCHANGED <<done, log>>

\* pselect returns, after select_timeout with nothing to report.
Return ==
  /\ at = "wait" /\ at' = "check"
  /\ Select
  /\ UNCHANGED <<done, log>>

Iterate == ((\E fd \in Fd : Visit(fd)) \/ Abort) /\ UNCHANGED <<at, done, log>>

Arrival == at = "wait" /\ (\E fd \in Fd : Arrive(fd)) /\ UNCHANGED <<at, done, log>>

-----------------------------------------------------------------------------
(* finally.                                                                *)

\* selector_destroy; fd_close_handler of the log forgets the file.  Nobody looks at
\* the sessions, or at what has arrived for them, any more.
Destroy ==
  /\ at = "destroy" /\ at' = "finalize"
  /\ LET t == selector_destroy(sel)
     IN  /\ sel' = t
         /\ log' = IF log # -1 /\ ~ITEM_USED(t.fds[log]) THEN -1 ELSE log
         /\ open' = [fd \in KernelFd |-> IF fd = log /\ log' = -1 THEN "free" ELSE open[fd]]
  /\ sess' = NoSessions /\ ready' = {}
  /\ UNCHANGED <<process, loop, done>>

\* The servers' sockets are closed, logger_finalize has nothing left to close, and
\* the kernel closes what the sessions have left open.
Finish ==
  /\ at = "finalize" /\ at' = "end"
  /\ open' = [fd \in KernelFd |-> "free"]
  /\ UNCHANGED <<process, loop, sel, sess, ready, done, log>>

-----------------------------------------------------------------------------
Main ==
  OpenSockets \/ NewSelector \/ StartLogger \/ TestDone \/ CallSelect \/ Return \/ Destroy \/ Finish

Next == Main \/ sigterm_handler \/ Iterate \/ Arrival

Spec == Init /\ [][Next]_all

\* pselect returns, at the latest after select_timeout; and main goes on wherever else
\* it is, for handlers return, which supposes clients that read what they are sent.
\* (The last conjunct is the weak fairness of main's other steps, written out: one of
\* them is enabled, in an iteration too, and each moves at or loop.)
FairSpec ==
  /\ Spec
  /\ WF_all(Return)
  /\ []<>(at \in {"wait", "end"} \/ process = "aborted") \/ []<><<at' # at \/ loop' # loop>>_all

-----------------------------------------------------------------------------
\* A listening socket is given up only by a step that finds every descriptor of the
\* selector in use, or the one of a log file that was closed for want of memory:
\* smtp_passive_accept unregisters it when the client it accepted cannot be
\* registered.  (It stays given up when descriptors are free again.)
DeafOnlyWhenExhausted ==
  [][\A l \in Passive :
       at # "destroy" /\ l \in UsedFds(sel) /\ l \notin UsedFds(sel') =>
         \/ \A fd \in Fd \cap KernelFd : open[fd] # "free"
         \/ \E fd \in UsedFds(sel) : sel.fds[fd].handler = "log" /\ fd # log]_all

\* logger_finalize unregisters a log file that is still open from a selector that has
\* been freed: there never is one, the selector's end having closed it.
LogClosedFirst == at = "finalize" => log = -1

\* A descriptor that stays ready and of interest is dispatched again and again.
EveryReadyServed ==
  \A fd \in Fd \cap KernelFd :
    \/ []<>(fd \notin sel.master_r \cap ready)
    \/ []<><<fd \in loop.r /\ fd \notin loop'.r>>_all
    \/ <>(at \in {"destroy", "end"} \/ process = "aborted")

\* A signal ends the server, wherever in its loop it finds it: also when it comes
\* after the test of done and before pselect.
SigtermStops == done ~> (at = "end" \/ process = "aborted")
=============================================================================
