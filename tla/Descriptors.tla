---------------------------- MODULE Descriptors -----------------------------
(***************************************************************************)
(* The main loop of the server and the life of its descriptors: the        *)
(* selector's iteration (src/src/lib/selector.c), what the handlers of     *)
(* smtp.c do to the selector and to the process's descriptors, and the     *)
(* descriptors maildir.c opens.                                            *)
(*                                                                         *)
(* Of a session only whose turn it is matters here (its dialogue is        *)
(* SmtpSession's), so what a client's bytes make of a handler is a choice  *)
(* among the handler's outcomes.  The transformation is off.  Lifecycle    *)
(* puts the loop between the program's start and its end.                  *)
(***************************************************************************)
EXTENDS Integers, FiniteSetsExt

CONSTANTS ItemsMax,      \* ITEMS_MAX_SIZE of the selector
          FdLimit,       \* how many descriptors the process may have open
          Passive,       \* the descriptors of the listening TCP sockets
          Udp,           \* the descriptors of the monitor's sockets
          MaxRcpts       \* recipients of a mail, at most

INSTANCE Selector WITH Handler <- {"passive", "udp", "smtp", "file", "log"}, Data <- Int

KernelFd == 0..FdLimit - 1

ASSUME DescriptorsAssumption ==
  /\ ItemsMax \in Nat \ {0} /\ FdLimit \in Nat /\ MaxRcpts \in Nat
  /\ Passive \cup Udp \subseteq Fd \cap KernelFd /\ Passive \cap Udp = {}

VARIABLES process,    \* "running", "stopped" (selector_select has failed) or "aborted"
          loop,       \* what pselect reported and handle_iteration has yet to dispatch
          sel,        \* the selector's table
          open,       \* the process's open descriptors, by what they are
          sess,       \* the sessions, by the descriptor of their socket
          ready       \* the descriptors the kernel has something to read on

vars == <<process, loop, sel, open, sess, ready>>

\* Whose turn it is in a session: its client's ("command", "body"), its own to send a
\* reply or the 354 that lets the body come, or the disk's.
Turn == {"none", "reply", "go ahead", "command", "body", "disk", "error", "gone"}

\* output_fd: -1 when open() failed; 0 when there is none.
Session == [turn : Turn, output : -1..FdLimit - 1]

NewSession == [turn |-> "reply", output |-> 0]

\* The part of the state the handlers change, as one value.
World == [sel : FdSelector, open : [KernelFd -> {"free", "socket", "file", "leaked"}],
          sess : [KernelFd -> Session]]

-----------------------------------------------------------------------------
(* The kernel gives the lowest free descriptor, FdLimit standing for none  *)
(* (EMFILE).                                                               *)
Lowest(w) == Min({fd \in KernelFd : w.open[fd] = "free"} \cup {FdLimit})

Exhausted(w) == Lowest(w) = FdLimit

-----------------------------------------------------------------------------
(* The handlers of a session.                                              *)

\* smtp_done: the socket is unregistered and never closed.
smtp_done(w, fd) ==
  [w EXCEPT !.sel = selector_unregister_fd(@, fd), !.sess[fd].turn = "gone"]

SetInterest(w, fd, interest) == [w EXCEPT !.sel = selector_set_interest(@, fd, interest).s]

\* request_data_init: open the temporary file, register it whatever came of it.
request_data_init(w, fd) ==
  LET f == Lowest(w)
  IN  IF Exhausted(w)
      THEN [w EXCEPT !.sess[fd] = [turn |-> "body", output |-> -1]]
      ELSE [w EXCEPT !.sess[fd] = [turn |-> "body", output |-> f],
                     !.open[f]  = "file",
                     !.sel      = selector_register(@, f, "file", {}, fd).s]

\* request_actual_read in READ and ADMIN: more is needed, there is a reply, or QUIT.
ReadCommand(w, fd) ==
  {w, smtp_done(w, fd)} \cup
  {[SetInterest(w, fd, {"WRITE"}) EXCEPT !.sess[fd].turn = turn] : turn \in {"reply", "go ahead"}}

\* The same in DATA: the output file's turn, if it could be opened and registered.
ReadBody(w, fd) ==
  LET out == selector_set_interest(SetInterest(w, fd, {}).sel, w.sess[fd].output, {"WRITE"})
  IN  IF out.status = "SUCCESS"
      THEN {[w EXCEPT !.sel = out.s, !.sess[fd].turn = "disk"]}
      ELSE {smtp_done(w, fd)}

request_actual_read(w, fd) ==
  IF w.sess[fd].turn = "body" THEN ReadBody(w, fd) ELSE ReadCommand(w, fd)

\* read_handler of a readable socket: recv may also find the end of the stream.
read_handler(w, fd) == request_actual_read(w, fd) \cup {smtp_done(w, fd)}

\* write_handler: send() fails, or the reply goes and what is buffered is read.
write_handler(w, fd) ==
  LET t == SetInterest(w, fd, {"READ"})
      u == IF w.sess[fd].turn = "go ahead" THEN request_data_init(t, fd)
           ELSE [t EXCEPT !.sess[fd].turn = "command"]
  IN  {smtp_done(w, fd), u} \cup request_actual_read(u, fd)

-----------------------------------------------------------------------------
(* The handler of an output file.                                          *)

\* copy_temp_to_new_single opens the new file, then the temporary one, copies, and
\* closes only the new one; when the second open() or the copy fails it closes none.
Copied(w) ==
  LET v == [w EXCEPT !.open[Lowest(w)] = "leaked"]
      u == [v EXCEPT !.open[Lowest(v)] = "leaked"]
  IN  CASE Exhausted(w) -> {w}
        [] ~Exhausted(w) /\ Exhausted(v) -> {v}
        [] OTHER -> {u, [u EXCEPT !.open[Lowest(w)] = "free"]}

CopiedToAll(w, rcpts) ==
  LET after[k \in 0..rcpts] == IF k = 0 THEN {w} ELSE UNION {Copied(v) : v \in after[k - 1]}
  IN  after[rcpts]

\* Mutant: the file is closed but stays registered.
Finished_registered(w, fd, f) ==
  [SetInterest(w, fd, {"WRITE"}) EXCEPT !.open[f] = "free",
     !.sess[fd] = [turn |-> "reply", output |-> 0]]

\* write_file_handler at the end of the body, after the copies.
Finished(w, fd, f) ==
  LET t == SetInterest(w, fd, {"WRITE"})
  IN  [t EXCEPT !.sel = selector_unregister_fd(@, f),
                !.open[f] = "free",
                !.sess[fd] = [turn |-> "reply", output |-> 0]]

\* Mutant: the output file keeps OP_WRITE when more of the body is to come.
MoreBody_armed(w, fd, f) == request_data_init(SetInterest(w, fd, {"READ"}), fd)

\* write_file_handler when more of the body is to come: back to DATA, whose
\* arrival opens the file again and forgets f.
MoreBody(w, fd, f) ==
  request_data_init(SetInterest(SetInterest(w, f, {}), fd, {"READ"}), fd)

\* write_file dispatched for f: write() may fail, which leaves f armed.
write_file(w, f) ==
  LET fd == w.sel.fds[f].data
  IN  {[w EXCEPT !.sess[fd].turn = "error"], MoreBody(w, fd, f)}
      \cup {Finished(v, fd, w.sess[fd].output) :
              v \in UNION {CopiedToAll(SetInterest(w, f, {}), n) : n \in 1..MaxRcpts}}

-----------------------------------------------------------------------------
\* Mutant: a client that finds no memory costs the server its listening socket.
smtp_passive_accept_strict(w, l) ==
  LET f == Lowest(w)
      r == selector_register(w.sel, f, "smtp", {"WRITE"}, f)
      v == [w EXCEPT !.open[f] = "socket"]
  IN  IF Exhausted(w) THEN {w}
      ELSE {[v EXCEPT !.sel = selector_unregister_fd(@, l)],
            IF r.status = "SUCCESS"
            THEN [v EXCEPT !.sel = r.s, !.sess[f] = NewSession]
            ELSE [v EXCEPT !.sel = selector_unregister_fd(@, l)]}

\* smtp_passive_accept for the listening socket l: accept() fails when descriptors
\* are exhausted, calloc() may fail, and when selector_register does, smtp_done
\* unregisters l.
smtp_passive_accept(w, l) ==
  LET f == Lowest(w)
      r == selector_register(w.sel, f, "smtp", {"WRITE"}, f)
      v == [w EXCEPT !.open[f] = "socket"]
  IN  IF Exhausted(w) THEN {w}
      ELSE {v, IF r.status = "SUCCESS"
               THEN [v EXCEPT !.sel = r.s, !.sess[f] = NewSession]
               ELSE [v EXCEPT !.sel = selector_unregister_fd(@, l)]}

handle_read(w, fd) ==
  CASE w.sel.fds[fd].handler = "passive" -> smtp_passive_accept(w, fd)
    [] w.sel.fds[fd].handler = "udp"     -> {w}
    [] w.sel.fds[fd].handler = "smtp"    -> read_handler(w, fd)

handle_write(w, fd) ==
  CASE w.sel.fds[fd].handler = "smtp" -> write_handler(w, fd)
    [] w.sel.fds[fd].handler = "file" -> write_file(w, fd)

-----------------------------------------------------------------------------
Iterating == loop.r \cup loop.w # {}

\* A client connects, sends or closes; a query reaches the monitor.  Only what is
\* there when pselect is called counts, and only where somebody waits for it: what
\* arrives at another moment is as if it arrived later.
Arrive(fd) ==
  /\ ~Iterating /\ fd \in sel.master_r \ ready
  /\ ready' = ready \cup {fd}
  /\ UNCHANGED <<process, loop, sel, open, sess>>

\* Mutant: pselect and the iteration stop short of the highest descriptor.
nfds_short(s) == 0..s.max_fd - 1

\* The descriptors pselect and the iteration look at.
nfds(s) == 0..s.max_fd

\* selector_select up to handle_iteration.  Files are always writable, sockets when
\* the peer reads; a closed descriptor is EBADF, which ends the main loop.
Select ==
  /\ process = "running" /\ ~Iterating
  /\ \E w \in SUBSET {fd \in sel.master_w : open[fd] = "socket"} :
       loop' = [r |-> sel.master_r \cap ready \cap nfds(sel),
                w |-> (w \cup {fd \in sel.master_w : open[fd] = "file"}) \cap nfds(sel)]
  /\ process' = IF \E fd \in (sel.master_r \cup sel.master_w) \cap nfds(sel) : open[fd] = "free"
                THEN "stopped" ELSE process
  /\ UNCHANGED <<sel, open, sess, ready>>

\* handle_iteration goes up the items; those pselect did not report are passed over.
Current == Min(loop.r \cup loop.w)

\* Is the item of fd dispatched for op, given the set pselect left?
Dispatches(s, fd, op, slave) == fd \in slave /\ op \in s.fds[fd].interest

\* One item: its read handler, then its write handler, each by the interest the item
\* has at that moment.
Visited(w, fd) ==
  LET v == IF Dispatches(w.sel, fd, "READ", loop.r) THEN handle_read(w, fd) ELSE {w}
  IN  UNION {IF Dispatches(u.sel, fd, "WRITE", loop.w) THEN handle_write(u, fd) ELSE {u} : u \in v}

\* stm_handler_write abort()s in the ERROR state a failed write() leaves.
Aborts(fd) == Dispatches(sel, fd, "WRITE", loop.w) /\ sel.fds[fd].handler = "file"
                /\ sess[sel.fds[fd].data].turn = "error"

\* A read handler takes some or all of what there is to read.
Visit(fd) ==
  /\ process = "running" /\ Iterating /\ fd = Current /\ ~Aborts(fd)
  /\ \E w \in Visited([sel |-> sel, open |-> open, sess |-> sess], fd) :
       sel' = w.sel /\ open' = w.open /\ sess' = w.sess
  /\ loop' = [r |-> loop.r \ {fd}, w |-> loop.w \ {fd}]
  /\ ready' \in {ready} \cup {ready \ {f} : f \in {fd} \cap loop.r}
  /\ UNCHANGED process

Abort ==
  /\ process = "running" /\ Iterating /\ Aborts(Current)
  /\ process' = "aborted"
  /\ UNCHANGED <<loop, sel, open, sess, ready>>

-----------------------------------------------------------------------------
TypeOK ==
  /\ process \in {"running", "stopped", "aborted"}
  /\ loop \in [r : SUBSET Fd, w : SUBSET Fd]
  /\ [sel |-> sel, open |-> open, sess |-> sess] \in World
  /\ ready \subseteq KernelFd

\* The selector's table, its prototype sets and max_fd agree after every handler.
TableConsistent == TypeOK /\ Consistent(sel)

\* Every registered item names an open descriptor: pselect never reports EBADF, for
\* which selector_select returns SELECTOR_IO and main leaves its loop.  (The item of
\* a log file that was closed for want of memory is never of interest.)
RegisteredIsOpen ==
  /\ \A fd \in UsedFds(sel) : open[fd] # "free" \/ sel.fds[fd].handler = "log"
  /\ sel.master_r \cup sel.master_w \subseteq {fd \in Fd : open[fd] # "free"}
  /\ process # "stopped"

\* write_file_handler unregisters and closes data->output_fd, the descriptor it was
\* dispatched for being key->fd: they are the same for every armed file, however
\* many files earlier chunks of the body left behind.
ArmedIsCurrent ==
  \A f \in UsedFds(sel) :
    LET fd == sel.fds[f].data
    IN  sel.fds[f].handler = "file" /\ "WRITE" \in sel.fds[f].interest =>
          /\ sess[fd].output = f
          /\ sess[fd].turn \in {"disk", "error"}
          /\ fd \in UsedFds(sel)
=============================================================================
