------------------------------ MODULE Selector ------------------------------
(***************************************************************************)
(* The table of src/src/lib/selector.c: items indexed by descriptor, the   *)
(* prototype sets handed to pselect, and the highest descriptor in use.    *)
(* Every operator takes a struct fdselector s and returns the next one, or *)
(* a record [s, status] where the caller of the C function reads its       *)
(* status.  fds has an item for every valid descriptor; the program has    *)
(* allocated the first fd_size of them.                                    *)
(***************************************************************************)
EXTENDS Integers, FiniteSetsExt

CONSTANTS ItemsMax,     \* ITEMS_MAX_SIZE, the platform's FD_SETSIZE
          Handler,      \* the names of the handlers, as strings
          Data          \* the attachments of items, integers

Fd == 0..ItemsMax - 1
INVALID_FD(fd) == fd \notin Fd

Op        == {"READ", "WRITE"}
FD_UNUSED == -1

\* struct item; the interest OP_NOOP is the empty set.
Item == [fd : Fd \cup {FD_UNUSED}, interest : SUBSET Op, handler : Handler \cup {"NULL"}, data : Data]

UnusedItem == [fd |-> FD_UNUSED, interest |-> {}, handler |-> "NULL", data |-> 0]

\* struct fdselector.
FdSelector == [fds : [Fd -> Item], fd_size : Nat, max_fd : Fd, master_r : SUBSET Fd, master_w : SUBSET Fd]

ITEM_USED(item) == item.fd # FD_UNUSED

UsedFds(s) == {fd \in Fd : ITEM_USED(s.fds[fd])}

-----------------------------------------------------------------------------
\* The next power of two after n, 1UL << bits, as far as the platform goes, and one more.
next_capacity(n) ==
  LET shifted[bits \in 0..n + 1] == IF bits = 0 THEN 1 ELSE 2 * shifted[bits - 1]
      power == Min({shifted[bits] : bits \in {b \in 0..n + 1 : shifted[b] > n}})
  IN  Min({power, ItemsMax}) + 1

\* Room for n items, when there is memory.
ensure_capacity(s, n) ==
  CASE n < s.fd_size -> [s |-> s, status |-> "SUCCESS"]
    [] n >= s.fd_size /\ n > ItemsMax -> [s |-> s, status |-> "MAXFD"]
    [] OTHER -> [s |-> [s EXCEPT !.fd_size = next_capacity(n)], status |-> "SUCCESS"]

selector_new(initial_elements) ==
  ensure_capacity([fds |-> [fd \in Fd |-> UnusedItem], fd_size |-> 0, max_fd |-> 0,
                   master_r |-> {}, master_w |-> {}], initial_elements).s

items_max_fd(s) == Max({0} \cup {fd \in UsedFds(s) : fd <= s.max_fd})

\* FD_CLR in both sets, then FD_SET in those the interest asks for.
items_update_fdset_for_fd(s, fd, interest) ==
  [s EXCEPT !.master_r = (@ \ {fd}) \cup {f \in {fd} : "READ" \in interest},
            !.master_w = (@ \ {fd}) \cup {f \in {fd} : "WRITE" \in interest}]

\* The table is only asked to grow for a descriptor beyond fd_size, not at fd_size.
selector_register(s, fd, handler, interest, data) ==
  LET grown == IF fd > s.fd_size THEN ensure_capacity(s, fd) ELSE [s |-> s, status |-> "SUCCESS"]
      item  == [fd |-> fd, interest |-> interest, handler |-> handler, data |-> data]
      t     == [grown.s EXCEPT !.fds[fd] = item, !.max_fd = IF fd > @ THEN fd ELSE @]
  IN  CASE INVALID_FD(fd) -> [s |-> s, status |-> "IARGS"]
        [] ~INVALID_FD(fd) /\ grown.status # "SUCCESS" -> [s |-> s, status |-> grown.status]
        [] ~INVALID_FD(fd) /\ grown.status = "SUCCESS" /\ ITEM_USED(s.fds[fd]) ->
             [s |-> grown.s, status |-> "FDINUSE"]
        [] OTHER -> [s |-> items_update_fdset_for_fd(t, fd, interest), status |-> "SUCCESS"]

\* Mutant: the item is cleared before its bits, which are then those of FD_UNUSED.
selector_unregister_fd_late(s, fd) ==
  IF INVALID_FD(fd) \/ ~ITEM_USED(s.fds[fd]) THEN s
  ELSE LET t == [s EXCEPT !.fds[fd] = UnusedItem]
       IN  [t EXCEPT !.max_fd = items_max_fd(t)]

\* What handle_close does (close_handler of smtp.c, fd_close_handler of logger.c)
\* touches no item.
selector_unregister_fd(s, fd) ==
  IF INVALID_FD(fd) \/ ~ITEM_USED(s.fds[fd]) THEN s
  ELSE LET t == [items_update_fdset_for_fd(s, fd, {}) EXCEPT !.fds[fd] = UnusedItem]
       IN  [t EXCEPT !.max_fd = items_max_fd(t)]

selector_set_interest(s, fd, interest) ==
  IF INVALID_FD(fd) \/ ~ITEM_USED(s.fds[fd]) THEN [s |-> s, status |-> "IARGS"]
  ELSE [s |-> items_update_fdset_for_fd([s EXCEPT !.fds[fd].interest = interest], fd, interest),
        status |-> "SUCCESS"]

\* The table when the items of fds are unregistered.
Unregistered(s, fds) ==
  LET t == [s EXCEPT !.fds      = [fd \in Fd |-> IF fd \in fds THEN UnusedItem ELSE @[fd]],
                     !.master_r = @ \ fds,
                     !.master_w = @ \ fds]
  IN  [t EXCEPT !.max_fd = items_max_fd(t)]

\* Mutant: the loop ends at the highest descriptor in use, before it.
selector_destroy_short(s) == Unregistered(s, {fd \in UsedFds(s) : fd < s.max_fd})

\* Every item of the array is unregistered; the table is gone.
selector_destroy(s) == Unregistered(s, {fd \in UsedFds(s) : fd < s.fd_size})

-----------------------------------------------------------------------------
\* What pselect is given is what the items ask for, and reaches every item: the
\* prototype sets, max_fd and the table are three copies of one fact, updated in
\* different functions.  Every valid descriptor has its item within the array.
Consistent(s) ==
  /\ \A fd \in Fd : fd < s.fd_size
  /\ \A fd \in Fd : s.fds[fd].fd \in {fd, FD_UNUSED}
  /\ s.master_r = {fd \in UsedFds(s) : "READ" \in s.fds[fd].interest}
  /\ s.master_w = {fd \in UsedFds(s) : "WRITE" \in s.fds[fd].interest}
  /\ \A fd \in UsedFds(s) : fd <= s.max_fd
  /\ s.max_fd = 0 \/ s.max_fd \in UsedFds(s)
=============================================================================
