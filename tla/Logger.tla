------------------------------- MODULE Logger -------------------------------
(***************************************************************************)
(* The log of src/src/lib/logger.c: lines printed into a buffer that is    *)
(* flushed to the log file as far as write() goes, the rest when the       *)
(* selector finds the file writable.                                       *)
(*                                                                         *)
(* The bytes logged are numbered in the order they were kept, modulo       *)
(* Numbers, which is more than a buffer ever holds; file says which number *)
(* the file wants next and whether it has had every earlier one in order.  *)
(* main passes no log stream, so the console has no part here.             *)
(***************************************************************************)
EXTENDS Integers

CONSTANTS MinSize,       \* LOG_MIN_BUFFER_SIZE
          Granularity,   \* LOG_BUFFER_SIZE_GRANULARITY
          MaxSize,       \* LOG_MAX_BUFFER_SIZE
          PrintMax,      \* LOG_BUFFER_MAX_PRINT_LENGTH
          Lines,         \* the lengths of the lines the program logs
          Numbers        \* the bytes that can be told apart

ASSUME LoggerAssumption ==
  /\ Granularity \in Nat \ {0} /\ PrintMax \in Nat \ {0}
  /\ MinSize \in Nat /\ PrintMax < MinSize
  /\ MaxSize \in Nat /\ MinSize <= MaxSize
  /\ Lines \subseteq Nat \ {0}
  /\ Numbers \in Nat /\ Numbers > MaxSize

VARIABLES server,            \* "starting", "running", "destroyed" (the selector is), "ended"
          buffer,            \* the bytes of the array, or NULL
          buffer_start, buffer_length, buffer_capacity,
          log_file_fd,       \* "none" (-1) or "open"
          interest,          \* what the selector watches the file for
          next,              \* the number of the next byte to be kept
          file               \* the log file

memory == <<buffer, buffer_start, buffer_length, buffer_capacity>>
vars   == <<server, memory, log_file_fd, interest, next, file>>

NULL == <<>>
Junk == -1        \* a byte nobody wrote, or a terminator

Byte == 0..Numbers - 1
File == [next : Byte, intact : BOOLEAN]

-----------------------------------------------------------------------------
(* The buffer as a value, for what one print does to it in several steps.  *)

Buf == [data |-> buffer, start |-> buffer_start, length |-> buffer_length, capacity |-> buffer_capacity]

Becomes(b) ==
  /\ buffer' = b.data /\ buffer_start' = b.start
  /\ buffer_length' = b.length /\ buffer_capacity' = b.capacity

\* memmove of the unflushed bytes to the start of the array.
Moved(b) ==
  [b EXCEPT !.data  = [i \in DOMAIN b.data |-> IF i < b.length THEN b.data[b.start + i] ELSE b.data[i]],
            !.start = 0]

\* A multiple of the granularity, at most MaxSize.
RoundedUp(n) ==
  LET size == ((n + Granularity - 1) \div Granularity) * Granularity
  IN  IF size > MaxSize THEN MaxSize ELSE size

\* Mutant: the copy starts at the old array's first byte.
Reallocated_first(b, size) ==
  [data     |-> [i \in 0..size - 1 |-> IF i < b.length THEN b.data[i] ELSE Junk],
   start    |-> 0, length |-> b.length, capacity |-> size]

\* The copy in a new array of size bytes.
Reallocated(b, size) ==
  [data     |-> [i \in 0..size - 1 |-> IF i < b.length THEN b.data[b.start + i] ELSE Junk],
   start    |-> 0, length |-> b.length, capacity |-> size]

\* Mutant: the new array is sized without the bytes that are waiting.
make_buffer_space_short(b, len, refused) ==
  CASE b.length + b.start + len <= b.capacity -> b
    [] b.length + b.start + len > b.capacity /\ refused -> Moved(b)
    [] OTHER -> Reallocated(b, RoundedUp(len))

\* The array is compacted when it is no larger than the line (which it never is), or
\* when malloc refuses a new one; at MaxSize it is left as it is.
make_buffer_space(b, len, refused) ==
  CASE b.length + b.start + len <= b.capacity -> b
    [] b.length + b.start + len > b.capacity /\ b.capacity <= len -> Moved(b)
    [] b.length + b.start + len > b.capacity /\ b.capacity > len /\ b.capacity < MaxSize ->
         IF refused THEN Moved(b) ELSE Reallocated(b, RoundedUp(b.length + len))
    [] OTHER -> b

\* Mutant: the terminator's byte is counted as part of the line.
Kept_all(b, n) ==
  LET maxlen == b.capacity - b.length - b.start IN IF n >= maxlen THEN maxlen ELSE n

\* What logger_post_print counts of a line of n bytes: snprintf had room for maxlen
\* bytes, one of them the terminator's.
Kept(b, n) ==
  LET maxlen == b.capacity - b.length - b.start IN IF n >= maxlen THEN maxlen - 1 ELSE n

\* snprintf at the end of the unflushed bytes.
Printed(b, n) ==
  LET end  == b.start + b.length
      kept == Kept(b, n)
  IN  [b EXCEPT !.data   = [i \in DOMAIN b.data |->
                              CASE i \in end..end + kept - 1 -> (next + i - end) % Numbers
                                [] i = end + kept -> Junk
                                [] OTHER -> b.data[i]],
                !.length = @ + kept]

\* buffer_start and buffer_length after write() took k bytes, or failed with -1.
Flushed(b, k) ==
  IF k > 0 THEN [b EXCEPT !.length = @ - k, !.start = IF b.length = k THEN 0 ELSE @ + k] ELSE b

\* write() takes k bytes of b from the offset from.
Written(b, from, k) ==
  IF k <= 0 THEN file
  ELSE [next   |-> (file.next + k) % Numbers,
        intact |-> file.intact /\ \A i \in 0..k - 1 : b.data[from + i] = (file.next + i) % Numbers]

\* Mutant: the selector is told to wait only when write() took something.
try_flush_buffer_to_file_eager(b, k) ==
  /\ Becomes(Flushed(b, k))
  /\ file' = Written(b, b.start, k)
  /\ interest' = IF k > 0 /\ Flushed(b, k).length > 0 THEN {"WRITE"} ELSE {}

\* write() of what is buffered took k bytes, or failed with -1.
try_flush_buffer_to_file(b, k) ==
  /\ Becomes(Flushed(b, k))
  /\ file' = Written(b, b.start, k)
  /\ interest' = IF Flushed(b, k).length > 0 THEN {"WRITE"} ELSE {}

-----------------------------------------------------------------------------
\* The statics of logger.c, as the logger_init of main without a selector leaves them.
Init ==
  /\ server = "starting"
  /\ buffer = NULL /\ buffer_start = 0 /\ buffer_length = 0 /\ buffer_capacity = 0
  /\ log_file_fd = "none" /\ interest = {}
  /\ next = 0 /\ file = [next |-> 0, intact |-> TRUE]

\* logger_init with the selector: the file cannot be opened, or there is no memory
\* for the buffer (the file is closed and its item stays in the selector), or all is
\* well.
logger_init ==
  /\ server = "starting" /\ server' = "running"
  /\ \/ UNCHANGED <<memory, log_file_fd>>
     \/ /\ Becomes([data |-> NULL, start |-> 0, length |-> 0, capacity |-> MinSize])
        /\ UNCHANGED log_file_fd
     \/ /\ Becomes([data |-> [i \in 0..MinSize - 1 |-> Junk], start |-> 0, length |-> 0,
                    capacity |-> MinSize])
        /\ log_file_fd' = "open"
  /\ UNCHANGED <<interest, next, file>>

logger_is_enabled_for == log_file_fd = "open"

\* logf: make room, print a line of n bytes, keep what fitted and try to flush.
logf(n, refused, k) ==
  LET b == make_buffer_space(Buf, PrintMax, refused)
      p == Printed(b, n)
  IN  /\ server = "running" /\ logger_is_enabled_for
      /\ k <= p.length
      /\ try_flush_buffer_to_file(p, k)
      /\ next' = (next + Kept(b, n)) % Numbers
      /\ UNCHANGED <<server, log_file_fd>>

\* Mutant: what waits is written whenever there is some, from the array's start,
\* after a write that did not finish too.
fd_write_handler_rewind(k) ==
  /\ server = "running" /\ "WRITE" \in interest
  /\ k <= buffer_length
  /\ try_flush_buffer_to_file([Buf EXCEPT !.start = 0], k)
  /\ UNCHANGED <<server, log_file_fd, next>>

\* The selector finds the file writable.
fd_write_handler(k) ==
  /\ server = "running" /\ "WRITE" \in interest
  /\ k <= buffer_length
  /\ try_flush_buffer_to_file(Buf, k)
  /\ UNCHANGED <<server, log_file_fd, next>>

\* selector_destroy unregisters the file, whose fd_close_handler writes what waits,
\* from the start of the array wherever it starts, and closes the file.
fd_close_handler(k) ==
  /\ server = "running" /\ log_file_fd = "open"
  /\ server' = "destroyed"
  /\ k <= buffer_length
  /\ Becomes(Flushed(Buf, k))
  /\ file' = Written(Buf, 0, k)
  /\ log_file_fd' = "none" /\ interest' = {}
  /\ UNCHANGED <<next>>

\* selector_destroy when there is no log file.
NothingToClose ==
  /\ server = "running" /\ log_file_fd = "none"
  /\ server' = "destroyed"
  /\ UNCHANGED <<memory, log_file_fd, interest, next, file>>

\* main calls it when the selector is gone: the file must not be registered any more.
logger_finalize ==
  /\ server = "destroyed" /\ server' = "ended"
  /\ IF buffer # NULL
     THEN Becomes([data |-> NULL, start |-> 0, length |-> 0, capacity |-> 0])
     ELSE UNCHANGED memory
  /\ UNCHANGED <<log_file_fd, interest, next, file>>

Next ==
  \/ logger_init
  \/ \E n \in Lines, refused \in BOOLEAN, k \in -1..MaxSize : logf(n, refused, k)
  \/ \E k \in -1..MaxSize : fd_write_handler(k) \/ fd_close_handler(k)
  \/ NothingToClose \/ logger_finalize

Spec == Init /\ [][Next]_vars

\* A regular file is always writable, so every pselect reports it while it is of
\* interest, and write() takes something unless the disk is full for ever.
FairSpec == Spec /\ WF_vars(\E k \in 1..MaxSize : fd_write_handler(k))

-----------------------------------------------------------------------------
\* The array is within what it was allocated with.
TypeOK ==
  /\ server \in {"starting", "running", "destroyed", "ended"}
  /\ buffer = NULL \/ buffer \in [0..buffer_capacity - 1 -> Byte \cup {Junk}]
  /\ buffer_start \in Nat /\ buffer_length \in Nat /\ buffer_capacity \in 0..MaxSize
  /\ log_file_fd \in {"none", "open"} /\ interest \in SUBSET {"READ", "WRITE"}
  /\ next \in Byte /\ file \in File

\* Nothing is outside its array; and whatever was printed, flushed, moved or
\* reallocated, there is room for one more byte: logger_post_print subtracts one from
\* the room snprintf was given, and with none left would take a byte off the end of
\* the log instead of cutting the line.
RoomForTerminator ==
  /\ TypeOK
  /\ log_file_fd = "open" => buffer # NULL /\ buffer_start + buffer_length < buffer_capacity

\* What waits in the buffer is what the file lacks, in order, through every partial
\* write, move and reallocation: the file and the buffer together are the log.
PendingContinuesFile ==
  log_file_fd = "open" =>
    /\ \A i \in 0..buffer_length - 1 : buffer[buffer_start + i] = (file.next + i) % Numbers
    /\ next = (file.next + buffer_length) % Numbers

\* Bytes that wait are waited for: the selector watches the file exactly while
\* something is buffered, or the log would stop (or the loop would spin).
PendingIsAwaited ==
  log_file_fd = "open" => (interest = {"WRITE"} <=> buffer_length > 0)

\* A line of less than LOG_BUFFER_MAX_PRINT_LENGTH bytes is cut only when malloc
\* refused a larger buffer or the buffer has its largest size.
ShortLinesAreWhole ==
  [][\A n \in Lines, k \in -1..MaxSize :
       n < PrintMax /\ logf(n, FALSE, k) /\ buffer_capacity' < MaxSize =>
         next' = (next + n) % Numbers]_vars

\* The only step that can put wrong bytes in the file is the last flush, when an
\* earlier write had stopped in the middle of the buffer.
GarbledOnlyAtClose ==
  [][file.intact /\ ~file'.intact => log_file_fd' = "none" /\ buffer_start # 0]_vars

\* logger.h:57 says that closing flushes "any remaining logs": what the last flush
\* writes is the log.
ClosedAsLogged == file.intact

\* When the program logs no more, the buffer is drained: no flush that stopped
\* half-way leaves bytes nobody will write.
Drained ==
  \/ []<>(buffer_length = 0)
  \/ []<><<next' # next>>_vars
  \/ <>(server = "destroyed")
=============================================================================
