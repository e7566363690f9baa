----------------------------- MODULE ByteBuffer -----------------------------
(***************************************************************************)
(* The buffer of src/src/lib/buffer.c: a byte array with a position to     *)
(* read from and a position to write to.  Callers also reach the array     *)
(* through the pointers it hands out: they write at most the room reported *)
(* by buffer_write_ptr before they call buffer_write_adv, and advance by   *)
(* at most what buffer_read_ptr reported.                                  *)
(***************************************************************************)
EXTENDS Integers, Sequences

CONSTANTS Byte,      \* uint8_t
          Limit      \* the size of the array, limit - data

ASSUME LimitAssumption == Limit \in Nat

VARIABLES b,         \* struct buffer: the array, and read and write as offsets
          taken      \* the bytes the last call handed to its caller

vars == <<b, taken>>

Buffer == [data : [0..Limit - 1 -> Byte], read : Nat, write : Nat]

-----------------------------------------------------------------------------
buffer_reset(buf) == [buf EXCEPT !.read = 0, !.write = 0]

buffer_can_write(buf) == Limit - buf.write > 0
buffer_can_read(buf)  == buf.write - buf.read > 0

\* The counts reported by buffer_write_ptr and buffer_read_ptr.
Room(buf)   == Limit - buf.write
Unread(buf) == buf.write - buf.read

\* Mutant: the bytes that move down are counted from the start of the array.
buffer_compact_short(buf) ==
  CASE buf.read = 0 -> buf
    [] buf.read # 0 /\ buf.read = buf.write -> buffer_reset(buf)
    [] OTHER -> [data  |-> buf.data, read |-> 0, write |-> Unread(buf)]

buffer_compact(buf) ==
  CASE buf.read = 0 -> buf
    [] buf.read # 0 /\ buf.read = buf.write -> buffer_reset(buf)
    [] OTHER -> [data  |-> [i \in 0..Limit - 1 |->
                              IF i < Unread(buf) THEN buf.data[buf.read + i] ELSE buf.data[i]],
                 read  |-> 0,
                 write |-> Unread(buf)]

\* A negative count, the result of a failed recv or send, changes nothing.
buffer_write_adv(buf, n) == IF n > -1 THEN [buf EXCEPT !.write = @ + n] ELSE buf

\* An emptied buffer is compacted.
buffer_read_adv(buf, n) ==
  LET t == [buf EXCEPT !.read = @ + n]
  IN  CASE n <= -1 -> buf
        [] n > -1 /\ t.read = t.write -> buffer_compact(t)
        [] OTHER -> t

\* buffer_read answers 0 when there is nothing to read.
buffer_read(buf) == IF buffer_can_read(buf) THEN buffer_read_adv(buf, 1) ELSE buf

\* Mutant: a byte is stored whether or not there is room.
buffer_write_blind(buf, c) ==
  buffer_write_adv([buf EXCEPT !.data = [i \in DOMAIN @ |-> IF i = buf.write THEN c ELSE @[i]]], 1)

\* A byte that does not fit is dropped.
buffer_write(buf, c) ==
  IF buffer_can_write(buf) THEN buffer_write_adv([buf EXCEPT !.data[buf.write] = c], 1) ELSE buf

\* The next n unread bytes, as the pointer of buffer_read_ptr shows them.
Peek(buf, n) == [i \in 1..n |-> buf.data[buf.read + i - 1]]

-----------------------------------------------------------------------------
\* buffer_init leaves the array as its caller had it.
Init ==
  /\ b \in {[data |-> d, read |-> 0, write |-> 0] : d \in [0..Limit - 1 -> Byte]}
  /\ taken = <<>>

\* recv or memcpy into buffer_write_ptr, then buffer_write_adv.
Fill(n, bytes) ==
  /\ n <= Room(b)
  /\ b' = buffer_write_adv(
            [b EXCEPT !.data = [i \in DOMAIN @ |-> IF i \in b.write..b.write + n - 1
                                                   THEN bytes[i - b.write] ELSE @[i]]], n)
  /\ taken' = <<>>

\* send from buffer_read_ptr, then buffer_read_adv; -1 when send fails.
Drain(n) ==
  /\ n <= Unread(b)
  /\ taken' = Peek(b, n)
  /\ b' = buffer_read_adv(b, n)

ReadByte == /\ taken' = IF buffer_can_read(b) THEN Peek(b, 1) ELSE <<>>
            /\ b' = buffer_read(b)

WriteByte(c) == b' = buffer_write(b, c) /\ taken' = <<>>

Compact == b' = buffer_compact(b) /\ taken' = <<>>

Reset == b' = buffer_reset(b) /\ taken' = <<>>

Next == \/ \E n \in 0..Limit : \E bytes \in [0..n - 1 -> Byte] : Fill(n, bytes)
        \/ \E n \in -1..Limit : Drain(n)
        \/ \E c \in Byte : WriteByte(c)
        \/ ReadByte \/ Compact \/ Reset

Spec == Init /\ [][Next]_vars

-----------------------------------------------------------------------------
TypeOK == b \in Buffer /\ taken \in Seq(Byte)

\* buffer.h: "R <= W <= limit", which the assertions of buffer.c check.
PositionsInOrder == b.read <= b.write /\ b.write <= Limit

\* An empty buffer offers its whole array.  request_read_handler calls recv only
\* when read_buffer is empty, and takes a result of 0 for the end of the stream:
\* without this it would end a session for lack of room.
EmptyHasAllRoom == ~buffer_can_read(b) => Room(b) = Limit

\* The inductive invariant.
IInv == TypeOK /\ PositionsInOrder /\ EmptyHasAllRoom

\* The buffer is a bounded queue of the bytes between its two positions.
Unseen == Peek(b, Unread(b))

F == INSTANCE Fifo WITH Capacity <- Limit, queue <- Unseen

ImplementsFifo == F!Spec
=============================================================================
