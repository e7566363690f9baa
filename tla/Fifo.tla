-------------------------------- MODULE Fifo --------------------------------
(***************************************************************************)
(* What a buffer of src/src/lib/buffer.c promises: a bounded queue of      *)
(* bytes.  What is taken out of it is what was put in, in order, once.     *)
(***************************************************************************)
EXTENDS Naturals, Sequences

CONSTANTS Byte, Capacity

VARIABLES queue,    \* the bytes put in and not yet taken out
          taken     \* the bytes the last operation handed to its caller

Init == queue = <<>> /\ taken = <<>>

Put == /\ queue' \in Seq(Byte)
       /\ Len(queue') \in Len(queue)..Capacity
       /\ \A i \in 1..Len(queue) : queue'[i] = queue[i]
       /\ taken' = <<>>

Take == /\ taken' \in Seq(Byte)
        /\ queue' \in Seq(Byte)
        /\ queue = taken' \o queue'

Clear == queue' = <<>> /\ taken' = <<>>

Spec == Init /\ [][Put \/ Take \/ Clear]_<<queue, taken>>
=============================================================================
