-------------------------- MODULE ByteBufferProofs --------------------------
(***************************************************************************)
(* Proofs about the buffer, for every size and alphabet: its positions     *)
(* stay in order, an emptied buffer is compacted, and it implements the    *)
(* bounded queue.                                                          *)
(***************************************************************************)
EXTENDS ByteBuffer, SequenceTheorems, TLAPS

\* The facts IInv says about a buffer, of any buffer record.
Sound(buf) ==
  /\ buf \in Buffer
  /\ buf.read <= buf.write /\ buf.write <= Limit
  /\ buf.read = buf.write => buf.write = 0

\* What a caller sees of a sound buffer is a sequence of bytes.
LEMMA PeekType ==
  ASSUME NEW buf, Sound(buf), NEW n \in -1..Unread(buf)
  PROVE  Peek(buf, n) \in Seq(Byte) /\ Len(Peek(buf, n)) = IF n = -1 THEN 0 ELSE n
<1> USE LimitAssumption
<1>1. \A i \in 1..n : buf.read + i - 1 \in 0..Limit - 1
  BY DEF Sound, Buffer, Unread
<1>2. \A i \in 1..n : buf.data[buf.read + i - 1] \in Byte
  BY <1>1 DEF Sound, Buffer
<1>3. CASE n = -1
  <2>1. Peek(buf, n) = <<>>
    BY <1>3 DEF Peek
  <2> QED BY <2>1, <1>3
<1>4. CASE n # -1
  <2>1. n \in Nat
    BY <1>4 DEF Sound, Buffer, Unread
  <2>2. Peek(buf, n) \in [1..n -> Byte]
    BY <1>2 DEF Peek
  <2> QED BY <2>1, <2>2, <1>4
<1> QED BY <1>3, <1>4

\* Compaction keeps the unread bytes and moves them to the start.
LEMMA CompactSound ==
  ASSUME NEW buf \in Buffer, buf.read <= buf.write, buf.write <= Limit
  PROVE  /\ Sound(buffer_compact(buf))
         /\ Unread(buffer_compact(buf)) = Unread(buf)
         /\ Peek(buffer_compact(buf), Unread(buf)) = Peek(buf, Unread(buf))
<1> USE LimitAssumption
<1>a. PICK c : c = buffer_compact(buf)
  OBVIOUS
<1>0. buf.read \in Nat /\ buf.write \in Nat /\ buf.data \in [0..Limit - 1 -> Byte]
  BY DEF Buffer
<1> SUFFICES Sound(c) /\ Unread(c) = Unread(buf) /\ Peek(c, Unread(buf)) = Peek(buf, Unread(buf))
  BY <1>a
<1>1. CASE buf.read = 0
  <2>1. c = buf
    BY <1>a, <1>1 DEF buffer_compact
  <2> QED BY <2>1, <1>0, <1>1 DEF Sound
<1>2. CASE buf.read # 0 /\ buf.read = buf.write
  <2>1. c = [buf EXCEPT !.read = 0, !.write = 0]
    BY <1>a, <1>2 DEF buffer_compact, buffer_reset
  <2>2. c \in Buffer /\ c.read = 0 /\ c.write = 0
    BY <2>1 DEF Buffer
  <2>3. Peek(c, 0) = <<>> /\ Peek(buf, 0) = <<>>
    BY DEF Peek
  <2>4. Unread(buf) = 0
    BY <1>0, <1>2 DEF Unread
  <2> QED BY <2>2, <2>3, <2>4, <1>0, <1>2 DEF Sound, Unread
<1>3. CASE buf.read # 0 /\ buf.read # buf.write
  <2>1. PICK d : d = [i \in 0..Limit - 1 |->
                        IF i < Unread(buf) THEN buf.data[buf.read + i] ELSE buf.data[i]]
    OBVIOUS
  <2>2. c = [data |-> d, read |-> 0, write |-> Unread(buf)]
    BY <1>a, <1>3, <2>1 DEF buffer_compact
  <2>3. d \in [0..Limit - 1 -> Byte]
    BY <2>1, <1>0 DEF Unread
  <2>4. c.data = d /\ c.read = 0 /\ c.write = Unread(buf) /\ c \in Buffer
    BY <2>2, <2>3, <1>0 DEF Buffer, Unread
  <2>5. \A i \in 1..Unread(buf) : d[i - 1] = buf.data[buf.read + i - 1]
    BY <2>1, <1>0 DEF Unread
  <2>6. \A i \in 1..Unread(buf) : c.data[c.read + i - 1] = buf.data[buf.read + i - 1]
    BY <2>4, <2>5, <1>0 DEF Unread
  <2>7. Peek(c, Unread(buf)) = Peek(buf, Unread(buf))
    BY <2>6 DEF Peek
  <2> QED BY <2>4, <2>7, <1>0, <1>3 DEF Sound, Unread
<1> QED BY <1>1, <1>2, <1>3

\* buffer_read_adv drops the first n unread bytes and nothing else.
LEMMA ReadAdvSound ==
  ASSUME NEW buf, Sound(buf), NEW n \in 0..Unread(buf)
  PROVE  /\ Sound(buffer_read_adv(buf, n))
         /\ Unread(buffer_read_adv(buf, n)) = Unread(buf) - n
         /\ Peek(buf, Unread(buf)) =
              Peek(buf, n) \o Peek(buffer_read_adv(buf, n), Unread(buf) - n)
<1> USE LimitAssumption
<1> DEFINE t == [buf EXCEPT !.read = @ + n]
           r == buffer_read_adv(buf, n)
           m == Unread(buf) - n
<1>0. /\ buf \in Buffer /\ buf.read \in Nat /\ buf.write \in Nat /\ n \in Nat
      /\ buf.read <= buf.write /\ buf.write <= Limit /\ m \in Nat
  BY DEF Sound, Buffer, Unread
<1>1. t \in Buffer /\ t.read = buf.read + n /\ t.write = buf.write /\ t.data = buf.data
  BY <1>0 DEF Buffer
<1>2. t.read <= t.write /\ Unread(t) = m
  BY <1>0, <1>1 DEF Unread
<1> HIDE DEF t
<1>3. Sound(r) /\ Unread(r) = m /\ Peek(r, m) = Peek(t, m)
  <2>1. CASE t.read = t.write
    <3>1. r = buffer_compact(t)
      BY <2>1, <1>0 DEF buffer_read_adv, t
    <3> QED BY <3>1, <1>0, <1>1, <1>2, CompactSound
  <2>2. CASE t.read # t.write
    <3>1. r = t
      BY <2>2, <1>0 DEF buffer_read_adv, t
    <3> QED BY <3>1, <2>2, <1>0, <1>1, <1>2 DEF Sound
  <2> QED BY <2>1, <2>2
<1>4. Peek(buf, Unread(buf)) = Peek(buf, n) \o Peek(t, m)
  <2>1. \A i \in 1..m : buf.data[buf.read + (n + i) - 1] = t.data[t.read + i - 1]
    BY <1>0, <1>1
  <2>2. /\ Peek(buf, n) \in Seq(Byte) /\ Len(Peek(buf, n)) = n
        /\ Peek(buf, Unread(buf)) \in Seq(Byte) /\ Len(Peek(buf, Unread(buf))) = n + m
    BY PeekType, <1>0 DEF Unread
  <2>3. Peek(t, m) \in Seq(Byte) /\ Len(Peek(t, m)) = m
    <3>1. \A i \in 1..m : buf.read + (n + i) - 1 \in 0..Limit - 1
      BY <1>0 DEF Unread
    <3>2. \A i \in 1..m : t.data[t.read + i - 1] \in Byte
      BY <3>1, <2>1, <1>0 DEF Buffer
    <3>3. Peek(t, m) \in [1..m -> Byte]
      BY <3>2 DEF Peek
    <3> QED BY <3>3, <1>0
  <2>4. \A i \in 1..n + m : Peek(buf, Unread(buf))[i] = (Peek(buf, n) \o Peek(t, m))[i]
    <3> TAKE i \in 1..n + m
    <3>1. CASE i <= n
      BY <3>1, <2>2, <2>3, <1>0 DEF Peek, Unread
    <3>2. CASE i > n
      <4>1. i - n \in 1..m
        BY <3>2, <1>0
      <4>2. (Peek(buf, n) \o Peek(t, m))[i] = Peek(t, m)[i - n]
        BY <3>2, <2>2, <2>3, <1>0, ConcatProperties
      <4>3. buf.data[buf.read + (n + (i - n)) - 1] = t.data[t.read + (i - n) - 1]
        BY <4>1, <2>1
      <4>4. n + (i - n) = i
        BY <1>0
      <4> QED BY <4>1, <4>2, <4>3, <4>4, <1>0 DEF Peek, Unread
    <3>3. i <= n \/ i > n
      BY <1>0
    <3> QED BY <3>1, <3>2, <3>3
  <2>5. /\ Peek(buf, n) \o Peek(t, m) \in Seq(Byte)
        /\ Len(Peek(buf, n) \o Peek(t, m)) = n + m
    BY <2>2, <2>3, ConcatProperties
  <2>6. \A i \in 1..Len(Peek(buf, Unread(buf))) :
          Peek(buf, Unread(buf))[i] = (Peek(buf, n) \o Peek(t, m))[i]
    BY <2>2, <2>4
  <2> QED BY <2>2, <2>5, <2>6, SeqEqual
<1> QED BY <1>3, <1>4

-----------------------------------------------------------------------------
\* The buffer after n bytes were written into its array.
Filled(buf, d, n) == [buf EXCEPT !.data = d, !.write = @ + n]

\* Filling appends what the caller wrote.
LEMMA FillSound ==
  ASSUME NEW buf, Sound(buf), NEW n \in 0..Room(buf), NEW d \in [0..Limit - 1 -> Byte],
         \A i \in 0..buf.write - 1 : d[i] = buf.data[i]
  PROVE  /\ Sound(Filled(buf, d, n))
         /\ Unread(Filled(buf, d, n)) = Unread(buf) + n
         /\ \A i \in 1..Unread(buf) :
              Peek(Filled(buf, d, n), Unread(buf) + n)[i] = Peek(buf, Unread(buf))[i]
<1> USE LimitAssumption
<1>a. PICK w : w = Filled(buf, d, n)
  OBVIOUS
<1>0. buf \in Buffer /\ buf.read \in Nat /\ buf.write \in Nat /\ n \in Nat
  BY DEF Sound, Buffer, Room
<1>b. w = [data |-> d, read |-> buf.read, write |-> buf.write + n]
  BY <1>a, <1>0 DEF Buffer, Filled
<1>1. w \in Buffer /\ w.read = buf.read /\ w.write = buf.write + n /\ w.data = d
  BY <1>b, <1>0 DEF Buffer
<1>2. Sound(w)
  BY <1>0, <1>1 DEF Sound, Room
<1>3. Unread(w) = Unread(buf) + n
  BY <1>0, <1>1 DEF Unread
<1>4. \A i \in 1..Unread(buf) : d[w.read + i - 1] = buf.data[buf.read + i - 1]
  BY <1>0, <1>1 DEF Unread
<1>5. ASSUME NEW i \in 1..Unread(buf)
      PROVE  Peek(w, Unread(buf) + n)[i] = Peek(buf, Unread(buf))[i]
  <2>1. i \in 1..Unread(buf) + n
    BY <1>0 DEF Unread, Sound
  <2> QED BY <1>1, <1>4, <2>1 DEF Peek
<1> QED BY <1>a, <1>2, <1>3, <1>5

\* The invariant is about the record b, and says of it what Sound says.
LEMMA InvSound == IInv <=> Sound(b) /\ taken \in Seq(Byte)
<1> SUFFICES ASSUME b \in Buffer
             PROVE  (PositionsInOrder /\ EmptyHasAllRoom) <=> Sound(b)
  BY DEF IInv, TypeOK, Sound
<1> QED BY LimitAssumption DEF Buffer, PositionsInOrder, EmptyHasAllRoom, Sound,
           buffer_can_read, Room

\* One step: the invariant is kept, and the unread bytes change as a queue's would.
LEMMA StepInv ==
  ASSUME IInv, [Next]_vars
  PROVE  IInv' /\ [F!Put \/ F!Take \/ F!Clear]_<<Unseen, taken>>
<1> USE LimitAssumption
<1>0. Sound(b) /\ taken \in Seq(Byte) /\ b \in Buffer /\ b.read \in Nat /\ b.write \in Nat
      /\ b.read <= b.write /\ b.write <= Limit /\ Unread(b) \in Nat
  BY InvSound DEF Sound, Buffer, Unread
<1>1. Unseen \in Seq(Byte) /\ Len(Unseen) = Unread(b)
  BY <1>0, PeekType DEF Unseen
<1>2. ASSUME Sound(b'), taken' \in Seq(Byte)
      PROVE  IInv' /\ Unseen' \in Seq(Byte) /\ Len(Unseen') = Unread(b')
  <2>1. Unread(b') \in -1..Unread(b') /\ Unread(b') \in Nat
    BY <1>2 DEF Sound, Buffer, Unread
  <2>2. Unseen' \in Seq(Byte) /\ Len(Unseen') = Unread(b')
    BY <1>2, <2>1, PeekType DEF Unseen
  <2>3. IInv'
    BY <1>2 DEF IInv, TypeOK, PositionsInOrder, EmptyHasAllRoom, Sound, Buffer,
                buffer_can_read, Room
  <2> QED BY <2>2, <2>3
<1>3. ASSUME Sound(b'), taken' = <<>>, Unread(b') \in Unread(b)..Limit,
             \A i \in 1..Unread(b) : Unseen'[i] = Unseen[i]
      PROVE  IInv' /\ F!Put
  <2>1. taken' \in Seq(Byte)
    BY <1>3
  <2>2. IInv' /\ Unseen' \in Seq(Byte) /\ Len(Unseen') = Unread(b')
    BY <1>2, <1>3, <2>1
  <2> QED BY <2>2, <1>1, <1>3 DEF F!Put
<1>4. ASSUME NEW n \in 0..Unread(b), b' = buffer_read_adv(b, n), taken' = Peek(b, n)
      PROVE  IInv' /\ F!Take
  <2>1. Sound(b') /\ Unread(b') = Unread(b) - n
        /\ Peek(b, Unread(b)) = Peek(b, n) \o Peek(b', Unread(b) - n)
    BY <1>0, <1>4, ReadAdvSound
  <2>2. taken' \in Seq(Byte)
    BY <1>0, <1>4, PeekType
  <2>3. IInv' /\ Unseen' \in Seq(Byte)
    BY <1>2, <2>1, <2>2
  <2>4. Unseen = taken' \o Unseen'
    BY <2>1, <1>4 DEF Unseen
  <2> QED BY <2>2, <2>3, <2>4 DEF F!Take
<1>5. ASSUME b' = b, taken' = <<>>
      PROVE  IInv' /\ F!Put
  <2>1. Unseen' = Unseen /\ Sound(b') /\ Unread(b') \in Unread(b)..Limit
    BY <1>0, <1>5 DEF Unseen, Unread
  <2> QED BY <2>1, <1>3, <1>5
<1>6. ASSUME NEW n \in 0..Limit, NEW bytes \in [0..n - 1 -> Byte], Fill(n, bytes)
      PROVE  IInv' /\ F!Put
  <2>1. PICK d : d = [i \in DOMAIN b.data |-> IF i \in b.write..b.write + n - 1
                                              THEN bytes[i - b.write] ELSE b.data[i]]
    OBVIOUS
  <2>2. d \in [0..Limit - 1 -> Byte] /\ \A i \in 0..b.write - 1 : d[i] = b.data[i]
    BY <2>1, <1>0 DEF Buffer
  <2>3. b' = Filled(b, d, n) /\ n \in 0..Room(b) /\ taken' = <<>>
    BY <2>1, <1>0, <1>6 DEF Fill, Filled, buffer_write_adv, Buffer, Room
  <2>4. Sound(b') /\ Unread(b') = Unread(b) + n
        /\ \A i \in 1..Unread(b) : Peek(b', Unread(b) + n)[i] = Peek(b, Unread(b))[i]
    BY <2>2, <2>3, <1>0, FillSound
  <2>5. Unread(b') \in Unread(b)..Limit
    BY <2>3, <2>4, <1>0 DEF Room, Unread
  <2>6. \A i \in 1..Unread(b) : Unseen'[i] = Unseen[i]
    BY <2>4 DEF Unseen
  <2> QED BY <2>3, <2>4, <2>5, <2>6, <1>3
<1>7. ASSUME NEW n \in -1..Limit, Drain(n)
      PROVE  IInv' /\ (F!Take \/ F!Put)
  <2>1. CASE n = -1
    <3>1. b' = b /\ taken' = <<>>
      BY <2>1, <1>7 DEF Drain, Peek, buffer_read_adv
    <3> QED BY <3>1, <1>5
  <2>2. CASE n # -1
    <3>1. n \in 0..Unread(b) /\ b' = buffer_read_adv(b, n) /\ taken' = Peek(b, n)
      BY <2>2, <1>0, <1>7 DEF Drain
    <3> QED BY <3>1, <1>4
  <2> QED BY <2>1, <2>2
<1>8. ASSUME ReadByte
      PROVE  IInv' /\ (F!Take \/ F!Put)
  <2>1. CASE buffer_can_read(b)
    <3>1. 1 \in 0..Unread(b) /\ b' = buffer_read_adv(b, 1) /\ taken' = Peek(b, 1)
      BY <2>1, <1>0, <1>8 DEF ReadByte, buffer_read, buffer_can_read, Unread
    <3> QED BY <3>1, <1>4
  <2>2. CASE ~buffer_can_read(b)
    BY <2>2, <1>5, <1>8 DEF ReadByte, buffer_read
  <2> QED BY <2>1, <2>2
<1>9. ASSUME NEW c \in Byte, WriteByte(c)
      PROVE  IInv' /\ F!Put
  <2>1. CASE buffer_can_write(b)
    <3>1. PICK d : d = [b.data EXCEPT ![b.write] = c]
      OBVIOUS
    <3>2. d \in [0..Limit - 1 -> Byte] /\ \A i \in 0..b.write - 1 : d[i] = b.data[i]
      BY <2>1, <3>1, <1>0 DEF Buffer, buffer_can_write
    <3>3. b' = Filled(b, d, 1) /\ 1 \in 0..Room(b) /\ taken' = <<>>
      BY <2>1, <3>1, <1>0, <1>9
         DEF WriteByte, Filled, buffer_write, buffer_write_adv, buffer_can_write, Buffer, Room
    <3>4. Sound(b') /\ Unread(b') = Unread(b) + 1
          /\ \A i \in 1..Unread(b) : Peek(b', Unread(b) + 1)[i] = Peek(b, Unread(b))[i]
      BY <3>2, <3>3, <1>0, FillSound
    <3>5. Unread(b') \in Unread(b)..Limit
      BY <3>3, <3>4, <1>0 DEF Room, Unread
    <3>6. \A i \in 1..Unread(b) : Unseen'[i] = Unseen[i]
      BY <3>4 DEF Unseen
    <3> QED BY <3>3, <3>4, <3>5, <3>6, <1>3
  <2>2. CASE ~buffer_can_write(b)
    BY <2>2, <1>5, <1>9 DEF WriteByte, buffer_write
  <2> QED BY <2>1, <2>2
<1>10. ASSUME Compact
       PROVE  IInv' /\ F!Put
  <2>1. Sound(b') /\ Unread(b') = Unread(b) /\ Peek(b', Unread(b)) = Peek(b, Unread(b))
        /\ taken' = <<>>
    BY <1>0, <1>10, CompactSound DEF Compact
  <2>2. Unseen' = Unseen
    BY <2>1 DEF Unseen
  <2>3. Unread(b') \in Unread(b)..Limit
    BY <2>1, <1>0 DEF Unread
  <2> QED BY <2>1, <2>2, <2>3, <1>3
<1>11. ASSUME Reset
       PROVE  IInv' /\ F!Clear
  <2>1. b' = [data |-> b.data, read |-> 0, write |-> 0] /\ taken' = <<>>
    BY <1>0, <1>11 DEF Reset, buffer_reset, Buffer
  <2>2. Sound(b') /\ Unread(b') = 0
    BY <2>1, <1>0 DEF Sound, Buffer, Unread
  <2>3. IInv'
    BY <2>1, <2>2, <1>2
  <2>4. Unseen' = <<>>
    BY <2>2 DEF Unseen, Peek
  <2> QED BY <2>1, <2>3, <2>4 DEF F!Clear
<1>12. CASE UNCHANGED vars
  <2>1. b' = b /\ taken' = taken
    BY <1>12 DEF vars
  <2>2. Unseen' = Unseen
    BY <2>1 DEF Unseen, Peek, Unread
  <2>3. IInv'
    BY <2>1, <1>0, <1>2
  <2> QED BY <2>1, <2>2, <2>3
<1> QED BY <1>6, <1>7, <1>8, <1>9, <1>10, <1>11, <1>12 DEF Next

\* The buffer starts empty, and so does the queue it implements.
LEMMA InitInv == Init => IInv /\ F!Init
<1> SUFFICES ASSUME Init PROVE IInv /\ F!Init
  OBVIOUS
<1>1. b \in Buffer /\ b.read = 0 /\ b.write = 0 /\ taken = <<>>
  BY DEF Init, Buffer
<1>2. Sound(b) /\ taken \in Seq(Byte)
  BY <1>1, LimitAssumption DEF Sound
<1>3. Unseen = <<>>
  BY <1>1 DEF Unseen, Peek, Unread
<1> QED BY <1>1, <1>2, <1>3, InvSound DEF F!Init

\* For every size and alphabet: the positions of the buffer stay in order, and an
\* empty buffer has been compacted, so that recv is never given no room.
THEOREM BufferInvariant == Spec => []IInv
<1>1. Init => IInv
  BY InitInv
<1>2. IInv /\ [Next]_vars => IInv'
  BY StepInv
<1> QED BY <1>1, <1>2, PTL DEF Spec

\* buffer.c: an emptied buffer is back at its start, so the next recv has the whole
\* array to fill and never returns 0 for want of room.
THEOREM RoomWhenEmpty == Spec => []EmptyHasAllRoom
<1>1. IInv => EmptyHasAllRoom
  BY DEF IInv
<1> QED BY <1>1, BufferInvariant, PTL

\* The buffer implements the bounded queue: whatever mix of calls, the bytes come
\* out in the order they went in, none twice and none lost.
THEOREM BufferIsFifo == Spec => ImplementsFifo
<1>1. Init => F!Init
  BY InitInv
<1>2. IInv /\ [Next]_vars => [F!Put \/ F!Take \/ F!Clear]_<<Unseen, taken>>
  BY StepInv
<1> QED BY <1>1, <1>2, BufferInvariant, PTL DEF Spec, ImplementsFifo, F!Spec
=============================================================================
