----------------------------- MODULE LoggerProofs -----------------------------
(***************************************************************************)
(* Theorems about Logger for every size of its buffer, every granularity   *)
(* and every set of line lengths.                                          *)
(*                                                                         *)
(* The invariant speaks of the open log: the buffer is within its array    *)
(* with room for a terminator, an empty one starts at 0, it is larger than *)
(* a line, and it holds what the file lacks.                               *)
(***************************************************************************)
EXTENDS Logger, TLAPS

\* A buffer as a value, within its array.
BufOK(b) ==
  /\ b = [data |-> b.data, start |-> b.start, length |-> b.length, capacity |-> b.capacity]
  /\ b.start \in Nat /\ b.length \in Nat /\ b.capacity \in 0..MaxSize
  /\ b.data \in [0..b.capacity - 1 -> Byte \cup {Junk}]
  /\ b.start + b.length < b.capacity
  /\ PrintMax < b.capacity
  /\ b.length = 0 => b.start = 0

\* The unflushed bytes of b are the ones numbered from f.
Holds(b, f) == \A i \in 0..b.length - 1 : b.data[b.start + i] = (f + i) % Numbers

IInv ==
  /\ TypeOK
  /\ log_file_fd = "open" =>
       /\ server = "running" /\ buffer # NULL
       /\ BufOK(Buf)
       /\ Holds(Buf, file.next)
       /\ next = (file.next + buffer_length) % Numbers
       /\ interest = {"WRITE"} <=> buffer_length > 0
  /\ log_file_fd = "none" => interest = {}
  /\ server = "starting" => next = file.next

-----------------------------------------------------------------------------
(* Numbers modulo Numbers, and rounding.                                   *)

\* A name keeps the provers from looking into the operator.
Mod(x) == x % Numbers

\* Below twice the modulus, a remainder is at most one subtraction.
LEMMA ModSmall ==
  ASSUME NEW x \in 0..2 * Numbers - 1
  PROVE  Mod(x) = IF x < Numbers THEN x ELSE x - Numbers
BY LoggerAssumption DEF Mod

\* Going on from a number is going on from the first one.
LEMMA ModAdd ==
  ASSUME NEW f \in Byte, NEW i \in Nat, NEW j \in Nat, i + j < Numbers
  PROVE  /\ Mod(f + i) \in Byte
         /\ Mod(Mod(f + i) + j) = Mod(f + (i + j))
<1>1. Numbers \in Nat /\ Numbers > 0
  BY LoggerAssumption
<1>2. f + i \in 0..2 * Numbers - 1 /\ f + (i + j) \in 0..2 * Numbers - 1
  BY <1>1 DEF Byte
<1>3. Mod(f + i) = IF f + i < Numbers THEN f + i ELSE (f + i) - Numbers
  BY <1>1, <1>2, ModSmall
<1>4. Mod(f + (i + j)) = IF f + (i + j) < Numbers THEN f + (i + j) ELSE (f + (i + j)) - Numbers
  BY <1>1, <1>2, ModSmall
<1>5. Mod(f + i) \in Byte
  BY <1>1, <1>2, <1>3 DEF Byte
<1>6. Mod(f + i) + j \in 0..2 * Numbers - 1
  BY <1>1, <1>5 DEF Byte
<1>7. Mod(Mod(f + i) + j) = IF Mod(f + i) + j < Numbers THEN Mod(f + i) + j
                            ELSE (Mod(f + i) + j) - Numbers
  BY <1>1, <1>6, ModSmall
<1>8. QED
  BY <1>1, <1>2, <1>3, <1>4, <1>5, <1>7 DEF Byte

\* Rounding up loses no room, except at the largest size.
LEMMA RoundedUpBound ==
  ASSUME NEW n \in Nat
  PROVE  /\ RoundedUp(n) \in 0..MaxSize
         /\ RoundedUp(n) >= n \/ RoundedUp(n) = MaxSize
<1> DEFINE q    == (n + Granularity - 1) \div Granularity
           size == q * Granularity
<1>1. q \in Nat /\ size \in Nat /\ size >= n
  BY LoggerAssumption
<1>2. QED
  <2> HIDE DEF q
  <2>1. QED
    BY <1>1, LoggerAssumption DEF RoundedUp, q

-----------------------------------------------------------------------------
(* The steps of one print.                                                 *)

\* Compaction keeps the bytes that wait, in order.
LEMMA MovedOK ==
  ASSUME NEW b, BufOK(b), NEW f \in Byte, Holds(b, f)
  PROVE  BufOK(Moved(b)) /\ Holds(Moved(b), f) /\ Moved(b).length = b.length
<1> DEFINE d == [i \in 0..b.capacity - 1 |-> IF i < b.length THEN b.data[b.start + i] ELSE b.data[i]]
           m == [data |-> d, start |-> 0, length |-> b.length, capacity |-> b.capacity]
<1>1. Moved(b) = m
  <2>1. DOMAIN b.data = 0..b.capacity - 1
    BY DEF BufOK
  <2>2. Moved(b) = [b EXCEPT !.data = d, !.start = 0]
    BY <2>1 DEF Moved
  <2>3. QED
    <3> HIDE DEF d
    <3>1. QED
      BY <2>2 DEF BufOK
<1>2. d \in [0..b.capacity - 1 -> Byte \cup {Junk}]
  <2>1. ASSUME NEW i \in 0..b.capacity - 1, i < b.length
        PROVE  b.start + i \in 0..b.capacity - 1
    BY <2>1 DEF BufOK
  <2>2. QED
    BY <2>1 DEF BufOK
<1>3. BufOK(m)
  <2> HIDE DEF d
  <2>1. QED
    BY <1>2 DEF BufOK
<1>4. Holds(m, f)
  <2>1. ASSUME NEW i \in 0..b.length - 1 PROVE d[0 + i] = b.data[b.start + i]
    BY DEF BufOK
  <2>2. QED
    <3> HIDE DEF d
    <3>1. QED
      BY <2>1 DEF Holds
<1>5. QED
  BY <1>1, <1>3, <1>4

\* The room that is made keeps what waits; without it only if malloc refused, or the
\* buffer has its largest size.
LEMMA SpaceOK ==
  ASSUME NEW b, BufOK(b), NEW f \in Byte, Holds(b, f), NEW refused \in BOOLEAN
  PROVE  LET c == make_buffer_space(b, PrintMax, refused)
         IN  /\ BufOK(c) /\ Holds(c, f) /\ c.length = b.length
             /\ ~refused /\ c.capacity < MaxSize => c.start + c.length + PrintMax <= c.capacity
<1> DEFINE c == make_buffer_space(b, PrintMax, refused)
           size == RoundedUp(b.length + PrintMax)
           d == [i \in 0..size - 1 |-> IF i < b.length THEN b.data[b.start + i] ELSE Junk]
           r == [data |-> d, start |-> 0, length |-> b.length, capacity |-> size]
<1>1. /\ PrintMax \in Nat \ {0} /\ MaxSize \in Nat /\ PrintMax < MaxSize
      /\ b.start \in Nat /\ b.length \in Nat /\ b.capacity \in 0..MaxSize /\ PrintMax < b.capacity
      /\ b.start + b.length < b.capacity
      /\ b.length = 0 => b.start = 0
  BY LoggerAssumption DEF BufOK
<1>2. CASE b.length + b.start + PrintMax <= b.capacity
  BY <1>1, <1>2 DEF make_buffer_space
<1>3. CASE b.length + b.start + PrintMax > b.capacity /\ b.capacity = MaxSize
  <2>1. c = b
    BY <1>1, <1>3 DEF make_buffer_space
  <2>2. QED
    BY <1>1, <1>3, <2>1
<1>4. CASE b.length + b.start + PrintMax > b.capacity /\ b.capacity < MaxSize /\ refused
  <2>1. c = Moved(b)
    BY <1>1, <1>4 DEF make_buffer_space
  <2>2. QED
    BY <1>4, <2>1, MovedOK
<1>5. CASE b.length + b.start + PrintMax > b.capacity /\ b.capacity < MaxSize /\ ~refused
  <2>1. c = r
    <3>1. c = Reallocated(b, size)
      BY <1>1, <1>5 DEF make_buffer_space
    <3>2. QED
      BY <3>1 DEF Reallocated
  <2>2. b.length + PrintMax \in Nat /\ b.length > 0
    BY <1>1, <1>5
  <2>3. /\ size \in 0..MaxSize
        /\ size >= b.length + PrintMax \/ size = MaxSize
    BY <2>2, RoundedUpBound
  <2>4. b.length < size /\ PrintMax < size
    <3> HIDE DEF size
    <3>1. QED
      BY <1>1, <1>5, <2>2, <2>3
  <2>5. d \in [0..size - 1 -> Byte \cup {Junk}]
    <3>1. ASSUME NEW i \in 0..size - 1, i < b.length
          PROVE  b.data[b.start + i] \in Byte \cup {Junk}
      <4>1. b.start + i \in 0..b.capacity - 1
        BY <1>1, <2>3, <3>1
      <4>2. QED
        BY <4>1 DEF BufOK
    <3>2. QED
      BY <3>1
  <2>6. BufOK(r)
    <3> HIDE DEF d, size
    <3>1. QED
      BY <1>1, <2>2, <2>3, <2>4, <2>5 DEF BufOK
  <2>7. Holds(r, f)
    <3>1. ASSUME NEW i \in 0..b.length - 1 PROVE d[0 + i] = b.data[b.start + i]
      <4> HIDE DEF size
      <4>1. QED
        BY <1>1, <2>3, <2>4
    <3>2. QED
      <4> HIDE DEF d, size
      <4>1. QED
        BY <3>1 DEF Holds
  <2>8. size < MaxSize => b.length + PrintMax <= size
    BY <1>1, <2>3
  <2>9. QED
    <3> HIDE DEF c, d, size
    <3>1. BufOK(c) /\ Holds(c, f) /\ c.length = b.length
      BY <2>1, <2>6, <2>7
    <3>2. c.capacity < MaxSize => c.start + c.length + PrintMax <= c.capacity
      BY <1>1, <2>1, <2>8
    <3>3. QED
      BY <3>1, <3>2 DEF c
<1>6. QED
  BY <1>1, <1>2, <1>3, <1>4, <1>5

\* What is kept of a line follows what waits, is numbered on from it, and leaves a byte.
LEMMA PrintedOK ==
  ASSUME NEW b, BufOK(b), NEW f \in Byte, Holds(b, f), next = Mod(f + b.length),
         NEW n \in Nat \ {0}
  PROVE  LET p == Printed(b, n)
         IN  /\ BufOK(p) /\ Holds(p, f)
             /\ Kept(b, n) \in Nat /\ p.length = b.length + Kept(b, n) /\ p.start = b.start
             /\ Mod(next + Kept(b, n)) = Mod(f + p.length) /\ Mod(f + p.length) \in Byte
             /\ b.start + b.length + n < b.capacity => Kept(b, n) = n
<1> DEFINE end  == b.start + b.length
           kept == Kept(b, n)
           Cell(i) == CASE i \in end..end + kept - 1 -> (next + i - end) % Numbers
                        [] i = end + kept -> Junk
                        [] OTHER -> b.data[i]
           d == [i \in 0..b.capacity - 1 |-> Cell(i)]
           r == [data |-> d, start |-> b.start, length |-> b.length + kept, capacity |-> b.capacity]
<1>1. /\ MaxSize \in Nat /\ Numbers \in Nat /\ MaxSize < Numbers
      /\ b.start \in Nat /\ b.length \in Nat /\ b.capacity \in 0..MaxSize /\ PrintMax < b.capacity
      /\ b.start + b.length < b.capacity
      /\ b.length = 0 => b.start = 0
  BY LoggerAssumption DEF BufOK
<1>2. /\ kept \in Nat /\ end \in Nat /\ end + kept < b.capacity
      /\ end + n < b.capacity => kept = n
  BY <1>1 DEF Kept
<1>3. Printed(b, n) = r
  <2>1. DOMAIN b.data = 0..b.capacity - 1
    BY DEF BufOK
  <2>2. Printed(b, n) = [b EXCEPT !.data = d, !.length = @ + kept]
    BY <2>1 DEF Printed
  <2>3. QED
    <3> HIDE DEF d, kept
    <3>1. QED
      BY <2>2 DEF BufOK
<1>4. ASSUME NEW i \in 0..b.length + kept - 1
      PROVE  b.start + i \in 0..b.capacity - 1 /\ d[b.start + i] = Mod(f + i)
  <2> DEFINE m == b.start + i
  <2>1. m \in 0..b.capacity - 1
    <3> HIDE DEF kept
    <3>1. QED
      BY <1>1, <1>2
  <2>2. CASE i < b.length
    <3>1. m \notin end..end + kept - 1 /\ m # end + kept
      <4> HIDE DEF kept
      <4>1. QED
        BY <1>1, <1>2, <2>2
    <3>2. d[m] = b.data[m]
      <4> HIDE DEF kept, end, m
      <4>1. QED
        BY <2>1, <3>1
    <3>3. i \in 0..b.length - 1
      BY <1>1, <2>2
    <3>4. QED
      BY <2>1, <3>2, <3>3 DEF Holds, Mod
  <2>3. CASE i >= b.length
    <3>1. m \in end..end + kept - 1 /\ i - b.length \in Nat /\ b.length + (i - b.length) = i
          /\ m - end = i - b.length /\ i < Numbers
      <4> HIDE DEF kept
      <4>1. QED
        BY <1>1, <1>2, <2>3
    <3>2. d[m] = Mod(next + (m - end))
      <4> HIDE DEF kept, end, m
      <4>1. d[m] = (next + m - end) % Numbers
        <5>1. d[m] = Cell(m)
          BY <2>1, Zenon
        <5>2. m # end + kept
          BY <1>1, <1>2, <2>1, <3>1 DEF end
        <5>3. Cell(m) = (next + m - end) % Numbers
          BY <3>1, <5>2, Zenon
        <5>4. QED
          BY <5>1, <5>3
      <4>2. QED
        BY <4>1, Zenon DEF Mod
    <3>3. Mod(Mod(f + b.length) + (i - b.length)) = Mod(f + (b.length + (i - b.length)))
      BY <1>1, <3>1, ModAdd
    <3>4. QED
      <4> HIDE DEF d, m, end
      <4>1. d[m] = Mod(f + i)
        BY <3>1, <3>2, <3>3
      <4>2. QED
        BY <2>1, <4>1 DEF m
  <2>4. QED
    <3> HIDE DEF kept
    <3>1. QED
      BY <1>1, <1>2, <2>2, <2>3
<1>5. d \in [0..b.capacity - 1 -> Byte \cup {Junk}]
  <2>1. ASSUME NEW i \in 0..b.capacity - 1 PROVE d[i] \in Byte \cup {Junk}
    <3>1. CASE i \in end..end + kept - 1
      <4>1. i - b.start \in 0..b.length + kept - 1 /\ b.start + (i - b.start) = i
            /\ i - b.start \in Nat /\ i - b.start < Numbers
        <5> HIDE DEF kept
        <5>1. QED
          BY <1>1, <1>2, <3>1
      <4>2. d[i] = Mod(f + (i - b.start))
        <5> HIDE DEF d
        <5>1. QED
          BY <1>4, <4>1
      <4>3. Mod(f + (i - b.start)) \in Byte
        <5> HIDE DEF d
        <5>1. i - b.start + 0 < Numbers
          BY <4>1
        <5>2. QED
          BY <4>1, <5>1, ModAdd
      <4>4. QED
        BY <4>2, <4>3
    <3>2. CASE i \notin end..end + kept - 1
      <4>1. b.data[i] \in Byte \cup {Junk}
        BY DEF BufOK
      <4>2. QED
        <5> HIDE DEF kept, end
        <5>1. QED
          BY <3>2, <4>1
    <3>3. QED
      BY <3>1, <3>2
  <2>2. QED
    <3> HIDE DEF kept, end
    <3>1. QED
      BY <2>1
<1>6. BufOK(r)
  <2> HIDE DEF d, kept
  <2>1. QED
    BY SMTT(30), <1>1, <1>2, <1>5 DEF BufOK
<1>7. Holds(r, f)
  <2>1. ASSUME NEW i \in 0..r.length - 1 PROVE d[b.start + i] = Mod(f + i)
    <3>1. i \in 0..b.length + kept - 1
      <4> HIDE DEF kept, d
      <4>1. QED
        BY <1>1, <1>2
    <3>2. QED
      BY <1>4, <3>1, Zenon
  <2>2. QED
    <3> HIDE DEF d, kept
    <3>1. QED
      BY <2>1 DEF Holds, Mod
<1>8. Mod(next + kept) = Mod(f + (b.length + kept)) /\ Mod(f + (b.length + kept)) \in Byte
  <2> HIDE DEF kept
  <2>1. b.length + kept < Numbers /\ b.length + kept \in Nat
    BY <1>1, <1>2
  <2>2. QED
    <3>1. (b.length + kept) + 0 < Numbers
      BY <2>1
    <3>2. QED
      BY <1>1, <1>2, <2>1, <3>1, ModAdd
<1>9. QED
  <2> HIDE DEF d, kept
  <2>1. QED
    BY <1>1, <1>2, <1>3, <1>6, <1>7, <1>8 DEF kept

\* After a write, wherever it stopped, what waits is what the file lacks; the file has
\* had every byte in order.
LEMMA FlushedOK ==
  ASSUME NEW b, BufOK(b), file \in File, Holds(b, file.next), NEW k \in -1..MaxSize, k <= b.length
  PROVE  LET q == Flushed(b, k)
             g == Written(b, b.start, k)
         IN  /\ BufOK(q) /\ q.capacity = b.capacity
             /\ g \in File /\ Holds(q, g.next)
             /\ Mod(g.next + q.length) = Mod(file.next + b.length)
             /\ g.intact = file.intact
<1> DEFINE q == Flushed(b, k)
           g == Written(b, b.start, k)
           l == b.length - k
           a == IF b.length = k THEN 0 ELSE b.start + k
<1>1. /\ MaxSize \in Nat /\ Numbers \in Nat /\ MaxSize < Numbers
      /\ b.start \in Nat /\ b.length \in Nat /\ b.capacity \in 0..MaxSize /\ PrintMax < b.capacity
      /\ b.start + b.length < b.capacity
      /\ b.length = 0 => b.start = 0
      /\ file.next \in Byte /\ file.intact \in BOOLEAN
  BY LoggerAssumption DEF BufOK, File
<1>2. CASE k <= 0
  BY <1>1, <1>2 DEF Flushed, Written
<1>3. CASE k > 0
  <2>1. k \in Nat /\ l \in Nat /\ k + l = b.length /\ b.length < Numbers /\ k + 0 < Numbers
    BY <1>1, <1>3
  <2>2. q = [data |-> b.data, start |-> a, length |-> l, capacity |-> b.capacity]
    <3>1. q = [b EXCEPT !.length = @ - k, !.start = IF b.length = k THEN 0 ELSE @ + k]
      BY <1>3 DEF Flushed
    <3>2. QED
      BY <3>1 DEF BufOK
  <2>3. g = [next |-> Mod(file.next + k), intact |-> file.intact]
    <3>1. \A i \in 0..k - 1 : b.data[b.start + i] = (file.next + i) % Numbers
      BY <1>1, <2>1 DEF Holds
    <3>2. QED
      BY <1>1, <1>3, <3>1 DEF Written, Mod
  <2>4. Mod(file.next + k) \in Byte
    BY <1>1, <2>1, ModAdd
  <2>5. BufOK(q)
    <3>1. CASE b.length = k
      BY <1>1, <2>1, <2>2, <3>1 DEF BufOK
    <3>2. CASE b.length # k
      <4>1. a = b.start + k /\ l # 0
        BY <1>1, <2>1, <3>2
      <4>2. a \in Nat /\ a + l < b.capacity
        <5> HIDE DEF a, l
        <5>1. QED
          BY <1>1, <2>1, <4>1
      <4>3. QED
        <5> HIDE DEF a, l, q
        <5>1. QED
          BY <1>1, <2>1, <2>2, <4>1, <4>2 DEF BufOK
    <3>3. QED
      BY <3>1, <3>2
  <2>6. Holds(q, g.next)
    <3>1. ASSUME NEW i \in 0..l - 1 PROVE b.data[a + i] = Mod(Mod(file.next + k) + i)
      <4>1. a + i = b.start + (k + i) /\ k + i \in 0..b.length - 1 /\ i \in Nat /\ k + i < Numbers
        BY <1>1, <2>1
      <4>2. b.data[b.start + (k + i)] = Mod(file.next + (k + i))
        BY <4>1 DEF Holds, Mod
      <4>3. Mod(Mod(file.next + k) + i) = Mod(file.next + (k + i))
        BY <1>1, <2>1, <4>1, ModAdd
      <4>4. QED
        BY <4>1, <4>2, <4>3
    <3> HIDE DEF a, l, q, g
    <3>2. QED
      BY <2>2, <2>3, <3>1 DEF Holds, Mod
  <2>7. Mod(Mod(file.next + k) + l) = Mod(file.next + b.length)
    BY <1>1, <2>1, ModAdd
  <2>8. QED
    <3> HIDE DEF a, l, q, g
    <3>1. QED
      BY <1>1, <2>2, <2>3, <2>4, <2>5, <2>6, <2>7 DEF File, q, g
<1>4. QED
  BY <1>2, <1>3

-----------------------------------------------------------------------------
(* The steps.                                                              *)

\* write() of a buffer that continues the file, wherever it stops.
LEMMA FlushStep ==
  ASSUME IInv, server = "running", log_file_fd = "open",
         NEW b, BufOK(b), Holds(b, file.next), NEW k \in -1..MaxSize, k <= b.length,
         try_flush_buffer_to_file(b, k), next' = Mod(file.next + b.length), next' \in Byte,
         UNCHANGED <<server, log_file_fd>>
  PROVE  IInv' /\ file'.intact = file.intact
<1> DEFINE q == Flushed(b, k)
<1>1. /\ BufOK(q) /\ file' \in File /\ Holds(q, file'.next)
      /\ Mod(file'.next + q.length) = Mod(file.next + b.length)
      /\ file'.intact = file.intact
  <2>1. file \in File
    BY DEF IInv, TypeOK
  <2>2. QED
    BY <2>1, FlushedOK DEF try_flush_buffer_to_file
<1>2. /\ buffer' = q.data /\ buffer_start' = q.start
      /\ buffer_length' = q.length /\ buffer_capacity' = q.capacity
      /\ interest' = IF q.length > 0 THEN {"WRITE"} ELSE {}
  BY DEF try_flush_buffer_to_file, Becomes
<1> HIDE DEF q
<1>3. Buf' = q
  BY <1>1, <1>2 DEF Buf, BufOK
<1>4. buffer' # NULL
  <2>1. DOMAIN buffer' = 0..q.capacity - 1 /\ 0 \in 0..q.capacity - 1
    BY <1>1, <1>2, LoggerAssumption DEF BufOK
  <2>2. DOMAIN NULL = {}
    BY DEF NULL
  <2>3. QED
    BY <2>1, <2>2
<1>5. TypeOK'
  BY <1>1, <1>2 DEF IInv, TypeOK, BufOK
<1>6. interest' = {"WRITE"} <=> buffer_length' > 0
  BY <1>1, <1>2 DEF BufOK
<1>7. next' = (file'.next + buffer_length') % Numbers
  BY <1>1, <1>2 DEF Mod
<1>8. BufOK(Buf)' /\ Holds(Buf, file.next)'
  <2>1. BufOK(Buf)' = BufOK(Buf') /\ Holds(Buf, file.next)' = Holds(Buf', file'.next)
    BY DEF BufOK, Holds
  <2>2. QED
    BY <1>1, <1>3, <2>1
<1>9. QED
  BY <1>1, <1>4, <1>5, <1>6, <1>7, <1>8 DEF IInv

\* A line printed keeps the invariant; one that fits is kept whole.
LEMMA PrintStep ==
  ASSUME IInv, NEW n \in Lines, NEW refused \in BOOLEAN, NEW k \in -1..MaxSize, logf(n, refused, k)
  PROVE  /\ IInv' /\ file'.intact = file.intact
         /\ n < PrintMax /\ ~refused /\ buffer_capacity' < MaxSize => next' = (next + n) % Numbers
<1> DEFINE b == make_buffer_space(Buf, PrintMax, refused)
           p == Printed(b, n)
<1>1. /\ server = "running" /\ log_file_fd = "open" /\ BufOK(Buf) /\ Holds(Buf, file.next)
      /\ next = Mod(file.next + buffer_length) /\ file \in File /\ file.next \in Byte
  BY DEF logf, logger_is_enabled_for, IInv, TypeOK, Mod, File
<1>2. /\ BufOK(b) /\ Holds(b, file.next) /\ b.length = buffer_length
      /\ ~refused /\ b.capacity < MaxSize => b.start + b.length + PrintMax <= b.capacity
  <2>1. Buf.length = buffer_length
    BY DEF Buf
  <2>2. QED
    BY <1>1, <2>1, SpaceOK
<1>3. n \in Nat \ {0}
  BY LoggerAssumption
<1>4. k <= p.length /\ try_flush_buffer_to_file(p, k) /\ next' = Mod(next + Kept(b, n))
      /\ UNCHANGED <<server, log_file_fd>>
  BY DEF logf, Mod
<1> HIDE DEF b
<1>5. /\ BufOK(p) /\ Holds(p, file.next)
      /\ Mod(next + Kept(b, n)) = Mod(file.next + p.length) /\ Mod(file.next + p.length) \in Byte
      /\ b.start + b.length + n < b.capacity => Kept(b, n) = n
  BY <1>1, <1>2, <1>3, PrintedOK
<1>6. p.capacity = b.capacity
  BY <1>2 DEF Printed, BufOK
<1> HIDE DEF p
<1>7. IInv' /\ file'.intact = file.intact
  BY <1>1, <1>4, <1>5, FlushStep
<1>8. buffer_capacity' = p.capacity
  <2>1. Flushed(p, k).capacity = p.capacity
    BY <1>1, <1>4, <1>5, FlushedOK
  <2>2. QED
    BY <1>4, <2>1 DEF try_flush_buffer_to_file, Becomes
<1>9. ASSUME n < PrintMax, ~refused, buffer_capacity' < MaxSize
      PROVE  next' = (next + n) % Numbers
  <2>1. b.start + b.length + PrintMax <= b.capacity
    BY <1>2, <1>6, <1>8, <1>9
  <2>2. b.start + b.length + n < b.capacity
    BY <1>2, <1>3, <1>9, <2>1, LoggerAssumption DEF BufOK
  <2>3. QED
    BY <1>4, <1>5, <2>2 DEF Mod
<1>10. QED
  BY <1>7, <1>9

\* A write to the file, whole, partial or failed, keeps the invariant.
LEMMA WriteStep ==
  ASSUME IInv, NEW k \in -1..MaxSize, fd_write_handler(k)
  PROVE  IInv' /\ file'.intact = file.intact
<1>1. log_file_fd = "open" /\ server = "running"
  BY DEF fd_write_handler, IInv, TypeOK
<1>2. /\ BufOK(Buf) /\ Holds(Buf, file.next) /\ next = Mod(file.next + buffer_length)
      /\ next \in Byte /\ Buf.length = buffer_length
  BY <1>1 DEF IInv, TypeOK, Mod, Buf
<1>3. QED
  <2>1. k <= Buf.length /\ try_flush_buffer_to_file(Buf, k) /\ next' = next
        /\ UNCHANGED <<server, log_file_fd>>
    BY <1>2 DEF fd_write_handler
  <2>2. QED
    BY <1>1, <1>2, <2>1, FlushStep

\* The last flush writes from the array's start, which is right if what waits is there.
LEMMA CloseStep ==
  ASSUME IInv, NEW k \in -1..MaxSize, fd_close_handler(k)
  PROVE  IInv' /\ (buffer_start = 0 => file'.intact = file.intact)
<1>1. /\ log_file_fd = "open" /\ server = "running" /\ BufOK(Buf) /\ Holds(Buf, file.next)
      /\ file \in File /\ Buf.length = buffer_length /\ Buf.start = buffer_start
      /\ k <= buffer_length /\ file' = Written(Buf, 0, k) /\ Becomes(Flushed(Buf, k))
  BY DEF fd_close_handler, IInv, TypeOK, Buf
<1>2. BufOK(Flushed(Buf, k)) /\ Written(Buf, Buf.start, k).intact = file.intact
  BY <1>1, FlushedOK
<1>3. file' \in File
  <2>1. file.next \in Byte /\ file.intact \in BOOLEAN
    BY <1>1 DEF File
  <2>2. CASE k <= 0
    BY <1>1, <2>2 DEF Written
  <2>3. CASE k > 0
    <3>1. Mod(file.next + k) \in Byte
      <4>1. k \in Nat /\ k + 0 < Numbers
        BY <2>3, LoggerAssumption
      <4>2. QED
        BY <2>1, <4>1, ModAdd
    <3> DEFINE inOrder == \A i \in 0..k - 1 : Buf.data[0 + i] = (file.next + i) % Numbers
    <3>2. file' = [next |-> Mod(file.next + k), intact |-> file.intact /\ inOrder]
      BY <1>1, <2>3 DEF Written, Mod
    <3> HIDE DEF inOrder
    <3>3. QED
      BY <3>1, <3>2 DEF File
  <2>4. QED
    BY <2>2, <2>3
<1>4. TypeOK'
  BY <1>1, <1>2, <1>3 DEF IInv, TypeOK, BufOK, fd_close_handler, Becomes
<1>5. QED
  <2>1. IInv'
    BY <1>4 DEF IInv, fd_close_handler
  <2>2. QED
    BY <1>1, <1>2, <2>1

\* The log starts with nothing in its buffer.
LEMMA InitInv == Init => IInv
<1> SUFFICES ASSUME Init PROVE IInv
  OBVIOUS
<1>1. 0 \in Byte /\ 0 \in 0..MaxSize
  BY LoggerAssumption DEF Byte
<1>2. QED
  BY <1>1 DEF Init, IInv, TypeOK, File

\* logger_init keeps the invariant and writes nothing.
LEMMA StartStep == IInv /\ logger_init => IInv' /\ file' = file
<1> SUFFICES ASSUME IInv, logger_init PROVE IInv' /\ file' = file
  OBVIOUS
<1>1. file' = file /\ next' = next /\ interest' = interest /\ server = "starting" /\ server' = "running"
  BY DEF logger_init
<1>2. log_file_fd = "none" /\ interest = {}
  BY <1>1 DEF IInv, TypeOK
<1>3. CASE UNCHANGED <<memory, log_file_fd>>
  BY <1>1, <1>2, <1>3 DEF IInv, TypeOK, memory
<1>4. CASE /\ Becomes([data |-> NULL, start |-> 0, length |-> 0, capacity |-> MinSize])
           /\ UNCHANGED log_file_fd
  <2>1. MinSize \in 0..MaxSize
    BY LoggerAssumption
  <2>2. QED
    BY <1>1, <1>2, <1>4, <2>1 DEF IInv, TypeOK, Becomes
<1>5. CASE /\ Becomes([data |-> [i \in 0..MinSize - 1 |-> Junk], start |-> 0, length |-> 0,
                       capacity |-> MinSize])
           /\ log_file_fd' = "open"
  <2> DEFINE d == [i \in 0..MinSize - 1 |-> Junk]
  <2>1. MinSize \in 0..MaxSize /\ PrintMax < MinSize /\ 0 < MinSize /\ 0 \in 0..MinSize - 1
    BY LoggerAssumption
  <2>2. d \in [0..MinSize - 1 -> Byte \cup {Junk}] /\ DOMAIN d = 0..MinSize - 1
    OBVIOUS
  <2>3. /\ buffer' = d /\ buffer_start' = 0 /\ buffer_length' = 0 /\ buffer_capacity' = MinSize
    BY <1>5 DEF Becomes
  <2> HIDE DEF d
  <2>4. d # NULL
    <3>1. DOMAIN NULL = {}
      BY DEF NULL
    <3>2. QED
      BY <2>1, <2>2, <3>1
  <2>5. BufOK(Buf)' /\ Holds(Buf, file.next)'
    BY <2>1, <2>2, <2>3 DEF BufOK, Buf, Holds
  <2>6. next' = (file'.next + buffer_length') % Numbers
    <3>1. next = file.next /\ next \in 0..2 * Numbers - 1 /\ next < Numbers /\ next + 0 = next
      BY <1>1, LoggerAssumption DEF IInv, TypeOK, Byte
    <3>2. Mod(next + 0) = next
      BY <3>1, ModSmall
    <3>3. QED
      BY <1>1, <2>3, <3>1, <3>2 DEF Mod
  <2>7. QED
    BY <1>1, <1>2, <1>5, <2>1, <2>2, <2>3, <2>4, <2>5, <2>6 DEF IInv, TypeOK
<1>6. QED
  BY <1>3, <1>4, <1>5 DEF logger_init

\* One step per action: the invariant, and what the two action properties say.
LEMMA NextInv ==
  ASSUME IInv, [Next]_vars
  PROVE  /\ IInv'
         /\ file.intact /\ ~file'.intact => log_file_fd' = "none" /\ buffer_start # 0
<1>1. CASE logger_init
  BY <1>1, StartStep
<1>2. ASSUME NEW n \in Lines, NEW refused \in BOOLEAN, NEW k \in -1..MaxSize, logf(n, refused, k)
      PROVE  IInv' /\ file'.intact = file.intact
  BY <1>2, PrintStep
<1>3. ASSUME NEW k \in -1..MaxSize, fd_write_handler(k)
      PROVE  IInv' /\ file'.intact = file.intact
  BY <1>3, WriteStep
<1>4. ASSUME NEW k \in -1..MaxSize, fd_close_handler(k)
      PROVE  /\ IInv' /\ log_file_fd' = "none"
             /\ buffer_start = 0 => file'.intact = file.intact
  BY <1>4, CloseStep DEF fd_close_handler
<1>5. CASE NothingToClose
  BY <1>5 DEF NothingToClose, IInv, TypeOK, memory
<1>6. CASE logger_finalize
  <2>1. log_file_fd # "open" /\ MaxSize \in Nat
    BY <1>6, LoggerAssumption DEF logger_finalize, IInv
  <2>2. TypeOK'
    BY <1>6, <2>1 DEF logger_finalize, IInv, TypeOK, memory, Becomes
  <2>3. QED
    BY <1>6, <2>1, <2>2 DEF logger_finalize, IInv
<1>7. CASE UNCHANGED vars
  BY <1>7 DEF vars, memory, IInv, TypeOK, BufOK, Holds, Buf
<1>8. QED
  BY <1>1, <1>2, <1>3, <1>4, <1>5, <1>6, <1>7 DEF Next

-----------------------------------------------------------------------------
\* Every reachable state satisfies the inductive invariant.
THEOREM Invariant == Spec => []IInv
<1>1. Init => IInv
  BY InitInv
<1>2. IInv /\ [Next]_vars => IInv'
  BY NextInv
<1>3. QED
  BY <1>1, <1>2, PTL DEF Spec

\* logger.c stays within its array, whatever the lines, the refusals of malloc and the
\* partial writes, and always has a byte for the terminator of the next line.
THEOREM BufferHasRoom == Spec => []RoomForTerminator
<1>1. IInv => RoomForTerminator
  <2> SUFFICES ASSUME IInv PROVE RoomForTerminator
    OBVIOUS
  <2>1. log_file_fd = "open" => BufOK(Buf) /\ buffer # NULL
    BY DEF IInv
  <2>2. BufOK(Buf) => buffer_start + buffer_length < buffer_capacity
    BY DEF BufOK, Buf
  <2>3. QED
    BY <2>1, <2>2 DEF IInv, RoomForTerminator
<1>2. QED
  BY <1>1, Invariant, PTL

\* The log file and the buffer together are the log: nothing is lost, repeated or
\* reordered between them while the file is open.
THEOREM FileAndBufferAreTheLog == Spec => []PendingContinuesFile
<1>1. IInv => PendingContinuesFile
  <2> SUFFICES ASSUME IInv, log_file_fd = "open" PROVE PendingContinuesFile
    BY DEF PendingContinuesFile
  <2>1. Holds(Buf, file.next) /\ next = (file.next + buffer_length) % Numbers
    BY DEF IInv
  <2>2. QED
    BY <2>1 DEF Holds, Buf, PendingContinuesFile
<1>2. QED
  BY <1>1, Invariant, PTL

\* The selector watches the log file exactly while bytes wait for it.
THEOREM WaitingBytesAreWatched == Spec => []PendingIsAwaited
<1>1. IInv => PendingIsAwaited
  BY DEF IInv, PendingIsAwaited
<1>2. QED
  BY <1>1, Invariant, PTL

\* A line shorter than LOG_BUFFER_MAX_PRINT_LENGTH is kept whole if malloc gave the
\* room asked for and the buffer can still grow.
THEOREM ShortLinesKept == Spec => ShortLinesAreWhole
<1>1. IInv /\ [Next]_vars =>
        [\A n \in Lines, k \in -1..MaxSize :
           n < PrintMax /\ logf(n, FALSE, k) /\ buffer_capacity' < MaxSize =>
             next' = (next + n) % Numbers]_vars
  BY PrintStep
<1>2. QED
  BY <1>1, Invariant, PTL DEF Spec, ShortLinesAreWhole

\* Wrong bytes reach the log file only in the flush at the selector's end, and only
\* if an earlier write had stopped in the middle of the buffer.
THEOREM OnlyCloseGarbles == Spec => GarbledOnlyAtClose
<1>1. IInv /\ [Next]_vars =>
        [file.intact /\ ~file'.intact => log_file_fd' = "none" /\ buffer_start # 0]_vars
  BY NextInv
<1>2. QED
  BY <1>1, Invariant, PTL DEF Spec, GarbledOnlyAtClose
===============================================================================
