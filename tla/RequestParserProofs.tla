------------------------ MODULE RequestParserProofs -------------------------
(***************************************************************************)
(* The request parsers recognise the requests of the grammar and the       *)
(* bodies that end in their terminator, byte by byte and for every cut of  *)
(* what a client sends, within their arrays, whatever the sizes of these;  *)
(* and the parsers over tokens that the session's module is built on say   *)
(* of every text what the parsers over bytes say of its spelling.          *)
(***************************************************************************)
EXTENDS ParserTokens, TLAPS, SequenceTheorems, WellFoundedInduction

-----------------------------------------------------------------------------
(* Least numbers, induction and recursion up to a number.                  *)

\* A set of naturals has a least element, which Min names.
LEMMA LeastExists ==
  ASSUME NEW S \in SUBSET Nat, S # {}
  PROVE  Min(S) \in S /\ \A y \in S : Min(S) <= y
<1> DEFINE R == {ss \in Nat \X Nat : ss[1] < ss[2]}
<1>1. IsWellFoundedOn(R, Nat)
  BY NatLessThanWellFounded, Zenon DEF OpToRel
<1>2. PICK x \in S : \A y \in S : <<y, x>> \notin R
  BY <1>1, WFMin, Zenon
<1>3. ASSUME NEW y \in S PROVE x <= y
  <2>1. y < x => <<y, x>> \in R
    OBVIOUS
  <2>2. QED
    BY <2>1, <1>2
<1>4. QED
  BY <1>3 DEF Min

\* Induction over 0..m, for a set: the library's theorem takes an operator.
LEMMA UpTo ==
  ASSUME NEW m \in Nat, NEW K, 0 \in K, \A k \in 1..m : k - 1 \in K => k \in K
  PROVE  \A k \in 0..m : k \in K
<1> DEFINE Bad == {k \in 0..m : k \notin K}
<1> SUFFICES ASSUME Bad # {} PROVE FALSE
  OBVIOUS
<1>1. Min(Bad) \in Bad /\ \A y \in Bad : Min(Bad) <= y
  BY LeastExists
<1>2. PICK k \in Bad : \A y \in Bad : k <= y
  BY <1>1
<1>3. k # 0
  BY <1>2
<1>4. k \in 1..m /\ k - 1 \in 0..m /\ ~(k <= k - 1)
  BY <1>2, <1>3
<1>5. k - 1 \notin Bad
  BY <1>2, <1>4
<1>6. QED
  BY <1>4, <1>5

\* g is, up to n, what starts with v and goes on by the functions of G.
Follows(g, n, v, G) == \A k \in 0..n : g[k] = IF k = 0 THEN v ELSE G[k][g[k - 1]]

\* A function defined by recursion over 0..m exists.
LEMMA RecursionExists ==
  ASSUME NEW m \in Nat, NEW V, NEW v \in V, NEW G \in [1..m -> [V -> V]]
  PROVE  \E g \in [0..m -> V] : Follows(g, m, v, G)
<1> USE DEF Follows
<1> DEFINE Fits(g, n) == Follows(g, n, v, G)
           K == {n \in 0..m : \E g \in [0..n -> V] : Fits(g, n)}
<1>1. 0 \in K
  <2> DEFINE g == [k \in 0..0 |-> v]
  <2>1. g \in [0..0 -> V] /\ Fits(g, 0)
    OBVIOUS
  <2> HIDE DEF g, Follows
  <2>2. QED
    BY <2>1
<1>2. ASSUME NEW n \in 1..m, n - 1 \in K PROVE n \in K
  <2>1. n - 1 \in 0..m /\ n \in 0..m /\ n \in 1..m /\ 0..n - 1 \subseteq 0..n
    OBVIOUS
  <2>2. PICK g \in [0..n - 1 -> V] : Fits(g, n - 1)
    BY <1>2, <2>1
  <2> DEFINE f == [k \in 0..n |-> IF k = n THEN G[n][g[n - 1]] ELSE g[k]]
  <2>3. g[n - 1] \in V /\ G[n] \in [V -> V] /\ \A k \in 0..n : k = n \/ k \in 0..n - 1
    BY <2>1
  <2>4. f \in [0..n -> V]
    BY <2>3
  <2>5. ASSUME NEW k \in 0..n PROVE f[k] = IF k = 0 THEN v ELSE G[k][f[k - 1]]
    <3>1. k - 1 # n /\ (k # 0 => k - 1 \in 0..n)
      OBVIOUS
    <3>2. CASE k = n
      BY <2>1, <3>1, <3>2
    <3>3. CASE k # n
      <4>1. k \in 0..n - 1
        BY <3>3
      <4>2. g[k] = IF k = 0 THEN v ELSE G[k][g[k - 1]]
        BY <2>2, <4>1
      <4>3. QED
        BY <3>1, <3>3, <4>1, <4>2
    <3>4. QED
      BY <3>2, <3>3
  <2>6. Fits(f, n)
    BY <2>5
  <2> HIDE DEF f, Follows
  <2>7. QED
    BY <2>1, <2>4, <2>6
<1> HIDE DEF K
<1>3. \A n \in 0..m : n \in K
  BY <1>1, <1>2, UpTo
<1>4. m \in K
  BY <1>3
<1>5. QED
  BY <1>4 DEF K

-----------------------------------------------------------------------------
(* Sequences of bytes.                                                     *)

\* The first c of w, or the place behind its end.
LEMMA FirstOfIs ==
  ASSUME NEW w \in Seq(Byte), NEW c
  PROVE  /\ FirstOf(w, c) \in 1..Len(w) + 1
         /\ FirstOf(w, c) <= Len(w) => w[FirstOf(w, c)] = c
         /\ \A k \in 1..Len(w) : k < FirstOf(w, c) => w[k] # c
<1> DEFINE S == {k \in 1..Len(w) : w[k] = c} \cup {Len(w) + 1}
<1>1. Len(w) \in Nat
  BY LenProperties
<1>2. S \in SUBSET Nat /\ S # {}
  BY <1>1
<1>3. Min(S) \in S /\ \A y \in S : Min(S) <= y
  BY <1>2, LeastExists
<1> DEFINE f == FirstOf(w, c)
<1>4. f = Min(S)
  BY DEF FirstOf
<1> HIDE DEF f
<1>5. f \in 1..Len(w) + 1 /\ (f <= Len(w) => w[f] = c)
  BY <1>1, <1>3, <1>4
<1>6. ASSUME NEW k \in 1..Len(w), k < f PROVE w[k] # c
  <2>1. ~(f <= k)
    BY <1>1, <1>5, <1>6
  <2>2. k \notin S
    BY <1>3, <1>4, <2>1
  <2> HIDE DEF S
  <2>3. w[k] = c => k \in S
    BY DEF S
  <2>4. QED
    BY <2>2, <2>3
<1>7. QED
  BY <1>5, <1>6 DEF f

\* Nothing else is the first.
LEMMA FirstOfOnly ==
  ASSUME NEW w \in Seq(Byte), NEW c, NEW f \in 1..Len(w) + 1,
         f <= Len(w) => w[f] = c, \A k \in 1..Len(w) : k < f => w[k] # c
  PROVE  FirstOf(w, c) = f
<1> DEFINE g == FirstOf(w, c)
<1>1. Len(w) \in Nat
  BY LenProperties
<1>2. g \in 1..Len(w) + 1 /\ (g <= Len(w) => w[g] = c) /\ \A k \in 1..Len(w) : k < g => w[k] # c
  BY FirstOfIs
<1> HIDE DEF g
<1>3. ~(f < g)
  BY <1>1, <1>2
<1>4. ~(g < f)
  BY <1>1, <1>2
<1>5. QED
  BY <1>1, <1>2, <1>3, <1>4 DEF g

\* One byte more.
LEMMA FirstOfAppend ==
  ASSUME NEW w \in Seq(Byte), NEW b \in Byte, NEW c
  PROVE  FirstOf(Append(w, b), c) = IF FirstOf(w, c) <= Len(w) THEN FirstOf(w, c)
                                    ELSE IF b = c THEN Len(w) + 1 ELSE Len(w) + 2
<1> DEFINE v == Append(w, b)
           g == FirstOf(w, c)
           f == IF g <= Len(w) THEN g ELSE IF b = c THEN Len(w) + 1 ELSE Len(w) + 2
<1>1. Len(w) \in Nat /\ v \in Seq(Byte) /\ Len(v) = Len(w) + 1 /\ v[Len(w) + 1] = b
      /\ \A k \in 1..Len(w) : v[k] = w[k]
  BY LenProperties, AppendProperties
<1>2. g \in 1..Len(w) + 1 /\ (g <= Len(w) => w[g] = c) /\ \A k \in 1..Len(w) : k < g => w[k] # c
  BY FirstOfIs
<1> HIDE DEF v, g
<1>3. f \in 1..Len(v) + 1
  BY <1>1, <1>2
<1>4. f <= Len(v) => v[f] = c
  BY <1>1, <1>2
<1>5. ASSUME NEW k \in 1..Len(v), k < f PROVE v[k] # c
  <2>1. CASE k = Len(w) + 1
    BY <1>1, <1>2, <1>5, <2>1
  <2>2. CASE k # Len(w) + 1
    BY <1>1, <1>2, <1>5, <2>2
  <2>3. QED
    BY <2>1, <2>2
<1> HIDE DEF f
<1>6. FirstOf(v, c) = f
  BY <1>1, <1>3, <1>4, <1>5, FirstOfOnly
<1>7. QED
  BY <1>6 DEF f, g, v

\* A part of w, and the same part when w has one byte more.
LEMMA PartOf ==
  ASSUME NEW w \in Seq(Byte), NEW m \in 1..Len(w) + 2, NEW n \in 0..Len(w), m <= n + 2
  PROVE  LET s == SubSeq(w, m, n)
         IN  /\ s \in Seq(Byte) /\ Len(s) = (IF m <= n THEN n - m + 1 ELSE 0)
             /\ \A i \in 1..Len(s) : s[i] = w[m + i - 1]
<1>1. Len(w) \in Nat /\ \A i \in 1..Len(w) : w[i] \in Byte
  BY LenProperties, ElementOfSeq
<1>2. \A i \in m..n : w[i] \in Byte
  BY <1>1
<1> DEFINE s == SubSeq(w, m, n)
<1>3. s \in Seq(Byte) /\ Len(s) = (IF m <= n THEN n - m + 1 ELSE 0)
      /\ \A i \in 1..n - m + 1 : s[i] = w[m + i - 1]
  BY <1>1, <1>2, SubSeqProperties
<1> HIDE DEF s
<1>4. \A i \in 1..Len(s) : s[i] = w[m + i - 1]
  BY <1>1, <1>3
<1>5. QED
  BY <1>3, <1>4 DEF s

\* One more byte leaves the parts of a sequence that end before it as they were.
LEMMA PartStays ==
  ASSUME NEW w \in Seq(Byte), NEW b \in Byte, NEW m \in 1..Len(w) + 2, NEW n \in 0..Len(w), m <= n + 2
  PROVE  SubSeq(Append(w, b), m, n) = SubSeq(w, m, n)
<1> DEFINE v == Append(w, b)
           s == SubSeq(w, m, n)
           t == SubSeq(v, m, n)
<1>1. Len(w) \in Nat /\ v \in Seq(Byte) /\ Len(v) = Len(w) + 1 /\ \A k \in 1..Len(w) : v[k] = w[k]
  BY LenProperties, AppendProperties
<1>2. /\ s \in Seq(Byte) /\ Len(s) = (IF m <= n THEN n - m + 1 ELSE 0)
      /\ \A i \in 1..Len(s) : s[i] = w[m + i - 1]
  BY PartOf
<1> HIDE DEF v
<1>3. /\ t \in Seq(Byte) /\ Len(t) = (IF m <= n THEN n - m + 1 ELSE 0)
      /\ \A i \in 1..Len(t) : t[i] = v[m + i - 1]
  BY <1>1, PartOf
<1> HIDE DEF s, t
<1>4. ASSUME NEW i \in 1..Len(t) PROVE t[i] = s[i]
  <2>1. i \in 1..Len(s) /\ m + i - 1 \in 1..Len(w)
    BY <1>1, <1>2, <1>3
  <2>2. t[i] = v[m + i - 1] /\ s[i] = w[m + i - 1] /\ v[m + i - 1] = w[m + i - 1]
    BY <1>1, <1>2, <1>3, <2>1
  <2>3. QED
    BY <2>2
<1>5. t = s
  BY <1>2, <1>3, <1>4, SeqEqual
<1>6. QED
  BY <1>5 DEF s, t, v

\* The part that runs to the end grows by the byte appended.
LEMMA PartGrows ==
  ASSUME NEW w \in Seq(Byte), NEW b \in Byte, NEW m \in 1..Len(w) + 1
  PROVE  SubSeq(Append(w, b), m, Len(w) + 1) = Append(SubSeq(w, m, Len(w)), b)
<1> DEFINE v == Append(w, b)
           s == SubSeq(w, m, Len(w))
           t == SubSeq(v, m, Len(w) + 1)
           u == Append(s, b)
<1>1. Len(w) \in Nat /\ v \in Seq(Byte) /\ Len(v) = Len(w) + 1 /\ v[Len(w) + 1] = b
      /\ \A k \in 1..Len(w) : v[k] = w[k]
  BY LenProperties, AppendProperties
<1>2. /\ s \in Seq(Byte) /\ Len(s) = Len(w) - m + 1 /\ \A i \in 1..Len(s) : s[i] = w[m + i - 1]
  BY <1>1, PartOf
<1> HIDE DEF v
<1>3. /\ t \in Seq(Byte) /\ Len(t) = Len(w) - m + 2 /\ \A i \in 1..Len(t) : t[i] = v[m + i - 1]
  BY <1>1, PartOf
<1> HIDE DEF s, t
<1>4. u \in Seq(Byte) /\ Len(u) = Len(s) + 1 /\ u[Len(s) + 1] = b /\ \A i \in 1..Len(s) : u[i] = s[i]
  BY ZenonT(60), <1>2, AppendProperties
<1> HIDE DEF u
<1>5. ASSUME NEW i \in 1..Len(t) PROVE t[i] = u[i]
  <2>1. CASE i = Len(s) + 1
    BY <1>1, <1>2, <1>3, <1>4, <2>1
  <2>2. CASE i # Len(s) + 1
    <3> DEFINE size == Len(w)
               half == Len(s)
    <3>0. size \in Nat /\ half = size - m + 1 /\ Len(t) = size - m + 2 /\ m \in 1..size + 1
      BY <1>1, <1>2, <1>3
    <3> HIDE DEF size, half
    <3>a. i \in Nat /\ 1 <= i /\ i <= half + 1 /\ i # half + 1
      BY <3>0, <2>2 DEF half
    <3>b. i \in 1..half /\ m + i - 1 \in 1..size
      BY <3>0, <3>a
    <3>1. i \in 1..Len(s) /\ m + i - 1 \in 1..Len(w)
      BY <3>b DEF half, size
    <3>2. t[i] = v[m + i - 1] /\ s[i] = w[m + i - 1] /\ v[m + i - 1] = w[m + i - 1]
          /\ u[i] = s[i]
      BY <1>1, <1>2, <1>3, <1>4, <3>1
    <3>3. QED
      BY <3>2
  <2>3. QED
    BY <2>1, <2>2
<1>a. Len(t) = Len(u)
  BY <1>1, <1>2, <1>3, <1>4
<1>6. t = u
  BY <1>3, <1>4, <1>5, <1>a, SeqEqual
<1>7. QED
  BY <1>6 DEF s, t, u, v

-----------------------------------------------------------------------------
(* A line grows by one byte.                                               *)

EndOf(w) == FirstOf(w, CR)
HeadOf(w) == SubSeq(w, 1, EndOf(w) - 1)
SpaceOf(w) == FirstOf(HeadOf(w), SP)

LineOf(v, a, x, y, z) == [verb |-> v, arg |-> a, spaced |-> x, ended |-> y, after |-> z]

Lines == [verb : Seq(Byte), arg : Seq(Byte), spaced : BOOLEAN, ended : BOOLEAN, after : Seq(Byte)]

\* What one more byte makes of a line.
LineStep(l, c) ==
  IF l.ended THEN [l EXCEPT !.after = Append(@, c)]
  ELSE IF c = CR THEN [l EXCEPT !.ended = TRUE]
  ELSE IF l.spaced THEN [l EXCEPT !.arg = Append(@, c)]
  ELSE IF c = SP THEN [l EXCEPT !.spaced = TRUE]
  ELSE [l EXCEPT !.verb = Append(@, c)]

\* The line of some bytes, by its parts.
LEMMA LineIs ==
  ASSUME NEW w
  PROVE  Line(w) = LineOf(SubSeq(w, 1, SpaceOf(w) - 1), SubSeq(w, SpaceOf(w) + 1, EndOf(w) - 1),
                          SpaceOf(w) < EndOf(w), EndOf(w) <= Len(w), SubSeq(w, EndOf(w) + 1, Len(w)))
BY DEF Line, LineOf, SpaceOf, EndOf, HeadOf

\* What LineOf builds is a line.
LEMMA LineOfType ==
  ASSUME NEW v \in Seq(Byte), NEW a \in Seq(Byte), NEW x \in BOOLEAN, NEW y \in BOOLEAN, NEW z \in Seq(Byte)
  PROVE  LineOf(v, a, x, y, z) \in Lines
BY DEF LineOf, Lines

Grown(v, a, x, y, z, c) ==
  LET next == LineStep(LineOf(v, a, x, y, z), c)
  IN  /\ y => next = LineOf(v, a, x, y, Append(z, c))
      /\ ~y /\ c = CR => next = LineOf(v, a, x, TRUE, z)
      /\ ~y /\ c # CR /\ x => next = LineOf(v, Append(a, c), x, y, z)
      /\ ~y /\ c # CR /\ ~x /\ c = SP => next = LineOf(v, a, TRUE, y, z)
      /\ ~y /\ c # CR /\ ~x /\ c # SP => next = LineOf(Append(v, c), a, x, y, z)

\* One byte more, by the part of the line it belongs to.
LEMMA LineOfStep ==
  ASSUME NEW v, NEW a, NEW x, NEW y, NEW z, NEW c
  PROVE  Grown(v, a, x, y, z, c)
<1> DEFINE l == LineOf(v, a, x, y, z)
<1>1. l.spaced = x /\ l.ended = y
  BY DEF LineOf
<1>2. /\ [l EXCEPT !.after = Append(@, c)] = LineOf(v, a, x, y, Append(z, c))
      /\ [l EXCEPT !.ended = TRUE] = LineOf(v, a, x, TRUE, z)
      /\ [l EXCEPT !.arg = Append(@, c)] = LineOf(v, Append(a, c), x, y, z)
      /\ [l EXCEPT !.spaced = TRUE] = LineOf(v, a, TRUE, y, z)
      /\ [l EXCEPT !.verb = Append(@, c)] = LineOf(Append(v, c), a, x, y, z)
  <2>1. l.after = z /\ l.arg = a /\ l.verb = v
    BY DEF LineOf
  <2>2. \A new : [l EXCEPT !.after = new] = LineOf(v, a, x, y, new)
    BY DEF LineOf
  <2>3. \A new : [l EXCEPT !.ended = new] = LineOf(v, a, x, new, z)
    BY DEF LineOf
  <2>4. \A new : [l EXCEPT !.arg = new] = LineOf(v, new, x, y, z)
    BY DEF LineOf
  <2>5. \A new : [l EXCEPT !.spaced = new] = LineOf(v, a, new, y, z)
    BY DEF LineOf
  <2>6. \A new : [l EXCEPT !.verb = new] = LineOf(new, a, x, y, z)
    BY DEF LineOf
  <2> HIDE DEF l
  <2>7. QED
    BY <2>1, <2>2, <2>3, <2>4, <2>5, <2>6
<1> HIDE DEF l
<1>3. LineStep(l, c) = IF l.ended THEN [l EXCEPT !.after = Append(@, c)]
                       ELSE IF c = CR THEN [l EXCEPT !.ended = TRUE]
                       ELSE IF l.spaced THEN [l EXCEPT !.arg = Append(@, c)]
                       ELSE IF c = SP THEN [l EXCEPT !.spaced = TRUE]
                       ELSE [l EXCEPT !.verb = Append(@, c)]
  BY Zenon DEF LineStep
<1>4. QED
  BY <1>1, <1>2, <1>3, Zenon DEF l, Grown

\* Where a line is divided.
LEMMA Divided ==
  ASSUME NEW w \in Seq(Byte)
  PROVE  /\ Len(w) \in Nat /\ EndOf(w) \in 1..Len(w) + 1 /\ SpaceOf(w) \in 1..EndOf(w)
         /\ HeadOf(w) \in Seq(Byte) /\ Len(HeadOf(w)) = EndOf(w) - 1
<1>1. Len(w) \in Nat /\ EndOf(w) \in 1..Len(w) + 1
  BY LenProperties, FirstOfIs DEF EndOf
<1> DEFINE n == EndOf(w) - 1
<1>2. n \in 0..Len(w) /\ 1 \in 1..Len(w) + 2 /\ 1 <= n + 2 /\ (1 <= n => n - 1 + 1 = n) /\ (~(1 <= n) => n = 0)
  BY <1>1
<1>3. HeadOf(w) = SubSeq(w, 1, n)
  BY DEF HeadOf
<1> HIDE DEF n
<1>4. HeadOf(w) \in Seq(Byte) /\ Len(HeadOf(w)) = n
  BY <1>2, <1>3, PartOf
<1>5. SpaceOf(w) \in 1..n + 1
  BY <1>4, FirstOfIs DEF SpaceOf
<1>6. QED
  BY <1>1, <1>4, <1>5 DEF n

\* Any bytes have a line.
LEMMA LineType ==
  ASSUME NEW w \in Seq(Byte)
  PROVE  Line(w) \in Lines
<1> DEFINE e == EndOf(w)
           s == SpaceOf(w)
<1>1. Len(w) \in Nat /\ e \in 1..Len(w) + 1 /\ s \in 1..e
  BY Divided
<1> HIDE DEF e, s
<1>2. SubSeq(w, 1, s - 1) \in Seq(Byte)
  BY <1>1, PartOf
<1>3. SubSeq(w, s + 1, e - 1) \in Seq(Byte)
  BY <1>1, PartOf
<1>4. SubSeq(w, e + 1, Len(w)) \in Seq(Byte)
  BY <1>1, PartOf
<1>5. (s < e) \in BOOLEAN /\ (e <= Len(w)) \in BOOLEAN
  OBVIOUS
<1>6. LineOf(SubSeq(w, 1, s - 1), SubSeq(w, s + 1, e - 1), s < e, e <= Len(w), SubSeq(w, e + 1, Len(w))) \in Lines
  BY <1>2, <1>3, <1>4, <1>5, LineOfType
<1>7. QED
  BY <1>6, LineIs DEF e, s

\* Nothing read, nothing of a line.
LEMMA LineOfNothing == Line(<<>>) = LineOf(<<>>, <<>>, FALSE, FALSE, <<>>)
<1> DEFINE w == <<>>
           e == EndOf(w)
           s == SpaceOf(w)
<1>1. w \in Seq(Byte) /\ Len(w) = 0
  BY EmptySeq
<1> HIDE DEF w
<1> HIDE DEF e, s
<1>2. e \in 1..Len(w) + 1 /\ s \in 1..e
  BY <1>1, Divided DEF e, s
<1>3. Line(w) = LineOf(SubSeq(w, 1, s - 1), SubSeq(w, s + 1, e - 1), s < e, e <= Len(w), SubSeq(w, e + 1, Len(w)))
  BY LineIs DEF e, s
<1>4. SubSeq(w, 1, 0) = <<>> /\ SubSeq(w, 2, 0) = <<>>
  BY SubSeqEmpty
<1>5. s - 1 = 0 /\ s + 1 = 2 /\ e - 1 = 0 /\ e + 1 = 2 /\ (s < e) = FALSE /\ (e <= 0) = FALSE
  BY <1>1, <1>2
<1>6. Line(w) = LineOf(<<>>, <<>>, FALSE, FALSE, <<>>)
  BY <1>1, <1>3, <1>4, <1>5
<1>7. QED
  BY <1>6 DEF w

\* The line of one byte more is one step from the line.
LEMMA LineGrows ==
  ASSUME NEW w \in Seq(Byte), NEW c \in Byte
  PROVE  Line(Append(w, c)) = LineStep(Line(w), c)
<1> DEFINE v == Append(w, c)
           n == Len(w)
           e == EndOf(w)
           s == SpaceOf(w)
           h == HeadOf(w)
           f == EndOf(v)
           t == SpaceOf(v)
           V == SubSeq(w, 1, s - 1)
           A == SubSeq(w, s + 1, e - 1)
           Z == SubSeq(w, e + 1, n)
<1>1. n \in Nat /\ e \in 1..n + 1 /\ s \in 1..e /\ h \in Seq(Byte) /\ Len(h) = e - 1
  BY Divided
<1>2. v \in Seq(Byte) /\ Len(v) = n + 1
  BY AppendProperties
<1>3. Line(w) = LineOf(V, A, s < e, e <= n, Z)
  BY LineIs
<1>a. Line(v) = LineOf(SubSeq(v, 1, t - 1), SubSeq(v, t + 1, f - 1), t < f, f <= n + 1, SubSeq(v, f + 1, n + 1))
  BY <1>2, LineIs
<1> HIDE DEF V, A, Z
<1>b. LET next == LineStep(Line(w), c)
      IN  /\ e <= n => next = LineOf(V, A, s < e, e <= n, Append(Z, c))
          /\ ~(e <= n) /\ c = CR => next = LineOf(V, A, s < e, TRUE, Z)
          /\ ~(e <= n) /\ c # CR /\ s < e => next = LineOf(V, Append(A, c), s < e, e <= n, Z)
          /\ ~(e <= n) /\ c # CR /\ ~(s < e) /\ c = SP => next = LineOf(V, A, TRUE, e <= n, Z)
          /\ ~(e <= n) /\ c # CR /\ ~(s < e) /\ c # SP => next = LineOf(Append(V, c), A, s < e, e <= n, Z)
  <2>1. Grown(V, A, s < e, e <= n, Z, c)
    BY LineOfStep
  <2>2. QED
    BY <1>3, <2>1, Zenon DEF Grown
<1> USE DEF V, A, Z
<1>4. f = IF e <= n THEN e ELSE IF c = CR THEN n + 1 ELSE n + 2
  BY FirstOfAppend DEF EndOf
<1>5. HeadOf(v) = SubSeq(v, 1, f - 1) /\ h = SubSeq(w, 1, e - 1)
  BY DEF HeadOf
<1>6. t = FirstOf(HeadOf(v), SP) /\ s = FirstOf(h, SP)
  BY DEF SpaceOf
<1> HIDE DEF e, s, h, f, t
<1>7. /\ \A i \in 1..n + 2 : \A j \in 0..n : i <= j + 2 => SubSeq(v, i, j) = SubSeq(w, i, j)
      /\ \A i \in 1..n + 1 : SubSeq(v, i, n + 1) = Append(SubSeq(w, i, n), c)
  <2>1. ASSUME NEW i \in 1..n + 2, NEW j \in 0..n, i <= j + 2 PROVE SubSeq(v, i, j) = SubSeq(w, i, j)
    BY <2>1, PartStays
  <2>2. ASSUME NEW i \in 1..n + 1 PROVE SubSeq(v, i, n + 1) = Append(SubSeq(w, i, n), c)
    BY PartGrows
  <2>3. QED
    BY <2>1, <2>2
<1> HIDE DEF v, n
<1>8. \A i, j \in Int : j < i => SubSeq(v, i, j) = <<>> /\ SubSeq(w, i, j) = <<>>
  BY SubSeqEmpty
<1>9. CASE e <= n
  <2>1. f = e
    BY <1>4, <1>9
  <2>2. 1 \in 1..n + 2 /\ e - 1 \in 0..n /\ s - 1 \in 0..n /\ s + 1 \in 1..n + 2 /\ e + 1 \in 1..n + 1
        /\ 1 <= e - 1 + 2 /\ 1 <= s - 1 + 2 /\ s + 1 <= e - 1 + 2
    BY <1>1, <1>9
  <2>3. t = s
    BY <1>5, <1>6, <1>7, <2>1, <2>2
  <2>4. /\ SubSeq(v, 1, s - 1) = SubSeq(w, 1, s - 1) /\ SubSeq(v, s + 1, e - 1) = SubSeq(w, s + 1, e - 1)
        /\ SubSeq(v, e + 1, n + 1) = Append(SubSeq(w, e + 1, n), c)
    BY <1>7, <2>2
  <2>5. (f <= n + 1) = TRUE /\ (e <= n) = TRUE
    BY <1>1, <2>1, <1>9
  <2>6. Line(v) = LineOf(V, A, s < e, e <= n, Append(Z, c))
    BY <1>a, <2>1, <2>3, <2>4, <2>5, Zenon
  <2>7. QED
    BY <1>9, <1>b, <2>6, Zenon DEF v
<1>10. CASE ~(e <= n) /\ c = CR
  <2>1. f = e /\ e = n + 1
    BY <1>1, <1>4, <1>10
  <2>2. 1 \in 1..n + 2 /\ e - 1 \in 0..n /\ s - 1 \in 0..n /\ s + 1 \in 1..n + 2
        /\ 1 <= e - 1 + 2 /\ 1 <= s - 1 + 2 /\ s + 1 <= e - 1 + 2
    BY <1>1, <2>1
  <2>3. t = s
    BY <1>5, <1>6, <1>7, <2>1, <2>2
  <2>4. SubSeq(v, 1, s - 1) = SubSeq(w, 1, s - 1) /\ SubSeq(v, s + 1, e - 1) = SubSeq(w, s + 1, e - 1)
    BY <1>7, <2>2
  <2>5. e + 1 \in Int /\ n \in Int /\ n + 1 \in Int /\ n < e + 1 /\ n + 1 < e + 1
    BY <1>1, <2>1
  <2>6. SubSeq(v, e + 1, n + 1) = <<>> /\ SubSeq(w, e + 1, n) = <<>>
    BY <1>8, <2>5
  <2>7. (f <= n + 1) = TRUE /\ (e <= n) = FALSE
    BY <1>1, <2>1
  <2>8. Line(v) = LineOf(V, A, s < e, TRUE, Z)
    BY <1>a, <2>1, <2>3, <2>4, <2>6, <2>7, Zenon
  <2>9. QED
    BY <1>10, <1>b, <2>8, Zenon DEF v
<1>11. CASE ~(e <= n) /\ c # CR
  <2>1. f = n + 2 /\ e = n + 1 /\ Len(h) = n /\ f - 1 = n + 1 /\ e - 1 = n
    BY <1>1, <1>4, <1>11
  <2>2. HeadOf(v) = Append(h, c)
    BY <1>1, <1>5, <1>7, <2>1
  <2>3. t = IF s <= n THEN s ELSE IF c = SP THEN n + 1 ELSE n + 2
    BY <1>1, <1>6, <2>1, <2>2, FirstOfAppend
  <2>4. f + 1 \in Int /\ n + 1 \in Int /\ n \in Int /\ e + 1 \in Int /\ n + 1 < f + 1 /\ n < e + 1
    BY <1>1, <2>1
  <2>5. SubSeq(v, f + 1, n + 1) = <<>> /\ SubSeq(w, e + 1, n) = <<>>
    BY <1>8, <2>4
  <2>6. (f <= n + 1) = FALSE /\ (e <= n) = FALSE
    BY <1>1, <2>1
  <2>8. CASE s <= n
    <3>1. t = s
      BY <2>3, <2>8
    <3>2. 1 \in 1..n + 2 /\ s - 1 \in 0..n /\ 1 <= s - 1 + 2 /\ s + 1 \in 1..n + 1
      BY <1>1, <2>8
    <3>3. SubSeq(v, 1, s - 1) = SubSeq(w, 1, s - 1) /\ SubSeq(v, s + 1, n + 1) = Append(SubSeq(w, s + 1, n), c)
      BY <1>7, <3>2
    <3>4. (t < f) = TRUE /\ (s < e) = TRUE
      BY <1>1, <2>1, <2>8, <3>1
    <3>5. Line(v) = LineOf(V, Append(A, c), s < e, e <= n, Z)
      BY <1>a, <2>1, <2>5, <2>6, <3>1, <3>3, <3>4, Zenon
    <3>6. QED
      BY <1>11, <1>b, <3>4, <3>5, Zenon DEF v
  <2>9. CASE ~(s <= n) /\ c = SP
    <3>1. t = s /\ s = n + 1
      BY <1>1, <2>1, <2>3, <2>9
    <3>2. 1 \in 1..n + 2 /\ s - 1 \in 0..n /\ 1 <= s - 1 + 2
      BY <1>1, <3>1
    <3>3. SubSeq(v, 1, s - 1) = SubSeq(w, 1, s - 1)
      BY <1>7, <3>2
    <3>4. s + 1 \in Int /\ n + 1 < s + 1 /\ n < s + 1
      BY <1>1, <3>1
    <3>5. SubSeq(v, s + 1, n + 1) = <<>> /\ SubSeq(w, s + 1, n) = <<>>
      BY <1>8, <2>4, <3>4
    <3>6. (t < f) = TRUE /\ (s < e) = FALSE
      BY <1>1, <2>1, <3>1
    <3>7. s + 1 = n + 2 /\ SubSeq(v, t + 1, f - 1) = <<>> /\ A = <<>>
      BY <2>1, <3>1, <3>5
    <3>8. Line(v) = LineOf(V, A, TRUE, e <= n, Z)
      BY <1>a, <2>5, <2>6, <3>1, <3>3, <3>6, <3>7, Zenon
    <3>9. QED
      BY <1>11, <1>b, <2>9, <3>6, <3>8, Zenon DEF v
  <2>10. CASE ~(s <= n) /\ c # SP
    <3>1. t = n + 2 /\ s = n + 1 /\ t - 1 = n + 1 /\ s - 1 = n
      BY <1>1, <2>1, <2>3, <2>10
    <3>2. 1 \in 1..n + 1
      BY <1>1
    <3>3. SubSeq(v, 1, n + 1) = Append(SubSeq(w, 1, n), c)
      BY <1>7, <3>2
    <3>4. s + 1 \in Int /\ t + 1 \in Int /\ n + 1 < t + 1 /\ n < s + 1
      BY <1>1, <3>1
    <3>5. SubSeq(v, t + 1, n + 1) = <<>> /\ SubSeq(w, s + 1, n) = <<>>
      BY <1>8, <2>4, <3>4
    <3>6. (t < f) = FALSE /\ (s < e) = FALSE
      BY <1>1, <2>1, <3>1
    <3>7. SubSeq(v, t + 1, f - 1) = <<>> /\ A = <<>> /\ SubSeq(v, 1, t - 1) = Append(V, c)
      BY <2>1, <3>1, <3>3, <3>5
    <3>8. Line(v) = LineOf(Append(V, c), A, s < e, e <= n, Z)
      BY <1>a, <2>5, <2>6, <3>6, <3>7, Zenon
    <3>9. QED
      BY <1>11, <1>b, <2>10, <3>6, <3>8, Zenon DEF v
  <2>11. QED
    BY <2>8, <2>9, <2>10
<1>12. QED
  BY <1>9, <1>10, <1>11

-----------------------------------------------------------------------------
(* What an array holds.                                                    *)

\* An array with one element changed.
Put(a, i, c) == [a EXCEPT ![i] = c]

\* An array of NULs into which s was stored.
Filled(max, s) == [k \in 0..max |-> IF k < Len(s) THEN s[k + 1] ELSE NUL]

\* The greatest of 0..n.
LEMMA MaxIs ==
  ASSUME NEW n \in Nat
  PROVE  Max(0..n) = n
<1>1. n \in 0..n /\ \A y \in 0..n : n >= y
  OBVIOUS
<1>2. PICK x \in 0..n : x = Max(0..n) /\ \A y \in 0..n : x >= y
  BY <1>1 DEF Max
<1>3. x = n
  BY <1>1, <1>2
<1>4. QED
  BY <1>2, <1>3

\* A filled array has its size.
LEMMA FilledType ==
  ASSUME NEW max \in Nat, NEW s \in Seq(Byte)
  PROVE  Filled(max, s) \in [0..max -> Byte]
<1>1. NUL \in Byte
  BY ParserAssumption
<1>2. ASSUME NEW k \in 0..max, k < Len(s) PROVE s[k + 1] \in Byte
  <2>1. k + 1 \in 1..Len(s)
    BY <1>2, LenProperties
  <2>2. QED
    BY <2>1, ElementOfSeq
<1>3. QED
  BY <1>1, <1>2 DEF Filled

\* memset: an array filled with nothing is zeros.
LEMMA FilledWithNothing ==
  ASSUME NEW max
  PROVE  Filled(max, <<>>) = [k \in 0..max |-> NUL]
<1>1. Len(<<>>) = 0
  BY EmptySeq
<1>2. \A k \in 0..max : ~(k < Len(<<>>))
  BY <1>1
<1>3. QED
  BY <1>2 DEF Filled

\* Storing a byte at the index is filling with one byte more.
LEMMA FilledGrows ==
  ASSUME NEW max \in Nat, NEW s \in Seq(Byte), NEW c \in Byte
  PROVE  Put(Filled(max, s), Len(s), c) = Filled(max, Append(s, c))
<1> DEFINE n == Len(s)
           a == Filled(max, s)
           v == Append(s, c)
           b == [k \in 0..max |-> IF k < n + 1 THEN v[k + 1] ELSE NUL]
<1>1. n \in Nat /\ Len(v) = n + 1 /\ v[n + 1] = c /\ \A k \in 1..n : v[k] = s[k]
  BY LenProperties, AppendProperties
<1> HIDE DEF v
<1>2. a = [k \in 0..max |-> IF k < n THEN s[k + 1] ELSE NUL]
  BY DEF Filled
<1> HIDE DEF a, n
<1>3. ASSUME NEW k \in 0..max PROVE [a EXCEPT ![n] = c][k] = b[k]
  <2>1. CASE k = n
    BY <1>1, <1>2, <2>1
  <2>2. CASE k < n
    <3>1. k + 1 \in 1..n /\ k # n /\ k < n + 1
      BY <1>1, <2>2
    <3>2. v[k + 1] = s[k + 1]
      BY <1>1, <3>1
    <3>3. QED
      BY <1>2, <2>2, <3>1, <3>2
  <2>3. CASE k > n
    <3>1. ~(k < n) /\ k # n /\ ~(k < n + 1)
      BY <1>1, <2>3
    <3>2. QED
      BY <1>2, <3>1
  <2>4. QED
    BY <1>1, <2>1, <2>2, <2>3
<1>4. [a EXCEPT ![n] = c] = b
  BY <1>2, <1>3
<1>5. Filled(max, v) = b
  BY <1>1 DEF Filled
<1>6. QED
  BY <1>4, <1>5 DEF a, n, v, Put

\* The terminator written at the index was there already.
LEMMA FilledEnds ==
  ASSUME NEW max \in Nat, NEW s \in Seq(Byte)
  PROVE  Put(Filled(max, s), Len(s), NUL) = Filled(max, s)
<1>1. Len(s) \in Nat
  BY LenProperties
<1>2. Len(s) \in 0..max => Filled(max, s)[Len(s)] = NUL
  BY <1>1 DEF Filled
<1>3. Filled(max, s) \in [0..max -> Byte]
  BY FilledType
<1> DEFINE a == Filled(max, s)
<1> HIDE DEF a
<1>4. [a EXCEPT ![Len(s)] = NUL] = a
  BY <1>2, <1>3 DEF a
<1>5. QED
  BY <1>4 DEF a, Put

\* A terminator anywhere in an empty array changes nothing.
LEMMA NothingEnds ==
  ASSUME NEW max, NEW i
  PROVE  Put(Filled(max, <<>>), i, NUL) = Filled(max, <<>>)
<1>1. Filled(max, <<>>) = [k \in 0..max |-> NUL]
  BY FilledWithNothing
<1>2. [[k \in 0..max |-> NUL] EXCEPT ![i] = NUL] = [k \in 0..max |-> NUL]
  OBVIOUS
<1>3. QED
  BY <1>1, <1>2 DEF Put

\* A prefix of a prefix.
LEMMA ShorterPrefix ==
  ASSUME NEW s \in Seq(Byte), NEW m \in 0..Len(s), NEW n \in 0..m
  PROVE  SubSeq(SubSeq(s, 1, m), 1, n) = SubSeq(s, 1, n)
<1>1. Len(s) \in Nat
  BY LenProperties
<1> DEFINE u == SubSeq(s, 1, m)
           v == SubSeq(u, 1, n)
           w == SubSeq(s, 1, n)
<1>2. u \in Seq(Byte) /\ Len(u) = m /\ \A i \in 1..m : u[i] = s[i]
  BY <1>1, PartOf
<1> HIDE DEF u
<1>3. v \in Seq(Byte) /\ Len(v) = n /\ \A i \in 1..n : v[i] = u[i]
  BY <1>1, <1>2, PartOf
<1>4. w \in Seq(Byte) /\ Len(w) = n /\ \A i \in 1..n : w[i] = s[i]
  BY <1>1, PartOf
<1> HIDE DEF v, w
<1>5. \A i \in 1..n : i \in 1..m
  BY <1>1
<1>6. v = w
  BY <1>2, <1>3, <1>4, <1>5, SeqEqual
<1>7. QED
  BY <1>6 DEF u, v, w

\* A prefix, byte by byte.
LEMMA PrefixIs ==
  ASSUME NEW s \in Seq(Byte), NEW n \in 0..Len(s)
  PROVE  /\ SubSeq(s, 1, n) \in Seq(Byte) /\ Len(SubSeq(s, 1, n)) = n
         /\ \A i \in 1..n : SubSeq(s, 1, n)[i] = s[i]
<1>1. Len(s) \in Nat
  BY LenProperties
<1>2. QED
  BY <1>1, PartOf

\* What precedes the first NUL, byte by byte.
LEMMA UpToNulIs ==
  ASSUME NEW s \in Seq(Byte)
  PROVE  LET f == FirstOf(s, NUL)
         IN  /\ f \in 1..Len(s) + 1
             /\ UpToNul(s) \in Seq(Byte) /\ Len(UpToNul(s)) = f - 1
             /\ \A i \in 1..f - 1 : UpToNul(s)[i] = s[i]
<1> DEFINE f == FirstOf(s, NUL)
<1>1. Len(s) \in Nat /\ f \in 1..Len(s) + 1
  BY LenProperties, FirstOfIs
<1> DEFINE u == SubSeq(s, 1, f - 1)
<1>2. UpToNul(s) = u
  BY DEF UpToNul
<1> HIDE DEF f
<1>3. u \in Seq(Byte) /\ Len(u) = f - 1 /\ \A i \in 1..f - 1 : u[i] = s[i]
  BY <1>1, PartOf
<1> HIDE DEF u
<1>4. QED
  BY <1>1, <1>2, <1>3 DEF f

\* An array that holds s and a NUL behind it holds the C string s.
LEMMA TextOf ==
  ASSUME NEW max \in Nat, NEW a \in [0..max -> Byte], NEW s \in Seq(Byte), Len(s) <= max,
         \A k \in 1..Len(s) : a[k - 1] = s[k], a[Len(s)] = NUL
  PROVE  Text(a) = UpToNul(s)
<1> DEFINE n == Len(s)
           f == FirstOf(s, NUL)
           S == {k \in DOMAIN a : a[k] = NUL} \cup {Max(DOMAIN a) + 1}
           end == Min(S)
           u == UpToNul(s)
<1>1. n \in Nat /\ f \in 1..n + 1 /\ (f <= n => s[f] = NUL)
  BY LenProperties, FirstOfIs
<1>2. \A k \in 1..n : k < f => s[k] # NUL
  BY FirstOfIs
<1>3. DOMAIN a = 0..max /\ Max(DOMAIN a) = max
  BY MaxIs
<1>4. S \in SUBSET Nat /\ n \in S
  BY <1>1, <1>3
<1>5. end \in S /\ \A y \in S : end <= y
  BY <1>4, LeastExists
<1>6. u \in Seq(Byte) /\ Len(u) = f - 1 /\ \A i \in 1..f - 1 : u[i] = s[i]
  BY UpToNulIs
<1>7. Text(a) = [k \in 1..end |-> a[k - 1]]
  BY DEF Text
<1>a. n <= max /\ a[n] = NUL
  OBVIOUS
<1>b. ASSUME NEW i \in Nat, i < n PROVE a[i] = s[i + 1]
  <2>1. i + 1 \in 1..Len(s) /\ i + 1 - 1 = i
    BY <1>1, <1>b
  <2>2. QED
    BY <2>1
<1> HIDE DEF end, f, u, n
<1>8. f - 1 \in S
  <2>1. CASE f <= n
    <3>1. f - 1 \in 0..max /\ f - 1 < n /\ f - 1 + 1 = f /\ f - 1 \in Nat
      BY <1>1, <1>a, <2>1
    <3>2. a[f - 1] = NUL
      BY <1>1, <1>b, <2>1, <3>1
    <3>3. QED
      BY <1>3, <3>1, <3>2
  <2>2. CASE ~(f <= n)
    <3>1. f - 1 = n
      BY <1>1, <2>2
    <3>2. QED
      BY <1>4, <3>1
  <2>3. QED
    BY <2>1, <2>2
<1>9. ~(end < f - 1)
  <2>1. SUFFICES ASSUME end < f - 1 PROVE FALSE
    OBVIOUS
  <2>2. end \in Nat /\ end <= n
    BY <1>4, <1>5
  <2>3. end # max + 1 /\ end + 1 \in 1..n /\ end + 1 < f /\ end < n
    BY <1>1, <1>a, <2>1, <2>2
  <2>4. a[end] = NUL
    BY <1>3, <1>5, <2>3
  <2>5. a[end] = s[end + 1]
    BY <1>b, <2>2, <2>3
  <2>6. s[end + 1] # NUL
    BY <1>2, <2>3
  <2>7. QED
    BY <2>3, <2>4, <2>5, <2>6
<1>10. end = f - 1
  <2>1. end <= f - 1 /\ end \in Nat /\ f - 1 \in Nat
    BY <1>1, <1>4, <1>5, <1>8
  <2>2. QED
    BY <1>9, <2>1
<1>11. ASSUME NEW i \in 1..f - 1 PROVE a[i - 1] = u[i]
  <2>1. i - 1 \in Nat /\ i - 1 < n /\ i - 1 + 1 = i
    BY <1>1
  <2>2. QED
    BY <1>b, <1>6, <2>1
<1>12. u = [i \in 1..f - 1 |-> u[i]]
  BY <1>6, LenProperties
<1>13. QED
  BY <1>7, <1>10, <1>11, <1>12 DEF u

\* The C string in a filled array is what was stored, up to its first NUL.
LEMMA TextOfFilled ==
  ASSUME NEW max \in Nat, NEW s \in Seq(Byte), Len(s) <= max
  PROVE  Text(Filled(max, s)) = UpToNul(s)
<1>1. Len(s) \in Nat
  BY LenProperties
<1>2. Filled(max, s) \in [0..max -> Byte]
  BY FilledType
<1>3. (\A k \in 1..Len(s) : Filled(max, s)[k - 1] = s[k]) /\ Filled(max, s)[Len(s)] = NUL
  BY <1>1 DEF Filled
<1> DEFINE a == Filled(max, s)
<1> HIDE DEF a
<1>4. Text(a) = UpToNul(s)
  BY <1>1, <1>2, <1>3, TextOf DEF a
<1>5. QED
  BY <1>4 DEF a

\* Verbs have no NUL, so that what is cut off at one makes no difference.
LEMMA StartsUpToNul ==
  ASSUME NEW s \in Seq(Byte), NEW V, \A v \in V : v \in Seq(Byte \ {NUL})
  PROVE  StartsWithVerb(UpToNul(s), V) <=> StartsWithVerb(s, V)
<1> DEFINE f == FirstOf(s, NUL)
           u == UpToNul(s)
<1>1. Len(s) \in Nat /\ f \in 1..Len(s) + 1 /\ (f <= Len(s) => s[f] = NUL)
  BY LenProperties, FirstOfIs
<1>2. Len(u) = f - 1 /\ u = SubSeq(s, 1, f - 1)
  BY UpToNulIs DEF UpToNul
<1> HIDE DEF f, u
<1>3. ASSUME NEW n \in 0..f - 1 PROVE SubSeq(u, 1, n) = SubSeq(s, 1, n)
  <2>1. f - 1 \in 0..Len(s)
    BY <1>1
  <2>2. QED
    BY <1>2, <2>1, ShorterPrefix
<1>4. ASSUME NEW v \in V, Len(v) <= Len(u), SubSeq(u, 1, Len(v)) = v
      PROVE  Len(v) <= Len(s) /\ SubSeq(s, 1, Len(v)) = v
  <2>1. Len(v) \in Nat
    BY LenProperties
  <2>2. Len(v) \in 0..f - 1
    BY <1>1, <1>2, <1>4, <2>1
  <2>3. QED
    BY <1>1, <1>3, <1>4, <2>2
<1>5. ASSUME NEW v \in V, Len(v) <= Len(s), SubSeq(s, 1, Len(v)) = v
      PROVE  Len(v) <= Len(u) /\ SubSeq(u, 1, Len(v)) = v
  <2>1. Len(v) \in Nat /\ \A i \in 1..Len(v) : v[i] # NUL
    <3>1. v \in Seq(Byte \ {NUL})
      OBVIOUS
    <3>2. QED
      BY <3>1, LenProperties, ElementOfSeq
  <2> DEFINE m == Len(v)
             t == SubSeq(s, 1, m)
  <2>2. m \in 0..Len(s)
    BY <1>1, <1>5, <2>1
  <2> HIDE DEF m
  <2>3. \A i \in 1..Len(t) : t[i] = s[1 + i - 1]
    BY <1>1, <2>2, PartOf
  <2>4. t = v
    BY <1>5 DEF m
  <2>5. f \in 1..m => s[1 + f - 1] = v[f]
    BY <2>3, <2>4 DEF m
  <2>6. ~(f <= m)
    <3>1. SUFFICES ASSUME f <= m PROVE FALSE
      OBVIOUS
    <3>2. f \in 1..m /\ f <= Len(s) /\ 1 + f - 1 = f
      BY <1>1, <2>2, <3>1
    <3>3. s[f] = v[f] /\ v[f] # NUL
      BY <2>1, <2>5, <3>2 DEF m
    <3>4. QED
      BY <1>1, <3>2, <3>3
  <2>7. m \in 0..f - 1
    BY <1>1, <2>2, <2>6
  <2>8. QED
    BY <1>1, <1>2, <1>3, <1>5, <2>7 DEF m
<1>6. QED
  BY <1>4, <1>5 DEF StartsWithVerb, u

-----------------------------------------------------------------------------
(* What a consume function makes of the bytes it is given.                 *)

LastPlace(m) == IF m = "DATA" THEN DataMax ELSE ArgMax

Parsers(m) == [state : State \cup {"segv"}, i : 0..LastPlace(m), verb : [0..VerbMax -> Byte],
               arg : [0..ArgMax -> Byte], data : [0..DataMax -> Byte]]

\* request_parser_init gives a parser of its mode.
LEMMA InitType ==
  ASSUME NEW m \in Mode
  PROVE  request_parser_init(m) \in Parsers(m)
<1>1. NUL \in Byte /\ LastPlace(m) \in Nat
  BY ParserAssumption DEF LastPlace
<1>2. \A n : [k \in 0..n |-> NUL] \in [0..n -> Byte]
  BY <1>1
<1>3. (IF m = "DATA" THEN "body" ELSE "verb") \in State /\ 0 \in 0..LastPlace(m)
  BY <1>1 DEF State
<1>4. QED
  BY <1>2, <1>3 DEF request_parser_init, Fresh, Parsers

\* What a step may make of a parser, by name.
Goes(q, s) == [q EXCEPT !.state = s]
VerbEnds(q, s) == [q EXCEPT !.verb[q.i] = NUL, !.i = 0, !.state = s]
ArgStarts(q) == [q EXCEPT !.arg[q.i] = NUL, !.i = 0, !.state = "arg"]
ArgEnds(q) == [q EXCEPT !.arg[q.i] = NUL, !.state = "cr"]
DataEnds(q) == [q EXCEPT !.data[q.i - 3] = NUL, !.state = "cr"]
DataFull(q) == [q EXCEPT !.data[q.i] = NUL]

Starts(m, q) == StartsWithVerb(Text(q.verb), WithoutArg[m])

\* verb() of request.c, outcome by outcome.
LEMMA VerbIs ==
  ASSUME NEW q, NEW c
  PROVE  \/ c = SP /\ verb(q, c) = ArgStarts(q)
         \/ c = CR /\ Starts("READ", q) /\ verb(q, c) = VerbEnds(q, "cr")
         \/ c = CR /\ ~Starts("READ", q) /\ verb(q, c) = Goes(q, "error")
         \/ c \notin {SP, CR} /\ q.i < VerbMax /\ verb(q, c) = Stored(q, "verb", c)
         \/ c \notin {SP, CR} /\ ~(q.i < VerbMax) /\ verb(q, c) = Goes(q, "error")
<1>0. SP # CR
  BY DEF SP, CR
<1>1. CASE c = SP
  BY <1>0, <1>1 DEF verb, ArgStarts
<1>2. CASE c = CR
  BY <1>0, <1>2 DEF verb, VerbEnds, Goes, Starts
<1>3. CASE c \notin {SP, CR} /\ q.i < VerbMax
  BY <1>3 DEF verb
<1>4. CASE c \notin {SP, CR} /\ ~(q.i < VerbMax)
  BY <1>4 DEF verb, Goes
<1>5. QED
  BY <1>1, <1>2, <1>3, <1>4

\* command() of request_admin.c, outcome by outcome.
LEMMA CommandIs ==
  ASSUME NEW q, NEW c, NEW r \in command(q, c)
  PROVE  \/ c = SP /\ r = VerbEnds(q, "arg")
         \/ c = CR /\ Starts("ADMIN", q) /\ r = VerbEnds(q, "cr")
         \/ c = CR /\ ~Starts("ADMIN", q) /\ r = Goes(q, "error")
         \/ c \notin {SP, CR} /\ q.i < VerbMax /\ r = Stored(q, "verb", c)
         \/ c \notin {SP, CR} /\ ~(q.i < VerbMax) /\ \E s \in State : r = Goes(q, s)
<1>0. SP # CR
  BY DEF SP, CR
<1>1. CASE c = SP
  <2>1. command(q, c) = {VerbEnds(q, "arg")}
    BY <1>0, <1>1 DEF command, VerbEnds
  <2>2. QED
    BY <1>1, <2>1
<1>2. CASE c = CR
  <2>1. command(q, c) = {IF Starts("ADMIN", q) THEN VerbEnds(q, "cr") ELSE Goes(q, "error")}
    BY <1>0, <1>2 DEF command, Starts, VerbEnds, Goes
  <2>2. QED
    BY <1>2, <2>1
<1>3. CASE c \notin {SP, CR} /\ q.i < VerbMax
  <2>1. command(q, c) = {Stored(q, "verb", c)}
    BY <1>3 DEF command
  <2>2. QED
    BY <1>3, <2>1
<1>4. CASE c \notin {SP, CR} /\ ~(q.i < VerbMax)
  <2>1. command(q, c) = {Goes(q, s) : s \in State}
    BY <1>4 DEF command, Goes
  <2>2. QED
    BY <1>4, <2>1
<1>5. QED
  BY <1>1, <1>2, <1>3, <1>4

\* arg() of request.c, outcome by outcome.
LEMMA ArgIs ==
  ASSUME NEW q, NEW c
  PROVE  \/ c = CR /\ arg(q, c) = ArgEnds(q)
         \/ c # CR /\ q.i < ArgMax /\ arg(q, c) = Stored(q, "arg", c)
         \/ c # CR /\ ~(q.i < ArgMax) /\ arg(q, c) = Goes(q, "error")
BY DEF arg, ArgEnds, Goes

\* body() of request_data.c, outcome by outcome.
LEMMA BodyIs ==
  ASSUME NEW q, q.i \in Nat, NEW c, NEW r \in body(q, c)
  PROVE  \/ Terminates(q, c) /\ q.i > 2 /\ r = DataEnds(q)
         \/ Terminates(q, c) /\ q.i = 2 /\ \E s \in {"cr", "segv"} : r = Goes(q, s)
         \/ ~Terminates(q, c) /\ q.i < DataMax /\ r = Stored(q, "data", c)
         \/ ~Terminates(q, c) /\ ~(q.i < DataMax) /\ r = DataFull(q)
<1>1. Terminates(q, c) => q.i > 2 \/ q.i = 2
  BY DEF Terminates
<1>2. ~(q.i > 2 /\ q.i = 2)
  OBVIOUS
<1>3. CASE Terminates(q, c) /\ q.i > 2
  <2>1. body(q, c) = {DataEnds(q)}
    BY <1>2, <1>3 DEF body, DataEnds
  <2>2. QED
    BY <1>3, <2>1
<1>4. CASE Terminates(q, c) /\ q.i = 2
  <2>1. body(q, c) = {Goes(q, s) : s \in {"cr", "segv"}}
    BY <1>2, <1>4 DEF body, Goes
  <2>2. QED
    BY <1>4, <2>1
<1>5. CASE ~Terminates(q, c) /\ q.i < DataMax
  <2>1. body(q, c) = {Stored(q, "data", c)}
    BY <1>5 DEF body
  <2>2. QED
    BY <1>5, <2>1
<1>6. CASE ~Terminates(q, c) /\ ~(q.i < DataMax)
  <2>1. body(q, c) = {DataFull(q)}
    BY <1>6 DEF body, DataFull
  <2>2. QED
    BY <1>6, <2>1
<1>7. QED
  BY <1>1, <1>3, <1>4, <1>5, <1>6

\* What the parser does with a byte, by its state.
LEMMA FeedIs ==
  ASSUME NEW m \in Mode, NEW q, NEW c, NEW r \in feed(m, q, c)
  PROVE  \/ q.state = "verb" /\ m = "READ" /\ r = verb(q, c)
         \/ q.state = "verb" /\ m = "ADMIN" /\ r \in command(q, c)
         \/ q.state = "arg" /\ m # "DATA" /\ r = arg(q, c)
         \/ q.state = "body" /\ m = "DATA" /\ r \in body(q, c)
         \/ q.state = "cr" /\ r = Goes(q, IF c = LF THEN "done" ELSE "error")
         \/ /\ ~(q.state = "verb" /\ m # "DATA") /\ ~(q.state = "arg" /\ m # "DATA")
            /\ ~(q.state = "body" /\ m = "DATA") /\ q.state # "cr"
            /\ r = Goes(q, "error")
BY DEF feed, Goes, Mode

\* A byte fed leaves a parser of the same mode.
LEMMA FeedType ==
  ASSUME NEW m \in Mode, NEW q \in Parsers(m), NEW c \in Byte, NEW r \in feed(m, q, c)
  PROVE  r \in Parsers(m)
<1>1. NUL \in Byte /\ VerbMax \in Nat /\ ArgMax \in Nat /\ DataMax \in Nat /\ VerbMax <= ArgMax
  BY ParserAssumption
<1>2. \A s \in State \cup {"segv"} : Goes(q, s) \in Parsers(m)
  BY DEF Parsers, Goes
<1>3. q.i \in 0..LastPlace(m) /\ LastPlace(m) \in Nat /\ 0 \in 0..LastPlace(m)
  BY <1>1 DEF Parsers, LastPlace
<1>4. \A k : \A b \in Byte : /\ [q.verb EXCEPT ![k] = b] \in [0..VerbMax -> Byte]
                            /\ [q.arg EXCEPT ![k] = b] \in [0..ArgMax -> Byte]
                            /\ [q.data EXCEPT ![k] = b] \in [0..DataMax -> Byte]
  BY DEF Parsers
<1>5. /\ \A s \in State : VerbEnds(q, s) \in Parsers(m)
      /\ ArgStarts(q) \in Parsers(m) /\ ArgEnds(q) \in Parsers(m)
      /\ DataEnds(q) \in Parsers(m) /\ DataFull(q) \in Parsers(m)
  BY <1>1, <1>3, <1>4 DEF Parsers, VerbEnds, ArgStarts, ArgEnds, DataEnds, DataFull, State
<1>6. q.i + 1 \in 0..LastPlace(m) =>
        Stored(q, "verb", c) \in Parsers(m) /\ Stored(q, "arg", c) \in Parsers(m) /\ Stored(q, "data", c) \in Parsers(m)
  BY <1>4 DEF Parsers, Stored
<1>7. (m # "DATA" /\ (q.i < VerbMax \/ q.i < ArgMax)) \/ (m = "DATA" /\ q.i < DataMax) => q.i + 1 \in 0..LastPlace(m)
  BY <1>1, <1>3 DEF LastPlace
<1>8. {"verb", "arg", "cr", "done", "error"} \subseteq State /\ State \subseteq State \cup {"segv"}
  BY DEF State
<1>9. CASE q.state = "verb" /\ m = "READ" /\ r = verb(q, c)
  BY <1>2, <1>5, <1>6, <1>7, <1>8, <1>9, VerbIs
<1>10. CASE q.state = "verb" /\ m = "ADMIN" /\ r \in command(q, c)
  BY <1>2, <1>5, <1>6, <1>7, <1>8, <1>10, CommandIs
<1>11. CASE q.state = "arg" /\ m # "DATA" /\ r = arg(q, c)
  BY <1>2, <1>5, <1>6, <1>7, <1>8, <1>11, ArgIs
<1>12. CASE q.state = "body" /\ m = "DATA" /\ r \in body(q, c)
  <2>1. q.i \in Nat
    BY <1>3
  <2>2. QED
    BY <1>2, <1>5, <1>6, <1>7, <1>8, <1>12, <2>1, BodyIs
<1>13. CASE r = Goes(q, IF c = LF THEN "done" ELSE "error") \/ r = Goes(q, "error")
  BY <1>2, <1>8, <1>13
<1>14. QED
  BY <1>9, <1>10, <1>11, <1>12, <1>13, FeedIs

\* The end of a read leaves a parser of the same mode.
LEMMA EndedType ==
  ASSUME NEW m \in Mode, NEW q \in Parsers(m)
  PROVE  Ended(m, q) \in Parsers(m)
<1>1. NUL \in Byte
  BY ParserAssumption
<1>2. [q EXCEPT !.data[q.i] = NUL] \in Parsers(m)
  <2>1. [q.data EXCEPT ![q.i] = NUL] \in [0..DataMax -> Byte]
    BY <1>1 DEF Parsers
  <2>2. QED
    BY <2>1 DEF Parsers
<1>3. QED
  BY <1>2 DEF Ended

\* The parsers fed with the first k bytes of b are in J[k], if what one byte makes of a
\* parser of J[k - 1] that goes on is in J[k].
Leads(m, b, J) ==
  \A k \in 1..Len(b) : \A r \in J[k - 1] : ~Stops(m, r) => feed(m, r, b[k]) \subseteq J[k]

\* consume stops when the parser does, and else at the end.
LEMMA ConsumeRun ==
  ASSUME NEW m \in Mode, NEW b \in Seq(Byte), NEW J \in [0..Len(b) -> SUBSET Parsers(m)],
         NEW q \in J[0], Leads(m, b, J), NEW o \in consume(m, q, b)
  PROVE  /\ o.used \in 1..Len(b) /\ o.p \in J[o.used]
         /\ Stops(m, o.p) \/ o.used = Len(b)
<1> DEFINE n == Len(b)
           V == SUBSET Parsers(m)
           G == [k \in 1..n |-> [X \in V |-> UNION {feed(m, r, b[k]) : r \in {r \in X : ~Stops(m, r)}}]]
           run[k \in 0..n] ==
             IF k = 0 THEN {q}
             ELSE UNION {feed(m, r, b[k]) : r \in {r \in run[k - 1] : ~Stops(m, r)}}
<1>1. n \in Nat /\ \A k \in 1..n : b[k] \in Byte
  BY LenProperties, ElementOfSeq
<1>2. q \in Parsers(m)
  BY <1>1
<1>3. {q} \in V
  BY <1>2
<1>4. G \in [1..n -> [V -> V]]
  <2>1. ASSUME NEW k \in 1..n, NEW X \in V
        PROVE  UNION {feed(m, r, b[k]) : r \in {r \in X : ~Stops(m, r)}} \in V
    <3>1. ASSUME NEW r \in X, NEW x \in feed(m, r, b[k]) PROVE x \in Parsers(m)
      BY <1>1, <3>1, FeedType
    <3>2. QED
      BY <3>1
  <2>2. QED
    BY <2>1
<1> HIDE DEF G, V
<1>5. PICK g \in [0..n -> V] : Follows(g, n, {q}, G)
  BY <1>1, <1>3, <1>4, RecursionExists
<1>6. ASSUME NEW k \in 1..n, NEW X \in V
      PROVE  G[k][X] = UNION {feed(m, r, b[k]) : r \in {r \in X : ~Stops(m, r)}}
  BY DEF G
<1>7. ASSUME NEW k \in 0..n
      PROVE  g[k] = IF k = 0 THEN {q} ELSE UNION {feed(m, r, b[k]) : r \in {r \in g[k - 1] : ~Stops(m, r)}}
  <2>1. g[k] = IF k = 0 THEN {q} ELSE G[k][g[k - 1]]
    BY <1>5 DEF Follows
  <2>2. CASE k = 0
    BY <2>1, <2>2
  <2>3. CASE k # 0
    <3>1. k \in 1..n /\ k - 1 \in 0..n
      BY <1>1, <2>3
    <3>2. g[k - 1] \in V
      BY <3>1
    <3>3. G[k][g[k - 1]] = UNION {feed(m, r, b[k]) : r \in {r \in g[k - 1] : ~Stops(m, r)}}
      BY <1>6, <3>1, <3>2
    <3>4. QED
      BY <2>1, <2>3, <3>3
  <2>4. QED
    BY <2>2, <2>3
<1> DEFINE Is(h) == h = [k \in 0..n |-> IF k = 0 THEN {q}
                                       ELSE UNION {feed(m, r, b[k]) : r \in {r \in h[k - 1] : ~Stops(m, r)}}]
<1>8. Is(g)
  BY <1>7
<1>9. Is(run)
  <2>1. run = CHOOSE h : Is(h)
    BY DEF run
  <2> HIDE DEF Is, run
  <2>2. QED
    BY <1>8, <2>1
<1>10. ASSUME NEW k \in 0..n
       PROVE  run[k] = IF k = 0 THEN {q} ELSE UNION {feed(m, r, b[k]) : r \in {r \in run[k - 1] : ~Stops(m, r)}}
  <2> HIDE DEF run
  <2>1. QED
    BY <1>9
<1>11. /\ o.used \in 1..n /\ o.p \in run[o.used]
       /\ Stops(m, o.p) \/ o.used = n
  <2>1. consume(m, q, b) =
          UNION {{[p |-> r, used |-> k] : r \in {r \in run[k] : Stops(m, r) \/ k = Len(b)}} : k \in 1..Len(b)}
    BY DEF consume, run
  <2> HIDE DEF run
  <2>2. PICK k \in 1..Len(b) : o \in {[p |-> r, used |-> k] : r \in {r \in run[k] : Stops(m, r) \/ k = Len(b)}}
    BY <2>1
  <2>3. PICK r \in run[k] : o = [p |-> r, used |-> k] /\ (Stops(m, r) \/ k = Len(b))
    BY <2>2
  <2>4. QED
    BY <2>3
<1> HIDE DEF run
<1> DEFINE K == {k \in 0..n : run[k] \subseteq J[k]}
<1>12. 0 \in K
  BY <1>1, <1>10
<1>13. ASSUME NEW k \in 1..n, k - 1 \in K PROVE k \in K
  <2>1. k \in 0..n /\ k # 0 /\ run[k - 1] \subseteq J[k - 1]
    BY <1>1, <1>13
  <2>2. run[k] = UNION {feed(m, r, b[k]) : r \in {r \in run[k - 1] : ~Stops(m, r)}}
    BY <1>10, <2>1
  <2>3. ASSUME NEW r \in run[k - 1], ~Stops(m, r) PROVE feed(m, r, b[k]) \subseteq J[k]
    BY <2>1, <2>3 DEF Leads
  <2>4. run[k] \subseteq J[k]
    BY <2>2, <2>3
  <2>5. QED
    BY <2>1, <2>4
<1> HIDE DEF K
<1>14. \A k \in 0..n : k \in K
  BY <1>1, <1>12, <1>13, UpTo
<1>15. o.used \in 0..n
  BY <1>1, <1>11
<1>16. o.used \in K
  BY <1>14, <1>15
<1>17. QED
  BY <1>11, <1>16 DEF K

-----------------------------------------------------------------------------
(* Requests: the parser and the line it was fed agree.                     *)

\* One step of a line, by whether it had ended and what the byte is.
LEMMA LineStepIs ==
  ASSUME NEW l \in Lines, NEW c \in Byte, NEW k, k = LineStep(l, c)
  PROVE  /\ k \in Lines
         /\ l.ended => /\ k.verb = l.verb /\ k.arg = l.arg /\ k.spaced = l.spaced /\ k.ended
                       /\ k.after = Append(l.after, c)
         /\ ~l.ended /\ c = CR => /\ k.verb = l.verb /\ k.arg = l.arg /\ k.spaced = l.spaced /\ k.ended
                                  /\ k.after = l.after
         /\ ~l.ended /\ c # CR => ~k.ended /\ k.after = l.after
         /\ ~l.ended /\ c # CR /\ l.spaced => k.verb = l.verb /\ k.arg = Append(l.arg, c) /\ k.spaced
         /\ ~l.ended /\ c # CR /\ ~l.spaced /\ c = SP => k.verb = l.verb /\ k.arg = l.arg /\ k.spaced
         /\ ~l.ended /\ c # CR /\ ~l.spaced /\ c # SP => /\ k.verb = Append(l.verb, c) /\ k.arg = l.arg
                                                        /\ ~k.spaced
<1>1. Append(l.after, c) \in Seq(Byte) /\ Append(l.arg, c) \in Seq(Byte) /\ Append(l.verb, c) \in Seq(Byte)
  BY DEF Lines
<1>2. CASE l.ended
  <2>1. k = [l EXCEPT !.after = Append(@, c)]
    BY <1>2 DEF LineStep
  <2>2. QED
    BY <1>1, <1>2, <2>1 DEF Lines
<1>3. CASE ~l.ended /\ c = CR
  <2>1. k = [l EXCEPT !.ended = TRUE]
    BY <1>3 DEF LineStep
  <2>2. QED
    BY <1>3, <2>1 DEF Lines
<1>4. CASE ~l.ended /\ c # CR /\ l.spaced
  <2>1. k = [l EXCEPT !.arg = Append(@, c)]
    BY <1>4 DEF LineStep
  <2>2. QED
    BY <1>1, <1>4, <2>1 DEF Lines
<1>5. CASE ~l.ended /\ c # CR /\ ~l.spaced /\ c = SP
  <2>1. k = [l EXCEPT !.spaced = TRUE]
    BY <1>5 DEF LineStep
  <2>2. QED
    BY <1>5, <2>1 DEF Lines
<1>6. CASE ~l.ended /\ c # CR /\ ~l.spaced /\ c # SP
  <2>1. k = [l EXCEPT !.verb = Append(@, c)]
    BY <1>6 DEF LineStep
  <2>2. QED
    BY <1>1, <1>6, <2>1 DEF Lines
<1>7. QED
  BY <1>2, <1>3, <1>4, <1>5, <1>6

\* Viable, of a line.
Possible(m, l) ==
  /\ Len(l.verb) <= VerbMax /\ Len(l.arg) <= ArgMax
  /\ l.ended /\ ~l.spaced => StartsWithVerb(l.verb, WithoutArg[m])
  /\ l.after \in {<<>>, <<LF>>}

\* Whether a request can still follow is a question about the line.
LEMMA ViableIs ==
  ASSUME NEW m, NEW w
  PROVE  Viable(m, w) <=> Possible(m, Line(w))
BY DEF Viable, Possible

\* The arrays hold the line, which fits.
Kept(q, l) ==
  /\ q.verb = Filled(VerbMax, l.verb) /\ Len(l.verb) <= VerbMax
  /\ q.arg = Filled(ArgMax, l.arg) /\ Len(l.arg) <= ArgMax
  /\ ~l.spaced => l.arg = <<>>

\* The parser stops at once: what follows a line is one byte, and that only when a
\* request can end there.
Prompt(m, l) ==
  l.after # <<>> => /\ Len(l.after) = 1 /\ Len(l.verb) <= VerbMax /\ Len(l.arg) <= ArgMax
                    /\ l.ended /\ (~l.spaced => StartsWithVerb(l.verb, WithoutArg[m]))

Fed(m, q, l) ==
  \/ q.state = "error" /\ ~Possible(m, l) /\ Prompt(m, l)
  \/ q.state = "verb" /\ Kept(q, l) /\ ~l.ended /\ ~l.spaced /\ l.after = <<>> /\ q.i = Len(l.verb)
  \/ q.state = "arg" /\ Kept(q, l) /\ ~l.ended /\ l.spaced /\ l.after = <<>> /\ q.i = Len(l.arg)
  \/ /\ q.state \in {"cr", "done"} /\ Kept(q, l) /\ l.ended
     /\ ~l.spaced => StartsWithVerb(l.verb, WithoutArg[m])
     /\ l.after = IF q.state = "cr" THEN <<>> ELSE <<LF>>

\* What the administrator's parser does once its verb is too long is not told.
TooLong(m, l) == m = "ADMIN" /\ Len(l.verb) > VerbMax

\* A parser just initialised has been fed nothing.
LEMMA FedAtStart ==
  ASSUME NEW m \in {"READ", "ADMIN"}
  PROVE  Fed(m, request_parser_init(m), Line(<<>>))
<1>1. VerbMax \in Nat /\ ArgMax \in Nat /\ Len(<<>>) = 0
  BY ParserAssumption, EmptySeq
<1>2. Filled(VerbMax, <<>>) = [k \in 0..VerbMax |-> NUL] /\ Filled(ArgMax, <<>>) = [k \in 0..ArgMax |-> NUL]
  BY FilledWithNothing
<1> DEFINE l == LineOf(<<>>, <<>>, FALSE, FALSE, <<>>)
           q == request_parser_init(m)
<1>3. q.state = "verb" /\ q.i = 0 /\ q.verb = [k \in 0..VerbMax |-> NUL] /\ q.arg = [k \in 0..ArgMax |-> NUL]
  BY DEF request_parser_init, Fresh
<1>4. l.verb = <<>> /\ l.arg = <<>> /\ l.spaced = FALSE /\ l.ended = FALSE /\ l.after = <<>>
  BY DEF LineOf
<1> HIDE DEF l, q
<1>5. Fed(m, q, l)
  BY <1>1, <1>2, <1>3, <1>4 DEF Fed, Kept
<1>6. QED
  BY <1>5, LineOfNothing DEF l, q

\* A verb in its array starts with the verbs it starts with.
LEMMA StartsIs ==
  ASSUME NEW m \in Mode, NEW q \in Parsers(m), NEW l \in Lines, Kept(q, l)
  PROVE  Starts(m, q) <=> StartsWithVerb(l.verb, WithoutArg[m])
<1>1. VerbMax \in Nat /\ \A v \in WithoutArg[m] : v \in Seq(Byte \ {NUL})
  BY ParserAssumption
<1>2. l.verb \in Seq(Byte) /\ Len(l.verb) \in Nat
  BY LenProperties DEF Lines
<1>3. q.verb \in [0..VerbMax -> Byte] /\ q.verb = Filled(VerbMax, l.verb) /\ Len(l.verb) <= VerbMax
  BY DEF Parsers, Kept
<1>4. (\A k \in 1..Len(l.verb) : q.verb[k - 1] = l.verb[k]) /\ q.verb[Len(l.verb)] = NUL
  BY <1>1, <1>2, <1>3 DEF Filled
<1>5. Text(q.verb) = UpToNul(l.verb)
  BY <1>1, <1>2, <1>3, <1>4, TextOf
<1>6. QED
  BY <1>1, <1>2, <1>5, StartsUpToNul DEF Starts

\* The fields after each kind of step.
LEMMA GoesIs ==
  ASSUME NEW m \in Mode, NEW q \in Parsers(m), NEW s
  PROVE  /\ Goes(q, s).state = s /\ Goes(q, s).i = q.i /\ Goes(q, s).verb = q.verb
         /\ Goes(q, s).arg = q.arg /\ Goes(q, s).data = q.data
BY DEF Parsers, Goes

\* What the end of a verb and of an argument leaves in the fields.
LEMMA EndsIs ==
  ASSUME NEW m \in Mode, NEW q \in Parsers(m), NEW s
  PROVE  /\ VerbEnds(q, s).state = s /\ VerbEnds(q, s).i = 0 /\ VerbEnds(q, s).arg = q.arg
         /\ VerbEnds(q, s).verb = Put(q.verb, q.i, NUL)
         /\ ArgStarts(q).state = "arg" /\ ArgStarts(q).i = 0 /\ ArgStarts(q).verb = q.verb
         /\ ArgStarts(q).arg = Put(q.arg, q.i, NUL)
         /\ ArgEnds(q).state = "cr" /\ ArgEnds(q).verb = q.verb /\ ArgEnds(q).i = q.i
         /\ ArgEnds(q).arg = Put(q.arg, q.i, NUL)
         /\ DataEnds(q).state = "cr" /\ DataEnds(q).i = q.i
         /\ DataEnds(q).data = Put(q.data, q.i - 3, NUL)
<1>1. /\ VerbEnds(q, s).state = s /\ VerbEnds(q, s).i = 0 /\ VerbEnds(q, s).arg = q.arg
      /\ VerbEnds(q, s).verb = Put(q.verb, q.i, NUL)
  BY DEF Parsers, VerbEnds, Put
<1>2. /\ ArgStarts(q).state = "arg" /\ ArgStarts(q).i = 0 /\ ArgStarts(q).verb = q.verb
      /\ ArgStarts(q).arg = Put(q.arg, q.i, NUL)
  BY DEF Parsers, ArgStarts, Put
<1>3. /\ ArgEnds(q).state = "cr" /\ ArgEnds(q).verb = q.verb /\ ArgEnds(q).i = q.i
      /\ ArgEnds(q).arg = Put(q.arg, q.i, NUL)
  BY DEF Parsers, ArgEnds, Put
<1>4. /\ DataEnds(q).state = "cr" /\ DataEnds(q).i = q.i
      /\ DataEnds(q).data = Put(q.data, q.i - 3, NUL)
  BY DEF Parsers, DataEnds, Put
<1>5. QED
  BY <1>1, <1>2, <1>3, <1>4

\* What storing a byte leaves in the fields.
LEMMA StoredIs ==
  ASSUME NEW m \in Mode, NEW q \in Parsers(m), NEW c
  PROVE  /\ \A f \in {"verb", "arg", "data"} : Stored(q, f, c).state = q.state /\ Stored(q, f, c).i = q.i + 1
         /\ Stored(q, "verb", c).verb = Put(q.verb, q.i, c) /\ Stored(q, "verb", c).arg = q.arg
         /\ Stored(q, "arg", c).arg = Put(q.arg, q.i, c) /\ Stored(q, "arg", c).verb = q.verb
         /\ Stored(q, "data", c).data = Put(q.data, q.i, c)
<1>1. /\ Stored(q, "verb", c).verb = Put(q.verb, q.i, c) /\ Stored(q, "verb", c).arg = q.arg
      /\ Stored(q, "verb", c).state = q.state /\ Stored(q, "verb", c).i = q.i + 1
  BY DEF Parsers, Stored, Put
<1>2. /\ Stored(q, "arg", c).arg = Put(q.arg, q.i, c) /\ Stored(q, "arg", c).verb = q.verb
      /\ Stored(q, "arg", c).state = q.state /\ Stored(q, "arg", c).i = q.i + 1
  BY DEF Parsers, Stored, Put
<1>3. /\ Stored(q, "data", c).data = Put(q.data, q.i, c)
      /\ Stored(q, "data", c).state = q.state /\ Stored(q, "data", c).i = q.i + 1
  BY DEF Parsers, Stored, Put
<1>4. QED
  BY <1>1, <1>2, <1>3

\* A byte fed in state verb: the parser still is what its line says.
LEMMA FedVerb ==
  ASSUME NEW m \in {"READ", "ADMIN"}, NEW q \in Parsers(m), NEW l \in Lines, Fed(m, q, l), q.state = "verb",
         NEW c \in Byte, NEW r \in feed(m, q, c), NEW k, k = LineStep(l, c)
  PROVE  Fed(m, r, k) \/ TooLong(m, k)
<1>1. VerbMax \in Nat /\ ArgMax \in Nat /\ SP # CR /\ m \in Mode
  BY ParserAssumption DEF SP, CR, Mode
<1>2. Kept(q, l) /\ ~l.ended /\ ~l.spaced /\ l.after = <<>> /\ q.i = Len(l.verb)
  BY DEF Fed
<1>3. /\ q.verb = Filled(VerbMax, l.verb) /\ Len(l.verb) <= VerbMax
      /\ q.arg = Filled(ArgMax, l.arg) /\ Len(l.arg) <= ArgMax /\ l.arg = <<>>
  BY <1>2 DEF Kept
<1>4. l.verb \in Seq(Byte) /\ Len(l.verb) \in Nat /\ Len(<<>>) = 0
  BY LenProperties, EmptySeq DEF Lines
<1>5. Put(q.verb, q.i, NUL) = q.verb
  BY <1>1, <1>2, <1>3, <1>4, FilledEnds
<1>6. Put(q.arg, q.i, NUL) = q.arg
  BY <1>3, NothingEnds
<1>7. /\ k \in Lines
      /\ c = CR => k.verb = l.verb /\ k.arg = l.arg /\ ~k.spaced /\ k.ended /\ k.after = l.after
      /\ c # CR => ~k.ended /\ k.after = l.after
      /\ c # CR /\ c = SP => k.verb = l.verb /\ k.arg = l.arg /\ k.spaced
      /\ c # CR /\ c # SP => k.verb = Append(l.verb, c) /\ k.arg = l.arg /\ ~k.spaced
  BY <1>2, LineStepIs
<1>8. Starts(m, q) <=> StartsWithVerb(l.verb, WithoutArg[m])
  BY <1>1, <1>2, StartsIs
<1>9. \/ c = SP /\ r \in {ArgStarts(q), VerbEnds(q, "arg")}
      \/ c = CR /\ Starts(m, q) /\ r = VerbEnds(q, "cr")
      \/ c = CR /\ ~Starts(m, q) /\ r = Goes(q, "error")
      \/ c \notin {SP, CR} /\ q.i < VerbMax /\ r = Stored(q, "verb", c)
      \/ c \notin {SP, CR} /\ ~(q.i < VerbMax) /\ (m = "ADMIN" \/ r = Goes(q, "error"))
  <2>1. CASE m = "READ"
    <3>1. r = verb(q, c)
      BY <1>1, <2>1, FeedIs
    <3>2. QED
      BY <2>1, <3>1, VerbIs
  <2>2. CASE m = "ADMIN"
    <3>1. r \in command(q, c)
      BY <1>1, <2>2, FeedIs
    <3>2. QED
      BY <2>2, <3>1, CommandIs
  <2>3. QED
    BY <2>1, <2>2
<1>10. CASE c = SP /\ r \in {ArgStarts(q), VerbEnds(q, "arg")}
  <2>1. r.state = "arg" /\ r.i = 0 /\ r.verb = q.verb /\ r.arg = q.arg
    BY <1>1, <1>5, <1>6, <1>10, EndsIs
  <2>2. Kept(r, k) /\ ~k.ended /\ k.spaced /\ k.after = <<>> /\ r.i = Len(k.arg)
    BY <1>1, <1>2, <1>3, <1>4, <1>7, <1>10, <2>1 DEF Kept
  <2>3. QED
    BY <2>1, <2>2 DEF Fed
<1>11. CASE c = CR /\ Starts(m, q) /\ r = VerbEnds(q, "cr")
  <2>1. r.state = "cr" /\ r.verb = q.verb /\ r.arg = q.arg
    BY <1>1, <1>5, <1>11, EndsIs
  <2>2. Kept(r, k) /\ k.ended /\ StartsWithVerb(k.verb, WithoutArg[m]) /\ k.after = <<>>
    BY <1>2, <1>3, <1>7, <1>8, <1>11, <2>1 DEF Kept
  <2>3. QED
    BY <2>1, <2>2 DEF Fed
<1>12. CASE c = CR /\ ~Starts(m, q) /\ r = Goes(q, "error")
  <2>1. r.state = "error"
    BY <1>1, <1>12, GoesIs
  <2>2. ~Possible(m, k) /\ Prompt(m, k)
    BY <1>2, <1>7, <1>8, <1>12 DEF Possible, Prompt
  <2>3. QED
    BY <2>1, <2>2 DEF Fed
<1>13. CASE c \notin {SP, CR} /\ q.i < VerbMax /\ r = Stored(q, "verb", c)
  <2>1. r.state = "verb" /\ r.i = q.i + 1 /\ r.arg = q.arg /\ r.verb = Put(q.verb, q.i, c)
    BY <1>1, <1>13, StoredIs
  <2>2. r.verb = Filled(VerbMax, k.verb)
    <3>1. Put(Filled(VerbMax, l.verb), Len(l.verb), c) = Filled(VerbMax, Append(l.verb, c))
      BY <1>1, <1>4, FilledGrows
    <3>2. k.verb = Append(l.verb, c)
      BY <1>7, <1>13, Zenon
    <3>3. r.verb = Put(Filled(VerbMax, l.verb), Len(l.verb), c)
      BY <1>2, <1>3, <2>1, Zenon
    <3>4. QED
      BY <3>1, <3>2, <3>3, Zenon
  <2>3. Len(k.verb) = Len(l.verb) + 1
    BY <1>4, <1>7, <1>13, AppendProperties
  <2>4. Len(k.verb) <= VerbMax /\ r.i = Len(k.verb)
    BY <1>1, <1>2, <1>4, <1>13, <2>1, <2>3
  <2>5. Kept(r, k) /\ ~k.ended /\ ~k.spaced /\ k.after = <<>>
    BY <1>2, <1>3, <1>7, <1>13, <2>1, <2>2, <2>4 DEF Kept
  <2>6. QED
    BY <2>1, <2>4, <2>5 DEF Fed
<1>14. CASE c \notin {SP, CR} /\ ~(q.i < VerbMax) /\ (m = "ADMIN" \/ r = Goes(q, "error"))
  <2>1. Len(k.verb) = Len(l.verb) + 1
    BY <1>4, <1>7, <1>14, AppendProperties
  <2>2. Len(k.verb) > VerbMax /\ ~(Len(k.verb) <= VerbMax)
    BY <1>1, <1>2, <1>4, <1>14, <2>1
  <2>3. CASE m = "ADMIN"
    BY <2>2, <2>3 DEF TooLong
  <2>4. CASE r = Goes(q, "error")
    <3>1. r.state = "error" /\ ~Possible(m, k) /\ Prompt(m, k)
      BY <1>1, <1>2, <1>7, <1>14, <2>2, <2>4, GoesIs DEF Possible, Prompt
    <3>2. QED
      BY <3>1 DEF Fed
  <2>5. QED
    BY <1>14, <2>3, <2>4
<1>15. QED
  BY <1>9, <1>10, <1>11, <1>12, <1>13, <1>14

\* A byte fed in state arg: the parser still is what its line says.
LEMMA FedArg ==
  ASSUME NEW m \in {"READ", "ADMIN"}, NEW q \in Parsers(m), NEW l \in Lines, Fed(m, q, l), q.state = "arg",
         NEW c \in Byte, NEW r \in feed(m, q, c), NEW k, k = LineStep(l, c)
  PROVE  Fed(m, r, k)
<1>1. VerbMax \in Nat /\ ArgMax \in Nat /\ m \in Mode /\ m # "DATA"
  BY ParserAssumption DEF Mode
<1>2. Kept(q, l) /\ ~l.ended /\ l.spaced /\ l.after = <<>> /\ q.i = Len(l.arg)
  BY DEF Fed
<1>3. /\ q.verb = Filled(VerbMax, l.verb) /\ Len(l.verb) <= VerbMax
      /\ q.arg = Filled(ArgMax, l.arg) /\ Len(l.arg) <= ArgMax
  BY <1>2 DEF Kept
<1>4. l.arg \in Seq(Byte) /\ Len(l.arg) \in Nat
  BY LenProperties DEF Lines
<1>5. Put(q.arg, q.i, NUL) = q.arg
  BY <1>1, <1>2, <1>3, <1>4, FilledEnds
<1>6. /\ k.verb = l.verb /\ k.spaced
      /\ c = CR => k.arg = l.arg /\ k.ended /\ k.after = l.after
      /\ c # CR => k.arg = Append(l.arg, c) /\ ~k.ended /\ k.after = l.after
  BY <1>2, LineStepIs
<1>7. r = arg(q, c)
  BY <1>1, FeedIs
<1>8. CASE c = CR /\ r = ArgEnds(q)
  <2>1. r.state = "cr" /\ r.verb = q.verb /\ r.arg = q.arg
    BY <1>1, <1>5, <1>8, EndsIs
  <2>2. Kept(r, k) /\ k.ended /\ k.spaced /\ k.after = <<>>
    BY <1>2, <1>3, <1>6, <1>8, <2>1 DEF Kept
  <2>3. QED
    BY <2>1, <2>2 DEF Fed
<1>9. CASE c # CR /\ q.i < ArgMax /\ r = Stored(q, "arg", c)
  <2>1. r.state = "arg" /\ r.i = q.i + 1 /\ r.verb = q.verb /\ r.arg = Put(q.arg, q.i, c)
    BY <1>1, <1>9, StoredIs
  <2>2. r.arg = Filled(ArgMax, k.arg)
    <3>1. Put(Filled(ArgMax, l.arg), Len(l.arg), c) = Filled(ArgMax, Append(l.arg, c))
      BY <1>1, <1>4, FilledGrows
    <3>2. k.arg = Append(l.arg, c)
      BY <1>6, <1>9, Zenon
    <3>3. r.arg = Put(Filled(ArgMax, l.arg), Len(l.arg), c)
      BY <1>2, <1>3, <2>1, Zenon
    <3>4. QED
      BY <3>1, <3>2, <3>3, Zenon
  <2>3. Len(k.arg) = Len(l.arg) + 1
    BY <1>4, <1>6, <1>9, AppendProperties
  <2>4. Len(k.arg) <= ArgMax /\ r.i = Len(k.arg)
    BY <1>1, <1>2, <1>4, <1>9, <2>1, <2>3
  <2>5. Kept(r, k) /\ ~k.ended /\ k.spaced /\ k.after = <<>>
    BY <1>2, <1>3, <1>6, <1>9, <2>1, <2>2, <2>4 DEF Kept
  <2>6. QED
    BY <2>1, <2>4, <2>5 DEF Fed
<1>10. CASE c # CR /\ ~(q.i < ArgMax) /\ r = Goes(q, "error")
  <2>1. Len(k.arg) = Len(l.arg) + 1
    BY <1>4, <1>6, <1>10, AppendProperties
  <2>2. ~(Len(k.arg) <= ArgMax)
    BY <1>1, <1>2, <1>4, <1>10, <2>1
  <2>3. r.state = "error" /\ ~Possible(m, k) /\ Prompt(m, k)
    BY <1>1, <1>2, <1>6, <1>10, <2>2, GoesIs DEF Possible, Prompt
  <2>4. QED
    BY <2>3 DEF Fed
<1>11. QED
  BY <1>7, <1>8, <1>9, <1>10, ArgIs

\* A byte fed after the CR: the parser still is what its line says.
LEMMA FedCR ==
  ASSUME NEW m \in {"READ", "ADMIN"}, NEW q \in Parsers(m), NEW l \in Lines, Fed(m, q, l), q.state = "cr",
         NEW c \in Byte, NEW r \in feed(m, q, c), NEW k, k = LineStep(l, c)
  PROVE  Fed(m, r, k)
<1>1. m \in Mode
  BY DEF Mode
<1>2. Kept(q, l) /\ l.ended /\ (~l.spaced => StartsWithVerb(l.verb, WithoutArg[m])) /\ l.after = <<>>
  BY DEF Fed
<1>3. k.verb = l.verb /\ k.arg = l.arg /\ k.spaced = l.spaced /\ k.ended /\ k.after = Append(l.after, c)
  BY <1>2, LineStepIs
<1>4. k.after = <<c>>
  BY <1>2, <1>3
<1>5. r = Goes(q, IF c = LF THEN "done" ELSE "error")
  BY <1>1, FeedIs
<1>6. CASE c = LF
  <2>1. r.state = "done" /\ r.verb = q.verb /\ r.arg = q.arg
    BY <1>1, <1>5, <1>6, GoesIs
  <2>2. Kept(r, k)
    BY <1>2, <1>3, <2>1 DEF Kept
  <2>3. QED
    BY <1>2, <1>3, <1>4, <1>6, <2>1, <2>2 DEF Fed
<1>7. CASE c # LF
  <2>1. r.state = "error"
    BY <1>1, <1>5, <1>7, GoesIs
  <2>2. <<c>> # <<>> /\ <<c>> # <<LF>> /\ Len(<<c>>) = 1
    BY <1>7
  <2>3. Prompt(m, k)
    BY <1>2, <1>3, <1>4, <2>2 DEF Prompt, Kept
  <2>4. QED
    BY <1>4, <2>1, <2>2, <2>3 DEF Fed, Possible
<1>8. QED
  BY <1>6, <1>7

\* One byte keeps the two in agreement.
LEMMA FedStep ==
  ASSUME NEW m \in {"READ", "ADMIN"}, NEW q \in Parsers(m), NEW l \in Lines,
         Fed(m, q, l) \/ TooLong(m, l), ~request_is_done(q),
         NEW c \in Byte, NEW r \in feed(m, q, c), NEW k, k = LineStep(l, c)
  PROVE  Fed(m, r, k) \/ TooLong(m, k)
<1>1. CASE TooLong(m, l)
  <2>1. VerbMax \in Nat /\ l.verb \in Seq(Byte) /\ Len(l.verb) \in Nat
    BY ParserAssumption, LenProperties DEF Lines
  <2>2. k.verb = l.verb \/ k.verb = Append(l.verb, c)
    BY LineStepIs
  <2>3. Len(Append(l.verb, c)) = Len(l.verb) + 1
    BY <2>1, AppendProperties
  <2>4. Len(k.verb) > VerbMax
    BY <1>1, <2>1, <2>2, <2>3 DEF TooLong
  <2>5. QED
    BY <1>1, <2>4 DEF TooLong
<1>2. CASE Fed(m, q, l)
  <2>1. q.state \in {"verb", "arg", "cr"}
    BY <1>2 DEF Fed, request_is_done
  <2>2. QED
    BY <1>2, <2>1, FedVerb, FedArg, FedCR
<1>3. QED
  BY <1>1, <1>2

\* The index stays where a verb's NUL fits, also of a verb that is too long.
InVerb(q) == q.state = "verb" => q.i <= VerbMax

\* One byte keeps it there.
LEMMA InVerbStep ==
  ASSUME NEW m \in {"READ", "ADMIN"}, NEW q \in Parsers(m), InVerb(q), NEW c \in Byte, NEW r \in feed(m, q, c)
  PROVE  InVerb(r)
<1>1. VerbMax \in Nat /\ q.i \in Nat /\ m \in Mode /\ m # "DATA"
  BY ParserAssumption DEF Parsers, LastPlace, Mode
<1>2. \A s : Goes(q, s).state = s /\ Goes(q, s).i = q.i
  BY DEF Goes, Parsers
<1>3. \A s : VerbEnds(q, s).i = 0 /\ ArgStarts(q).i = 0
  BY DEF VerbEnds, ArgStarts, Parsers
<1>4. \A f \in {"verb", "arg"} : Stored(q, f, c).state = q.state /\ Stored(q, f, c).i = q.i + 1
  BY DEF Stored, Parsers
<1>5. ArgEnds(q).state = "cr"
  BY DEF ArgEnds, Parsers
<1>6. CASE q.state = "verb" /\ m = "READ" /\ r = verb(q, c)
  BY <1>1, <1>2, <1>3, <1>4, <1>6, VerbIs DEF InVerb
<1>7. CASE q.state = "verb" /\ m = "ADMIN" /\ r \in command(q, c)
  BY <1>1, <1>2, <1>3, <1>4, <1>7, CommandIs DEF InVerb
<1>8. CASE q.state = "arg" /\ r = arg(q, c)
  BY <1>2, <1>4, <1>5, <1>8, ArgIs DEF InVerb
<1>9. CASE r = Goes(q, IF c = LF THEN "done" ELSE "error") \/ r = Goes(q, "error")
  BY <1>2, <1>9 DEF InVerb
<1>10. QED
  BY <1>1, <1>6, <1>7, <1>8, <1>9, FeedIs

\* The loop over a buffer appends its bytes one by one.
LEMMA TakeOne ==
  ASSUME NEW w \in Seq(Byte), NEW b \in Seq(Byte)
  PROVE  /\ w \o SubSeq(b, 1, 0) = w
         /\ \A k \in 0..Len(b) : w \o SubSeq(b, 1, k) \in Seq(Byte)
         /\ \A k \in 1..Len(b) : /\ w \o SubSeq(b, 1, k) = Append(w \o SubSeq(b, 1, k - 1), b[k])
                                 /\ b[k] \in Byte /\ k - 1 \in 0..Len(b)
<1>1. Len(b) \in Nat
  BY LenProperties
<1>2. ASSUME NEW k \in 0..Len(b) PROVE SubSeq(b, 1, k) \in Seq(Byte)
  BY <1>1, PartOf
<1>3. SubSeq(b, 1, 0) = <<>> /\ w \o <<>> = w
  BY SubSeqEmpty, ConcatEmptySeq
<1>4. ASSUME NEW k \in 1..Len(b)
      PROVE  /\ w \o SubSeq(b, 1, k) = Append(w \o SubSeq(b, 1, k - 1), b[k])
             /\ b[k] \in Byte /\ k - 1 \in 0..Len(b)
  <2> DEFINE s == SubSeq(b, 1, k - 1)
             c == b[k]
  <2>1. k - 1 \in 0..Len(b) /\ 1 \in 1..Len(b) /\ k \in 1..Len(b)
    BY <1>1
  <2>2. s \in Seq(Byte) /\ c \in Byte
    BY <1>2, <2>1, ElementOfSeq
  <2>3. SubSeq(b, 1, k) = s \o <<c>>
    BY <1>1, <2>1, SubSeqRecursiveSecond
  <2> HIDE DEF s, c
  <2>4. <<c>> \in Seq(Byte)
    BY <2>2
  <2>5. w \o (s \o <<c>>) = (w \o s) \o <<c>> /\ w \o s \in Seq(Byte)
    BY <2>2, <2>4, ConcatAssociative, ConcatProperties
  <2>6. (w \o s) \o <<c>> = Append(w \o s, c)
    BY <2>2, <2>5, AppendIsConcat
  <2>7. QED
    BY <2>1, <2>2, <2>3, <2>5, <2>6 DEF s, c
<1>5. QED
  BY <1>2, <1>3, <1>4, ConcatProperties

RequestFed(m, q, w) == InVerb(q) /\ (Fed(m, q, Line(w)) \/ TooLong(m, Line(w)))

\* An outcome of a consume function, after which the parser was fed v.
Outcome(m, o, b, v) ==
  /\ o.used \in 1..Len(b) /\ o.p \in Parsers(m) /\ v \in Seq(Byte)
  /\ request_is_done(o.p) \/ o.used = Len(b)

\* However what a client sends is cut, parser and line agree on what was taken.
LEMMA RequestConsumed ==
  ASSUME NEW m \in {"READ", "ADMIN"}, NEW q \in Parsers(m), NEW w \in Seq(Byte),
         RequestFed(m, q, w), NEW b \in Seq(Byte), NEW o \in consume(m, q, b),
         NEW v, v = w \o SubSeq(b, 1, o.used)
  PROVE  Outcome(m, o, b, v) /\ RequestFed(m, o.p, v)
<1> DEFINE n == Len(b)
           taken(k) == w \o SubSeq(b, 1, k)
           J == [k \in 0..n |-> {r \in Parsers(m) : InVerb(r) /\ (Fed(m, r, Line(taken(k))) \/ TooLong(m, Line(taken(k))))}]
<1>1. n \in Nat /\ m \in Mode /\ m # "DATA"
  BY LenProperties DEF Mode
<1>2. /\ taken(0) = w /\ \A k \in 0..n : taken(k) \in Seq(Byte)
      /\ \A k \in 1..n : taken(k) = Append(taken(k - 1), b[k]) /\ b[k] \in Byte /\ k - 1 \in 0..n
  BY TakeOne
<1> HIDE DEF taken
<1>3. J \in [0..n -> SUBSET Parsers(m)] /\ q \in J[0]
  BY <1>1, <1>2 DEF RequestFed
<1>4. \A k \in 0..n : \A r : r \in J[k] <=>
        r \in Parsers(m) /\ InVerb(r) /\ (Fed(m, r, Line(taken(k))) \/ TooLong(m, Line(taken(k))))
  OBVIOUS
<1> HIDE DEF J, n
<1>5. ASSUME NEW k \in 1..n, NEW r \in J[k - 1], ~Stops(m, r), NEW x \in feed(m, r, b[k])
      PROVE  x \in J[k]
  <2>1. k - 1 \in 0..n /\ k \in 0..n /\ taken(k - 1) \in Seq(Byte) /\ b[k] \in Byte
    <3>1. k \in 0..n
      BY <1>1
    <3>2. k - 1 \in 0..n /\ b[k] \in Byte
      BY <1>2
    <3>3. QED
      BY <1>2, <3>1, <3>2
  <2>2. r \in Parsers(m) /\ InVerb(r) /\ (Fed(m, r, Line(taken(k - 1))) \/ TooLong(m, Line(taken(k - 1))))
    BY <1>4, <2>1
  <2>3. ~request_is_done(r)
    BY <1>5 DEF Stops
  <2>4. Line(taken(k)) = LineStep(Line(taken(k - 1)), b[k]) /\ Line(taken(k - 1)) \in Lines
    BY <1>2, <2>1, LineGrows, LineType
  <2>5. Fed(m, x, Line(taken(k))) \/ TooLong(m, Line(taken(k)))
    BY <2>1, <2>2, <2>3, <2>4, <1>5, FedStep
  <2>6. x \in Parsers(m) /\ InVerb(x)
    BY <1>1, <1>5, <2>1, <2>2, FeedType, InVerbStep
  <2>7. QED
    BY <1>4, <2>1, <2>5, <2>6
<1>6. Leads(m, b, J)
  BY <1>5 DEF Leads, n
<1>7. o.used \in 1..n /\ o.p \in J[o.used] /\ (Stops(m, o.p) \/ o.used = n)
  BY <1>1, <1>3, <1>6, ConsumeRun DEF n
<1>8. o.used \in 0..n /\ v = taken(o.used)
  BY <1>1, <1>7 DEF taken
<1>9. Stops(m, o.p) => request_is_done(o.p)
  BY <1>1 DEF Stops
<1>10. QED
  BY <1>2, <1>4, <1>7, <1>8, <1>9 DEF n, Outcome, RequestFed

-----------------------------------------------------------------------------
(* Bodies: the parser and the read it was fed agree.                       *)

DotsOf(w) == {k \in 1..Len(w) - 2 : w[k] = LF /\ w[k + 1] = Dot /\ w[k + 2] = CR}

\* The body's text is in front of the dot that ends it.
Ends(q, w) ==
  /\ q.i >= 2 /\ DotsOf(w) = {q.i - 1}
  /\ q.i > 2 => q.data[q.i - 3] = NUL /\ \A k \in 1..q.i - 3 : q.data[k - 1] = w[k]

BodyFed(q, w) ==
  \/ q.state = "body" /\ DotsOf(w) = {} /\ q.i = Len(w) /\ q.data = Filled(DataMax, w)
  \/ q.state = "cr" /\ Ends(q, w) /\ Len(w) = q.i + 1
  \/ q.state \in {"done", "error"} /\ Ends(q, w) /\ Len(w) = q.i + 2 /\ (q.state = "done" <=> w[q.i + 2] = LF)
  \/ q.state = "segv" /\ DotsOf(w) = {1} /\ Len(w) = 3

\* Does c end a body after w?
EndsHere(w, c) == Len(w) >= 2 /\ w[Len(w) - 1] = LF /\ w[Len(w)] = Dot /\ c = CR

\* One byte more adds at most one terminator, the one it completes.
LEMMA DotsGrow ==
  ASSUME NEW w \in Seq(Byte), NEW c \in Byte
  PROVE  DotsOf(Append(w, c)) = DotsOf(w) \cup (IF EndsHere(w, c) THEN {Len(w) - 1} ELSE {})
<1> DEFINE v == Append(w, c)
           n == Len(w)
<1>1. n \in Nat /\ Len(v) = n + 1 /\ v[n + 1] = c /\ \A k \in 1..n : v[k] = w[k]
  BY LenProperties, AppendProperties
<1> HIDE DEF v
<1>2. ASSUME NEW k \in 1..n - 2 PROVE k \in DotsOf(v) <=> k \in DotsOf(w)
  <2>1. k \in 1..n /\ k + 1 \in 1..n /\ k + 2 \in 1..n /\ k \in 1..Len(v) - 2
    BY <1>1
  <2>2. v[k] = w[k] /\ v[k + 1] = w[k + 1] /\ v[k + 2] = w[k + 2]
    BY <1>1, <2>1
  <2>3. QED
    BY <2>1, <2>2 DEF DotsOf
<1>3. n - 1 \in DotsOf(v) <=> EndsHere(w, c)
  <2>1. CASE n >= 2
    <3>1. n - 1 \in 1..n /\ n \in 1..n /\ n - 1 \in 1..Len(v) - 2 /\ n - 1 + 1 = n /\ n - 1 + 2 = n + 1
      BY <1>1, <2>1
    <3>2. v[n - 1] = w[n - 1] /\ v[n] = w[n] /\ v[n + 1] = c
      BY <1>1, <3>1
    <3> HIDE DEF n
    <3>3. QED
      BY <2>1, <3>1, <3>2 DEF DotsOf, EndsHere, n
  <2>2. CASE ~(n >= 2)
    <3>1. n - 1 \notin 1..Len(v) - 2
      BY <1>1, <2>2
    <3>2. QED
      BY <2>2, <3>1 DEF DotsOf, EndsHere
  <2>3. QED
    BY <2>1, <2>2
<1>4. DotsOf(w) \subseteq 1..n - 2 /\ DotsOf(v) \subseteq 1..Len(v) - 2
  BY DEF DotsOf
<1> HIDE DEF n
<1>5. \A k \in 1..Len(v) - 2 : k \in 1..n - 2 \/ k = n - 1
  BY <1>1
<1>6. n - 1 \notin DotsOf(w)
  BY <1>1, <1>4
<1>7. DotsOf(v) = DotsOf(w) \cup (IF EndsHere(w, c) THEN {n - 1} ELSE {})
  BY <1>2, <1>3, <1>4, <1>5, <1>6
<1>8. QED
  BY <1>7 DEF v, n

\* The parser of a body starts with nothing read.
LEMMA BodyAtStart ==
  /\ BodyFed(request_parser_init("DATA"), <<>>)
  /\ request_parser_init("DATA") \in Parsers("DATA")
<1> DEFINE q == request_parser_init("DATA")
           w == <<>>
<1>1. Len(w) = 0
  BY EmptySeq
<1>2. q.state = "body" /\ q.i = 0 /\ q.data = [k \in 0..DataMax |-> NUL]
  BY DEF request_parser_init, Fresh
<1>3. Filled(DataMax, w) = [k \in 0..DataMax |-> NUL]
  BY FilledWithNothing
<1> HIDE DEF q, w
<1>4. 1..Len(w) - 2 = {}
  BY <1>1
<1>5. DotsOf(w) = {}
  BY <1>4 DEF DotsOf
<1>6. BodyFed(q, w)
  BY <1>1, <1>2, <1>3, <1>5 DEF BodyFed
<1>7. "DATA" \in Mode
  BY DEF Mode
<1>8. QED
  BY <1>6, <1>7, InitType DEF q, w

\* A byte of a body keeps what the parser knows of the read so far.
LEMMA BodyStep ==
  ASSUME NEW q \in Parsers("DATA"), NEW w \in Seq(Byte), BodyFed(q, w), ~Stops("DATA", q),
         NEW c \in Byte, NEW r \in feed("DATA", q, c), NEW v, v = Append(w, c)
  PROVE  BodyFed(r, v)
<1> DEFINE n == Len(w)
<1>0. "DATA" \in Mode /\ DataMax \in Nat /\ q.i \in 0..DataMax /\ q.data \in [0..DataMax -> Byte]
  BY ParserAssumption DEF Mode, Parsers, LastPlace
<1>1. n \in Nat /\ Len(v) = n + 1 /\ v[n + 1] = c /\ \A k \in 1..n : v[k] = w[k]
  BY LenProperties, AppendProperties
<1>2. DotsOf(v) = DotsOf(w) \cup (IF EndsHere(w, c) THEN {n - 1} ELSE {})
  BY DotsGrow
<1> HIDE DEF n
<1>3. q.state \in {"body", "cr"} /\ q.i < DataMax
  BY <1>0 DEF BodyFed, Stops, request_is_done
<1>4. CASE q.state = "body"
  <2>1. DotsOf(w) = {} /\ q.i = n /\ q.data = Filled(DataMax, w)
    BY <1>4 DEF BodyFed, n
  <2>2. \A k \in 0..DataMax : q.data[k] = IF k < n THEN w[k + 1] ELSE NUL
    BY <2>1 DEF Filled, n
  <2>3. Terminates(q, c) <=> EndsHere(w, c)
    <3>1. CASE n >= 2
      <4>1. n - 1 \in 0..DataMax /\ n - 2 \in 0..DataMax /\ n - 1 < n /\ n - 2 < n /\ n - 1 + 1 = n /\ n - 2 + 1 = n - 1
            /\ n > 1
        BY <1>0, <1>1, <1>3, <2>1, <3>1
      <4>2. q.data[n - 1] = w[n] /\ q.data[n - 2] = w[n - 1]
        BY <2>2, <4>1
      <4>3. QED
        BY <2>1, <3>1, <4>1, <4>2 DEF Terminates, EndsHere, n
    <3>2. CASE ~(n >= 2)
      <4>1. ~(q.i > 1)
        BY <1>1, <2>1, <3>2
      <4>2. QED
        BY <3>2, <4>1 DEF Terminates, EndsHere, n
    <3>3. QED
      BY <3>1, <3>2
  <2>4. r \in body(q, c)
    BY <1>0, <1>4, FeedIs
  <2>5. q.i \in Nat /\ q.i < DataMax
    BY <1>0, <1>3
  <2>6. CASE Terminates(q, c) /\ q.i > 2 /\ r = DataEnds(q)
    <3>1. r.state = "cr" /\ r.i = n /\ r.data = Put(q.data, n - 3, NUL)
      BY <1>0, <2>1, <2>6, EndsIs
    <3>2. n > 2 /\ n - 3 \in 0..DataMax
      BY <1>0, <1>1, <2>1, <2>6
    <3>3. r.data[n - 3] = NUL
      BY <1>0, <3>1, <3>2 DEF Put
    <3>4. ASSUME NEW k \in 1..n - 3 PROVE r.data[k - 1] = v[k]
      <4>1. k - 1 \in 0..DataMax /\ k - 1 # n - 3 /\ k - 1 < n /\ k - 1 + 1 = k /\ k \in 1..n
        BY <1>0, <1>1, <2>1, <2>5, <3>2
      <4>2. r.data[k - 1] = q.data[k - 1]
        BY <1>0, <3>1, <4>1 DEF Put
      <4>3. q.data[k - 1] = w[k]
        BY <2>2, <4>1
      <4>4. QED
        BY <1>1, <4>1, <4>2, <4>3
    <3>5. DotsOf(v) = {n - 1}
      BY <1>2, <2>1, <2>3, <2>6
    <3>6. n >= 2
      BY <1>1, <3>2
    <3>7. Ends(r, v)
      BY <3>1, <3>3, <3>4, <3>5, <3>6 DEF Ends
    <3>8. QED
      BY <1>1, <3>1, <3>7 DEF BodyFed
  <2>7. CASE Terminates(q, c) /\ q.i = 2 /\ \E s \in {"cr", "segv"} : r = Goes(q, s)
    <3>1. r.state \in {"cr", "segv"} /\ r.i = 2
      BY <1>0, <2>7, GoesIs
    <3>2. n = 2 /\ n - 1 = 1 /\ Len(v) = 3
      BY <1>1, <2>1, <2>7
    <3>3. DotsOf(v) = {1}
      BY <1>2, <2>1, <2>3, <2>7, <3>2
    <3>4. r.i >= 2 /\ r.i - 1 = 1 /\ ~(r.i > 2) /\ r.i + 1 = 3
      BY <3>1
    <3>5. Ends(r, v)
      BY <3>3, <3>4 DEF Ends
    <3>6. QED
      BY <3>1, <3>2, <3>3, <3>4, <3>5 DEF BodyFed
  <2>8. CASE ~Terminates(q, c) /\ r = Stored(q, "data", c)
    <3>1. r.state = "body" /\ r.i = n + 1 /\ r.data = Put(q.data, n, c)
      BY <1>0, <1>4, <2>1, <2>8, StoredIs
    <3>2. r.data = Filled(DataMax, v)
      BY <1>0, <2>1, <3>1, FilledGrows DEF n
    <3>3. DotsOf(v) = {}
      BY <1>2, <2>1, <2>3, <2>8
    <3>4. QED
      BY <1>1, <3>1, <3>2, <3>3 DEF BodyFed
  <2>9. QED
    BY <2>4, <2>5, <2>6, <2>7, <2>8, BodyIs
<1>5. CASE q.state = "cr"
  <2>1. Ends(q, w) /\ n = q.i + 1
    BY <1>5 DEF BodyFed, n
  <2>2. r = Goes(q, IF c = LF THEN "done" ELSE "error")
    BY <1>0, <1>5, FeedIs
  <2>3. r.state = (IF c = LF THEN "done" ELSE "error") /\ r.i = q.i /\ r.data = q.data
    BY <1>0, <2>2, GoesIs
  <2>4. q.i - 1 \in DotsOf(w) /\ q.i - 1 + 2 = n
    BY <1>0, <1>1, <2>1 DEF Ends
  <2>5. w[n] = CR
    BY <2>4 DEF DotsOf
  <2>6. ~EndsHere(w, c)
    BY <2>5 DEF EndsHere, CR, Dot, n
  <2>7. DotsOf(v) = {q.i - 1} /\ q.i >= 2
    BY <1>2, <2>1, <2>6 DEF Ends
  <2>8. q.i > 2 => q.data[q.i - 3] = NUL
    BY <2>1 DEF Ends
  <2>9. ASSUME q.i > 2, NEW k \in 1..q.i - 3 PROVE q.data[k - 1] = v[k]
    <3>1. q.data[k - 1] = w[k]
      BY <2>1, <2>9 DEF Ends
    <3>2. k \in 1..n
      BY <1>0, <1>1, <2>1, <2>9
    <3>3. QED
      BY <1>1, <3>1, <3>2
  <2>10. Ends(r, v)
    BY <2>3, <2>7, <2>8, <2>9 DEF Ends
  <2>11. Len(v) = r.i + 2 /\ v[r.i + 2] = c
    <3>1. r.i + 2 = n + 1
      BY <1>0, <1>1, <2>1, <2>3
    <3>2. QED
      BY <1>1, <3>1
  <2>12. r.state \in {"done", "error"} /\ (r.state = "done" <=> c = LF)
    BY <2>3
  <2>13. QED
    BY <2>10, <2>11, <2>12 DEF BodyFed
<1>6. QED
  BY <1>3, <1>4, <1>5

\* A read that the buffer holds fits the array, which is larger.
LEMMA BodyConsumed ==
  ASSUME NEW q \in Parsers("DATA"), BodyFed(q, <<>>),
         NEW b \in Seq(Byte), Len(b) <= BufferSize, NEW o \in consume("DATA", q, b),
         NEW v, v = SubSeq(b, 1, o.used)
  PROVE  /\ o.used \in 1..Len(b) /\ o.p \in Parsers("DATA") /\ v \in Seq(Byte)
         /\ BodyFed(o.p, v) /\ (request_is_done(o.p) \/ o.used = Len(b))
<1> DEFINE n == Len(b)
           m == "DATA"
           taken(k) == SubSeq(b, 1, k)
           J == [k \in 0..n |-> {r \in Parsers(m) : BodyFed(r, taken(k))}]
<1>1. n \in Nat /\ m \in Mode /\ DataMax \in Nat /\ BufferSize \in Nat /\ n <= DataMax
  BY LenProperties, ParserAssumption DEF Mode
<1>2. /\ taken(0) = <<>> /\ \A k \in 0..n : taken(k) \in Seq(Byte) /\ Len(taken(k)) = k
      /\ \A k \in 1..n : taken(k) = Append(taken(k - 1), b[k]) /\ b[k] \in Byte /\ k - 1 \in 0..n
  <2>1. taken(0) = <<>>
    BY SubSeqEmpty
  <2>2. ASSUME NEW k \in 0..n PROVE taken(k) \in Seq(Byte) /\ Len(taken(k)) = k
    BY <1>1, PartOf
  <2>3. ASSUME NEW k \in 1..n PROVE taken(k) = Append(taken(k - 1), b[k]) /\ b[k] \in Byte /\ k - 1 \in 0..n
    <3>1. <<>> \in Seq(Byte)
      BY EmptySeq
    <3>2. /\ <<>> \o SubSeq(b, 1, k) = Append(<<>> \o SubSeq(b, 1, k - 1), b[k])
          /\ b[k] \in Byte /\ k - 1 \in 0..n
      BY <3>1, TakeOne
    <3>3. taken(k) \in Seq(Byte) /\ taken(k - 1) \in Seq(Byte)
      BY <1>1, <2>2, <3>2
    <3>4. <<>> \o taken(k) = taken(k) /\ <<>> \o taken(k - 1) = taken(k - 1)
      BY <3>3, ConcatEmptySeq
    <3>5. QED
      BY <3>2, <3>4
  <2>4. QED
    BY <2>1, <2>2, <2>3
<1> HIDE DEF taken
<1>3. J \in [0..n -> SUBSET Parsers(m)] /\ q \in J[0]
  <2>1. q \in Parsers(m) /\ BodyFed(q, taken(0))
    BY <1>2
  <2>2. QED
    BY <1>1, <2>1
<1>4. \A k \in 0..n : \A r : r \in J[k] <=> r \in Parsers(m) /\ BodyFed(r, taken(k))
  OBVIOUS
<1> HIDE DEF J, n
<1>5. ASSUME NEW k \in 1..n, NEW r \in J[k - 1], ~Stops(m, r), NEW x \in feed(m, r, b[k])
      PROVE  x \in J[k]
  <2>1. k - 1 \in 0..n /\ k \in 0..n /\ taken(k - 1) \in Seq(Byte) /\ b[k] \in Byte
        /\ taken(k) = Append(taken(k - 1), b[k])
    BY <1>1, <1>2
  <2>2. r \in Parsers(m) /\ BodyFed(r, taken(k - 1))
    BY <1>4, <2>1
  <2>3. BodyFed(x, taken(k))
    BY <1>5, <2>1, <2>2, BodyStep
  <2>4. x \in Parsers(m)
    BY <1>1, <1>5, <2>1, <2>2, FeedType
  <2>5. QED
    BY <1>4, <2>1, <2>3, <2>4
<1>6. Leads(m, b, J)
  BY <1>5 DEF Leads, n
<1>7. o.used \in 1..n /\ o.p \in J[o.used] /\ (Stops(m, o.p) \/ o.used = n)
  BY <1>1, <1>3, <1>6, ConsumeRun DEF n
<1>8. o.used \in 0..n /\ v = taken(o.used)
  BY <1>1, <1>7 DEF taken
<1>9. o.p \in Parsers(m) /\ BodyFed(o.p, v) /\ v \in Seq(Byte) /\ Len(v) = o.used
  BY <1>2, <1>4, <1>7, <1>8
<1>10. ASSUME o.used # n PROVE request_is_done(o.p)
  <2>1. SUFFICES ASSUME ~request_is_done(o.p) PROVE FALSE
    OBVIOUS
  <2>2. o.p.i >= DataMax /\ o.p.i \in Nat
    BY <1>7, <1>9, <1>10, <2>1, <1>1 DEF Stops, Parsers, LastPlace
  <2>3. o.p.i <= Len(v)
    <3>1. Len(v) \in Nat
      BY <1>9, LenProperties
    <3> DEFINE i == o.p.i
               j == Len(v)
    <3>2. j = i \/ j = i + 1
      BY <1>9, <2>1 DEF BodyFed, request_is_done
    <3>3. i \in Nat /\ j \in Nat
      BY <2>2, <3>1
    <3> HIDE DEF i, j
    <3>4. i <= j
      BY <3>2, <3>3
    <3>5. QED
      BY <3>4 DEF i, j
  <2>4. QED
    BY <1>1, <1>7, <1>9, <1>10, <2>2, <2>3
<1>11. QED
  BY <1>7, <1>9, <1>10 DEF n

-----------------------------------------------------------------------------
(* The invariant.                                                          *)

\* What the parser has come to, after the bytes it was fed.
Agrees(m, q, w) ==
  /\ m # "DATA" => RequestFed(m, q, w)
  /\ m = "DATA" => BodyFed(q, w)

ParserInv ==
  /\ mode \in Mode /\ p \in Parsers(mode) /\ seen \in Seq(Byte)
  /\ rbuf \in Seq(Byte) /\ Len(rbuf) <= BufferSize
  /\ Agrees(mode, p, seen)
  /\ ~request_is_done(p) => rbuf = <<>> \/ (mode = "ADMIN" /\ seen = <<>>)

\* A body is cut where it ends already.
LEMMA EndedKeeps ==
  ASSUME NEW m \in Mode, NEW q \in Parsers(m), NEW w \in Seq(Byte), Agrees(m, q, w)
  PROVE  /\ Ended(m, q) \in Parsers(m) /\ Agrees(m, Ended(m, q), w)
         /\ request_is_done(Ended(m, q)) <=> request_is_done(q)
<1> DEFINE r == Ended(m, q)
<1>1. r \in Parsers(m)
  BY EndedType
<1>2. CASE m # "DATA" \/ q.state = "segv"
  <2>1. r = q
    BY <1>2 DEF Ended
  <2>2. QED
    BY <1>1, <2>1
<1>3. CASE m = "DATA" /\ q.state # "segv"
  <2>1. BodyFed(q, w)
    BY <1>3 DEF Agrees
  <2>2. DataMax \in Nat /\ q.i \in 0..DataMax /\ q.data \in [0..DataMax -> Byte]
    BY <1>3, ParserAssumption DEF Parsers, LastPlace
  <2>3. r.state = q.state /\ r.i = q.i /\ r.data = Put(q.data, q.i, NUL)
    BY <1>3 DEF Ended, Parsers, Put
  <2>4. CASE q.state = "body"
    <3>1. r.data = Filled(DataMax, w)
      BY <2>1, <2>2, <2>3, <2>4, FilledEnds DEF BodyFed
    <3>2. BodyFed(r, w)
      BY <2>1, <2>3, <2>4, <3>1 DEF BodyFed
    <3>3. QED
      BY <1>1, <1>3, <2>3, <3>2 DEF Agrees, request_is_done
  <2>5. CASE q.state # "body"
    <3>1. Ends(q, w)
      BY <1>3, <2>1, <2>5 DEF BodyFed
    <3>2. \A k \in 0..DataMax : k < q.i => r.data[k] = q.data[k]
      BY <2>2, <2>3 DEF Put
    <3>3. ASSUME q.i > 2 PROVE r.data[q.i - 3] = NUL
      <4>1. q.i - 3 \in 0..DataMax /\ q.i - 3 < q.i
        BY <2>2, <3>3
      <4>2. q.data[q.i - 3] = NUL
        BY <3>1, <3>3 DEF Ends
      <4>3. QED
        BY <3>2, <4>1, <4>2
    <3>4. ASSUME q.i > 2, NEW k \in 1..q.i - 3 PROVE r.data[k - 1] = w[k]
      <4>1. k - 1 \in 0..DataMax /\ k - 1 < q.i
        BY <2>2, <3>4
      <4>2. q.data[k - 1] = w[k]
        BY <3>1, <3>4 DEF Ends
      <4>3. QED
        BY <3>2, <4>1, <4>2
    <3>5. Ends(r, w)
      BY <2>3, <3>1, <3>3, <3>4 DEF Ends
    <3>6. BodyFed(r, w)
      BY <1>3, <2>1, <2>3, <2>5, <3>5 DEF BodyFed
    <3>7. QED
      BY <1>1, <1>3, <2>3, <3>6 DEF Agrees, request_is_done
  <2>6. QED
    BY <2>4, <2>5
<1>4. QED
  BY <1>2, <1>3

\* Whichever its mode, a new parser agrees with no bytes at all.
LEMMA StartAgrees ==
  ASSUME NEW m \in Mode
  PROVE  request_parser_init(m) \in Parsers(m) /\ Agrees(m, request_parser_init(m), <<>>)
<1>1. CASE m = "DATA"
  BY <1>1, BodyAtStart DEF Agrees
<1>2. CASE m # "DATA"
  <2>1. m \in {"READ", "ADMIN"}
    BY <1>2 DEF Mode
  <2>2. InVerb(request_parser_init(m))
    BY ParserAssumption DEF InVerb, request_parser_init, Fresh
  <2>3. QED
    BY <1>2, <2>1, <2>2, FedAtStart, InitType DEF Agrees, RequestFed
<1>3. QED
  BY <1>1, <1>2

\* The rest of a read.
LEMMA RestIs ==
  ASSUME NEW b \in Seq(Byte), Len(b) <= BufferSize, NEW n \in 1..Len(b)
  PROVE  /\ SubSeq(b, n + 1, Len(b)) \in Seq(Byte) /\ Len(SubSeq(b, n + 1, Len(b))) <= BufferSize
         /\ n = Len(b) => SubSeq(b, n + 1, Len(b)) = <<>>
<1> DEFINE s == SubSeq(b, n + 1, Len(b))
           size == Len(b)
<1>1. size \in Nat /\ BufferSize \in Nat /\ size <= BufferSize
  BY LenProperties, ParserAssumption
<1>2. n + 1 \in 1..Len(b) + 2 /\ Len(b) \in 0..Len(b) /\ n + 1 <= Len(b) + 2
  BY <1>1
<1>3. s \in Seq(Byte) /\ Len(s) = IF n + 1 <= size THEN size - (n + 1) + 1 ELSE 0
  BY <1>2, PartOf
<1>4. n = Len(b) => s = <<>>
  BY <1>1, SubSeqEmpty
<1> HIDE DEF s, size
<1>5. n \in 1..size
  BY DEF size
<1>6. Len(s) <= BufferSize
  BY <1>1, <1>3, <1>5
<1>7. QED
  BY <1>3, <1>4, <1>6 DEF s, size

\* A parser that was fed w, and now b.  For a body, b is all there is.
LEMMA ConsumedInv ==
  ASSUME NEW m \in Mode, NEW q \in Parsers(m), NEW w \in Seq(Byte), Agrees(m, q, w),
         m = "DATA" => w = <<>>,
         NEW b \in Seq(Byte), Len(b) <= BufferSize,
         mode' = m, Consumed(m, q, w, b)
  PROVE  ParserInv'
<1>1. PICK o \in consume(m, q, b) :
        p' = Ended(m, o.p) /\ seen' = w \o SubSeq(b, 1, o.used) /\ rbuf' = SubSeq(b, o.used + 1, Len(b))
  BY DEF Consumed
<1> DEFINE v == w \o SubSeq(b, 1, o.used)
<1>2. /\ o.used \in 1..Len(b) /\ o.p \in Parsers(m) /\ v \in Seq(Byte)
      /\ Agrees(m, o.p, v) /\ (request_is_done(o.p) \/ o.used = Len(b))
  <2>1. CASE m # "DATA"
    <3>1. m \in {"READ", "ADMIN"} /\ RequestFed(m, q, w)
      BY <2>1 DEF Mode, Agrees
    <3> HIDE DEF v
    <3>2. v = w \o SubSeq(b, 1, o.used)
      BY DEF v
    <3>3. Outcome(m, o, b, v) /\ RequestFed(m, o.p, v)
      BY <1>1, <3>1, <3>2, RequestConsumed
    <3>4. QED
      BY <2>1, <3>3 DEF Agrees, Outcome
  <2>2. CASE m = "DATA"
    <3> DEFINE u == SubSeq(b, 1, o.used)
    <3>1. q \in Parsers("DATA") /\ BodyFed(q, <<>>) /\ o \in consume("DATA", q, b)
      BY <1>1, <2>2 DEF Agrees
    <3>2. u = SubSeq(b, 1, o.used)
      OBVIOUS
    <3> HIDE DEF u
    <3>3. /\ o.used \in 1..Len(b) /\ o.p \in Parsers("DATA") /\ u \in Seq(Byte)
          /\ BodyFed(o.p, u) /\ (request_is_done(o.p) \/ o.used = Len(b))
      BY <3>1, <3>2, BodyConsumed
    <3>4. v = u
      BY <2>2, <3>2, <3>3, ConcatEmptySeq
    <3>5. QED
      BY <2>2, <3>3, <3>4 DEF Agrees
  <2>3. QED
    BY <2>1, <2>2
<1>3. seen' = v
  BY <1>1
<1> HIDE DEF v
<1>4. p' \in Parsers(m) /\ Agrees(m, p', v) /\ (request_is_done(p') <=> request_is_done(o.p))
  BY <1>1, <1>2, EndedKeeps
<1>5. rbuf' \in Seq(Byte) /\ Len(rbuf') <= BufferSize /\ (o.used = Len(b) => rbuf' = <<>>)
  BY <1>1, <1>2, RestIs
<1>6. QED
  BY <1>2, <1>3, <1>4, <1>5 DEF ParserInv

\* The first parser agrees with no bytes.
LEMMA InitInv ==
  ASSUME Init
  PROVE  ParserInv
<1>1. "READ" \in Mode /\ <<>> \in Seq(Byte) /\ Len(<<>>) = 0 /\ BufferSize \in Nat
  BY ParserAssumption, EmptySeq DEF Mode
<1>2. QED
  BY <1>1, StartAgrees DEF Init, ParserInv

\* A read, of whatever bytes, keeps the invariant.
LEMMA ReceiveInv ==
  ASSUME ParserInv, Receive
  PROVE  ParserInv'
<1>1. mode \in Mode /\ p \in Parsers(mode) /\ seen \in Seq(Byte) /\ Agrees(mode, p, seen) /\ mode' = mode
  BY DEF ParserInv, Receive
<1>2. PICK bytes \in Reads[mode] : Consumed(mode, p, seen, bytes)
  BY DEF Receive
<1>3. bytes \in Seq(Byte) /\ Len(bytes) <= BufferSize
  <2>1. bytes \in Seq(Byte) /\ Len(bytes) \in 1..BufferSize /\ BufferSize \in Nat
    BY <1>1, ParserAssumption
  <2>2. QED
    BY <2>1
<1>4. mode = "DATA" => seen = <<>>
  BY DEF Receive
<1>5. QED
  BY <1>1, <1>2, <1>3, <1>4, ConsumedInv

\* The read of what a finished request left in the buffer keeps the invariant.
LEMMA ReadBufferedInv ==
  ASSUME ParserInv, ReadBuffered
  PROVE  ParserInv'
<1>1. mode \in Mode /\ p \in Parsers(mode) /\ seen \in Seq(Byte) /\ Agrees(mode, p, seen) /\ mode' = mode
      /\ rbuf \in Seq(Byte) /\ Len(rbuf) <= BufferSize
  BY DEF ParserInv, ReadBuffered
<1>2. mode # "DATA" /\ Consumed(mode, p, seen, rbuf)
  BY DEF ReadBuffered
<1>3. QED
  BY <1>1, <1>2, ConsumedInv

\* A new parser, on arrival in a state that reads, keeps the invariant.
LEMMA ArriveInv ==
  ASSUME ParserInv, NEW m \in Mode, Arrive(m)
  PROVE  ParserInv'
<1>1. rbuf \in Seq(Byte) /\ Len(rbuf) <= BufferSize /\ mode' = m /\ <<>> \in Seq(Byte)
  BY EmptySeq DEF ParserInv, Arrive
<1>2. request_parser_init(m) \in Parsers(m) /\ Agrees(m, request_parser_init(m), <<>>)
  BY StartAgrees
<1>3. CASE rbuf = <<>> \/ m = "ADMIN"
  <2>1. p' = request_parser_init(m) /\ seen' = <<>> /\ rbuf' = rbuf
    BY <1>3 DEF Arrive
  <2>2. QED
    BY <1>1, <1>2, <1>3, <2>1 DEF ParserInv
<1>4. CASE ~(rbuf = <<>> \/ m = "ADMIN")
  <2>1. Consumed(m, request_parser_init(m), <<>>, rbuf)
    BY <1>4 DEF Arrive
  <2>2. QED
    BY <1>1, <1>2, <2>1, ConsumedInv
<1>5. QED
  BY <1>3, <1>4

\* The parsers of request.c, request_admin.c and request_data.c are, after every read
\* and whatever the cuts, what the bytes fed to them say.
THEOREM Invariant == Spec => []ParserInv
<1>1. ParserInv /\ [Next]_vars => ParserInv'
  <2> SUFFICES ASSUME ParserInv, [Next]_vars PROVE ParserInv'
    OBVIOUS
  <2>1. CASE Receive
    BY <2>1, ReceiveInv
  <2>2. CASE ReadBuffered
    BY <2>2, ReadBufferedInv
  <2>3. CASE \E m \in Mode : Arrive(m)
    BY <2>3, ArriveInv
  <2>4. CASE UNCHANGED vars
    BY <2>4 DEF vars, ParserInv
  <2>5. QED
    BY <2>1, <2>2, <2>3, <2>4 DEF Next
<1>2. QED
  BY <1>1, InitInv, PTL DEF Spec

-----------------------------------------------------------------------------
(* The properties.                                                         *)

\* A request is recognised by the byte that completes it and rejected by the first after
\* which none is possible, for every cut of what a client sends, and verb and argument
\* are those of its line, as C strings.
THEOREM GrammarRecognised == Spec => []RequestsByGrammar
<1>1. ParserInv => RequestsByGrammar
  <2> SUFFICES ASSUME ParserInv, mode = "READ" \/ (mode = "ADMIN" /\ Len(Line(seen).verb) <= VerbMax)
               PROVE  /\ p.state = "error" <=> ~Viable(mode, seen)
                      /\ p.state = "done"  <=> Complete(mode, seen)
                      /\ p.state = "done"  => /\ Text(p.verb) = UpToNul(Line(seen).verb)
                                              /\ Text(p.arg)  = UpToNul(Line(seen).arg)
    BY DEF RequestsByGrammar
  <2> DEFINE l == Line(seen)
  <2>1. /\ mode \in Mode /\ p \in Parsers(mode) /\ seen \in Seq(Byte) /\ mode # "DATA"
        /\ Fed(mode, p, l) \/ TooLong(mode, l)
    BY DEF ParserInv, Agrees, RequestFed
  <2>2. l \in Lines
    BY <2>1, LineType
  <2>3. VerbMax \in Nat /\ ArgMax \in Nat /\ l.verb \in Seq(Byte) /\ l.arg \in Seq(Byte)
        /\ Len(l.verb) \in Nat /\ Len(l.arg) \in Nat
    BY <2>2, ParserAssumption, LenProperties DEF Lines
  <2>4. ~TooLong(mode, l)
    BY <2>3 DEF TooLong
  <2>5. (Viable(mode, seen) <=> Possible(mode, l)) /\ (Complete(mode, seen) <=> Possible(mode, l) /\ l.after = <<LF>>)
    BY ViableIs DEF Complete
  <2> HIDE DEF l
  <2>6. Fed(mode, p, l)
    BY <2>1, <2>4
  <2>7. p.state # "error" => Possible(mode, l) /\ Kept(p, l)
    BY <2>6 DEF Fed, Kept, Possible
  <2>8. p.state = "error" => ~Possible(mode, l)
    BY <2>6 DEF Fed
  <2>9. p.state # "error" => (p.state = "done" <=> l.after = <<LF>>)
    <3>1. <<LF>> # <<>>
      OBVIOUS
    <3>2. QED
      BY <2>6, <3>1 DEF Fed
  <2>10. ASSUME p.state = "done" PROVE Text(p.verb) = UpToNul(l.verb) /\ Text(p.arg) = UpToNul(l.arg)
    <3>1. /\ p.verb = Filled(VerbMax, l.verb) /\ Len(l.verb) <= VerbMax
          /\ p.arg = Filled(ArgMax, l.arg) /\ Len(l.arg) <= ArgMax
      BY <2>7, <2>10 DEF Kept
    <3>2. Text(p.verb) = UpToNul(l.verb)
      BY <2>3, <3>1, TextOfFilled
    <3>3. Text(p.arg) = UpToNul(l.arg)
      BY <2>3, <3>1, TextOfFilled
    <3>4. QED
      BY <3>2, <3>3
  <2>11. QED
    BY <2>5, <2>7, <2>8, <2>9, <2>10 DEF l
<1>2. QED
  BY <1>1, Invariant, PTL

\* Wherever a parser stands, the places it may store at are in their arrays.
LEMMA Inside ==
  ASSUME NEW m \in Mode, NEW q \in Parsers(m), m # "DATA" => InVerb(q)
  PROVE  StoresInside(m, q)
<1>1. VerbMax \in Nat /\ ArgMax \in Nat /\ DataMax \in Nat /\ VerbMax <= ArgMax
  BY ParserAssumption
<1>2. DOMAIN q.verb = 0..VerbMax /\ DOMAIN q.arg = 0..ArgMax /\ DOMAIN q.data = 0..DataMax
      /\ q.i \in Nat /\ q.i <= LastPlace(m)
  BY <1>1 DEF Parsers, LastPlace
<1>3. ASSUME m # "DATA"
      PROVE  /\ q.state = "verb" => q.i \in DOMAIN q.verb /\ q.i \in DOMAIN q.arg
             /\ q.state = "arg" => q.i \in DOMAIN q.arg
  BY <1>1, <1>2, <1>3 DEF InVerb, LastPlace
<1>4. ASSUME m = "DATA"
      PROVE  /\ q.i \in DOMAIN q.data
             /\ Terminates(q, CR) /\ q.i # 2 => q.i - 3 \in DOMAIN q.data
  BY <1>1, <1>2, <1>4 DEF Terminates, LastPlace
<1>5. QED
  BY <1>3, <1>4 DEF StoresInside

\* Before any byte the indices a parser may store at are in their arrays, but for the one
\* of body() that StoresInside names, and who waits has read all there is.
THEOREM NothingLeftUnread == Spec => []WaitsWithNothingUnread
<1>1. ParserInv => WaitsWithNothingUnread
  <2> SUFFICES ASSUME ParserInv PROVE WaitsWithNothingUnread
    OBVIOUS
  <2>1. mode \in Mode /\ p \in Parsers(mode) /\ Len(rbuf) <= BufferSize
    BY DEF ParserInv
  <2>2. mode # "DATA" => InVerb(p)
    BY DEF ParserInv, Agrees, RequestFed
  <2>3. StoresInside(mode, p)
    BY <2>1, <2>2, Inside
  <2>4. TypeOK
    BY <2>1, ParserAssumption DEF TypeOK, Parsers, LastPlace
  <2>5. QED
    BY <2>3, <2>4 DEF ParserInv, WaitsWithNothingUnread
<1>2. QED
  BY <1>1, Invariant, PTL

\* A body ends at the first line of the read that is a dot, and its text is what is in
\* front of it.
THEOREM BodyRecognised == Spec => []BodyByTerminator
<1>1. ParserInv => BodyByTerminator
  <2> SUFFICES ASSUME ParserInv, mode = "DATA"
               PROVE  LET k == Min(Dots)
                      IN  /\ p.state = "body" <=> Dots = {}
                          /\ p.state = "body" => Text(p.data) = UpToNul(seen)
                          /\ p.state = "done" <=> Dots # {} /\ k + 3 <= Len(seen) /\ seen[k + 3] = LF /\ p.state # "segv"
                          /\ p.state = "done" /\ k > 1 => Text(p.data) = UpToNul(SubSeq(seen, 1, k - 2))
                          /\ p.state = "segv" => k = 1
    BY DEF BodyByTerminator
  <2> DEFINE w == seen
             n == Len(seen)
  <2>1. p \in Parsers("DATA") /\ w \in Seq(Byte) /\ BodyFed(p, w) /\ Dots = DotsOf(w)
    BY DEF ParserInv, Agrees, Dots, DotsOf
  <2>2. /\ n \in Nat /\ DataMax \in Nat /\ p.i \in 0..DataMax
        /\ p.data \in [0..DataMax -> Byte] /\ NUL \in Byte
    BY <2>1, LenProperties, ParserAssumption DEF Parsers, LastPlace
  <2>3. \A x : Min({x}) = x
    BY DEF Min
  <2> HIDE DEF w, n
  <2>4. CASE p.state = "body"
    <3>1. DotsOf(w) = {} /\ p.i = Len(w) /\ p.data = Filled(DataMax, w)
      BY <2>1, <2>4 DEF BodyFed
    <3>2. Text(p.data) = UpToNul(w)
      BY <2>1, <2>2, <3>1, TextOfFilled
    <3>3. QED
      BY <2>1, <2>4, <3>1, <3>2 DEF w
  <2>5. CASE p.state = "segv"
    <3>1. DotsOf(w) = {1}
      BY <2>1, <2>5 DEF BodyFed
    <3>2. QED
      BY <2>1, <2>3, <2>5, <3>1
  <2>6. CASE p.state \in {"cr", "done", "error"}
    <3> DEFINE k == p.i - 1
    <3>1. Ends(p, w) /\ (p.state = "cr" => n = p.i + 1)
          /\ (p.state # "cr" => n = p.i + 2 /\ (p.state = "done" <=> w[p.i + 2] = LF))
      BY <2>1, <2>6 DEF BodyFed, n, w
    <3>2. p.i >= 2 /\ DotsOf(w) = {k}
      BY <3>1 DEF Ends
    <3>3. Min(Dots) = k /\ Dots # {}
      BY <2>1, <2>3, <3>2
    <3>4. k + 3 = p.i + 2
      BY <2>2
    <3>5. p.state = "done" <=> k + 3 <= n /\ w[k + 3] = LF
      <4>1. CASE p.state = "cr"
        BY <2>2, <3>1, <3>4, <4>1
      <4>2. CASE p.state # "cr"
        BY <2>2, <3>1, <3>4, <4>2
      <4>3. QED
        BY <4>1, <4>2
    <3>6. ASSUME k > 1 PROVE Text(p.data) = UpToNul(SubSeq(w, 1, k - 2))
      <4> DEFINE s == SubSeq(w, 1, k - 2)
      <4>1. p.i > 2 /\ k - 2 = p.i - 3 /\ k - 2 \in 0..Len(w) /\ k - 2 <= DataMax
        BY <2>2, <3>1, <3>6 DEF n, w
      <4>2. p.data[k - 2] = NUL /\ \A j \in 1..k - 2 : p.data[j - 1] = w[j]
        BY <3>1, <4>1 DEF Ends
      <4>3. s \in Seq(Byte) /\ Len(s) = k - 2 /\ \A j \in 1..Len(s) : s[j] = w[j]
        <5> DEFINE j == k - 2
        <5>1. j \in 0..Len(w)
          BY <4>1
        <5> HIDE DEF j, k
        <5>2. SubSeq(w, 1, j) \in Seq(Byte) /\ Len(SubSeq(w, 1, j)) = j
              /\ \A x \in 1..j : SubSeq(w, 1, j)[x] = w[x]
          BY <2>1, <5>1, PrefixIs
        <5>3. QED
          BY <5>2 DEF j
      <4> HIDE DEF s, k
      <4>4. QED
        BY ZenonT(60), <2>2, <4>1, <4>2, <4>3, TextOf DEF s
    <3>7. QED
      BY <2>6, <3>3, <3>5, <3>6 DEF w, n
  <2>7. QED
    BY <2>1, <2>4, <2>5, <2>6 DEF BodyFed
<1>2. QED
  BY <1>1, Invariant, PTL

-----------------------------------------------------------------------------
(* Texts of tokens: what they spell, and where each token is in that.      *)

\* Texts joined one behind the other.
Joined(a, g) == \A k \in 1..Len(a) : g[k] = IF k = 1 THEN a[k] ELSE g[k - 1] \o a[k]

\* A sequence of texts is flattened by joining them.
LEMMA FlattenIs ==
  ASSUME NEW a \in Seq(Seq(Byte)), a # <<>>
  PROVE  \E g \in [1..Len(a) -> Seq(Byte)] : Joined(a, g) /\ FlattenSeq(a) = g[Len(a)]
<1> DEFINE n == Len(a)
           V == Seq(Byte)
           G == [k \in 1..n - 1 |-> [x \in V |-> x \o a[k + 1]]]
           flatten[k \in 1..n] == IF k = 1 THEN a[k] ELSE flatten[k - 1] \o a[k]
           Is(h) == h = [k \in 1..n |-> IF k = 1 THEN a[k] ELSE h[k - 1] \o a[k]]
<1>1. n \in Nat /\ n # 0 /\ \A k \in 1..n : a[k] \in V
  BY LenProperties, ElementOfSeq, EmptySeq
<1>2. n - 1 \in Nat /\ a[1] \in V /\ \A k \in 1..n - 1 : k + 1 \in 1..n
  BY <1>1
<1>3. G \in [1..n - 1 -> [V -> V]]
  BY <1>1, <1>2, ConcatProperties
<1>4. \A k \in 1..n - 1 : \A x \in V : G[k][x] = x \o a[k + 1]
  OBVIOUS
<1>a. FlattenSeq(a) = flatten[n]
  BY <1>1 DEF FlattenSeq
<1>b. flatten = CHOOSE h : Is(h)
  BY DEF flatten
<1> HIDE DEF G, V, n, flatten
<1>5. PICK f \in [0..n - 1 -> V] : Follows(f, n - 1, a[1], G)
  BY <1>2, <1>3, RecursionExists
<1> DEFINE g == [k \in 1..n |-> f[k - 1]]
<1>6. \A k \in 1..n : k - 1 \in 0..n - 1 /\ (k # 1 => k - 1 \in 1..n /\ k - 1 \in 1..n - 1 /\ k - 1 - 1 \in 0..n - 1)
  BY <1>1
<1>7. g \in [1..n -> V]
  BY <1>6
<1>8. ASSUME NEW k \in 1..n PROVE g[k] = IF k = 1 THEN a[k] ELSE g[k - 1] \o a[k]
  <2>1. CASE k = 1
    <3>1. f[0] = a[1] /\ g[1] = f[0]
      BY <1>1, <1>2, <1>5, <2>1 DEF Follows
    <3>2. QED
      BY <2>1, <3>1
  <2>2. CASE k # 1
    <3> DEFINE j == k - 1
    <3>1. j \in 0..n - 1 /\ j \in 1..n /\ j \in 1..n - 1 /\ j - 1 \in 0..n - 1 /\ j # 0 /\ j + 1 = k
      BY <1>6, <2>2
    <3>2. g[k] = f[j] /\ g[j] = f[j - 1]
      BY <3>1
    <3> HIDE DEF j, g
    <3>3. f[j] = G[j][f[j - 1]] /\ f[j - 1] \in V
      BY <1>5, <3>1 DEF Follows
    <3>4. f[j] = f[j - 1] \o a[j + 1]
      BY <1>4, <3>1, <3>3
    <3>5. QED
      BY <2>2, <3>1, <3>2, <3>4 DEF j
  <2>3. QED
    BY <2>1, <2>2
<1>9. Is(g)
  BY <1>8
<1> HIDE DEF g
<1>10. Is(flatten)
  <2> HIDE DEF Is
  <2>1. QED
    BY <1>9, <1>b
<1>11. \A k \in 1..n : flatten[k] = IF k = 1 THEN a[k] ELSE flatten[k - 1] \o a[k]
  BY <1>10
<1> HIDE DEF Is
<1> DEFINE K == {k \in 0..n : k = 0 \/ flatten[k] = g[k]}
<1>12. 0 \in K
  BY <1>1
<1>13. ASSUME NEW k \in 1..n, k - 1 \in K PROVE k \in K
  <2>1. flatten[k] = (IF k = 1 THEN a[k] ELSE flatten[k - 1] \o a[k]) /\ g[k] = IF k = 1 THEN a[k] ELSE g[k - 1] \o a[k]
    BY <1>8, <1>11
  <2>2. k # 1 => flatten[k - 1] = g[k - 1]
    BY <1>13
  <2>3. QED
    BY <1>1, <2>1, <2>2
<1> HIDE DEF K
<1>14. \A k \in 0..n : k \in K
  BY <1>1, <1>12, <1>13, UpTo
<1>15. n \in 0..n
  BY <1>1
<1>16. flatten[n] = g[n]
  <2>1. n \in K
    BY <1>14, <1>15
  <2>2. QED
    BY <1>1, <2>1 DEF K
<1>17. Joined(a, g)
  BY <1>8 DEF Joined, n
<1>18. g \in [1..Len(a) -> Seq(Byte)] /\ FlattenSeq(a) = g[Len(a)]
  BY <1>7, <1>a, <1>16 DEF n, V
<1>19. QED
  BY <1>17, <1>18

\* One text more.
LEMMA FlattenGrows ==
  ASSUME NEW a \in Seq(Seq(Byte)), NEW x \in Seq(Byte)
  PROVE  /\ FlattenSeq(<<>>) = <<>> /\ FlattenSeq(a) \in Seq(Byte)
         /\ FlattenSeq(Append(a, x)) = FlattenSeq(a) \o x
<1> DEFINE b == Append(a, x)
           n == Len(a)
<1>1. n \in Nat /\ b \in Seq(Seq(Byte)) /\ b # <<>> /\ Len(b) = n + 1 /\ b[n + 1] = x
      /\ \A k \in 1..n : b[k] = a[k]
  BY LenProperties, AppendProperties
<1> HIDE DEF b
<1>2. FlattenSeq(<<>>) = <<>>
  BY EmptySeq DEF FlattenSeq
<1>3. PICK g \in [1..Len(b) -> Seq(Byte)] : Joined(b, g) /\ FlattenSeq(b) = g[Len(b)]
  BY <1>1, FlattenIs
<1>4. CASE a = <<>>
  <2>1. n = 0
    BY <1>4, EmptySeq
  <2>2. FlattenSeq(b) = x
    BY <1>1, <1>3, <2>1 DEF Joined
  <2>3. <<>> \o x = x
    BY ConcatEmptySeq
  <2>4. QED
    BY <1>2, <1>4, <2>2, <2>3, EmptySeq DEF b
<1>5. CASE a # <<>>
  <2> HIDE DEF n
  <2>1. PICK f \in [1..Len(a) -> Seq(Byte)] : Joined(a, f) /\ FlattenSeq(a) = f[Len(a)]
    BY <1>5, FlattenIs
  <2>2. n # 0
    BY <1>5, EmptySeq DEF n
  <2> DEFINE K == {k \in 0..n : k = 0 \/ f[k] = g[k]}
  <2>3. 0 \in K
    BY <1>1
  <2>4. ASSUME NEW k \in 1..n, k - 1 \in K PROVE k \in K
    <3>1. k \in 1..n + 1 /\ b[k] = a[k] /\ k \in 1..Len(a) /\ k \in 1..Len(b)
      BY <1>1 DEF n
    <3>2. f[k] = (IF k = 1 THEN a[k] ELSE f[k - 1] \o a[k]) /\ g[k] = IF k = 1 THEN b[k] ELSE g[k - 1] \o b[k]
      BY <1>3, <2>1, <3>1 DEF Joined
    <3>3. k # 1 => f[k - 1] = g[k - 1]
      BY <2>4
    <3>4. f[k] = g[k]
      BY <3>1, <3>2, <3>3
    <3>5. k \in 0..n
      BY <1>1
    <3>6. QED
      BY <3>4, <3>5
  <2> HIDE DEF K
  <2>5. \A k \in 0..n : k \in K
    BY <1>1, <2>3, <2>4, UpTo
  <2>6. f[n] = g[n]
    <3>1. n \in 0..n
      BY <1>1
    <3>2. n \in K
      BY <2>5, <3>1
    <3>3. QED
      BY <2>2, <3>2 DEF K
  <2>7. g[n + 1] = g[n] \o x
    <3>1. n + 1 \in 1..n + 1 /\ n + 1 # 1 /\ n + 1 - 1 = n
      BY <1>1, <2>2
    <3>2. n + 1 \in 1..Len(b)
      BY <1>1, <3>1
    <3> DEFINE k == n + 1
    <3>3. g[k] = IF k = 1 THEN b[k] ELSE g[k - 1] \o b[k]
      BY <1>3, <3>2 DEF Joined
    <3>4. QED
      BY <1>1, <3>1, <3>3
  <2>8. f[n] \in Seq(Byte)
    BY <1>1, <2>2 DEF n
  <2>9. QED
    BY <1>1, <1>2, <1>3, <2>1, <2>6, <2>7, <2>8 DEF b, n
<1>6. QED
  BY <1>4, <1>5

\* The bytes B of a head: its verb V, a space and its argument A if it has one, CR.
HeadParts(u, B, V, A) ==
  /\ B \in Seq(Byte) /\ V \in Seq(Byte) /\ Len(B) \in Nat /\ Len(V) \in Nat
  /\ 1 <= Len(V) /\ Len(V) < Len(B)
  /\ B[Len(B)] = CR /\ \A k \in 1..Len(B) - 1 : B[k] \notin {CR, LF, NUL}
  /\ \A k \in 1..Len(V) : B[k] = V[k] /\ V[k] \notin {SP, CR, LF, NUL}
  /\ u.arg = T!NoArg => Len(B) = Len(V) + 1
  /\ u.arg # T!NoArg =>
       /\ A \in Seq(Byte) /\ Len(A) \in Nat /\ Len(A) <= ArgMax /\ Len(B) = Len(V) + 2 + Len(A)
       /\ B[Len(V) + 1] = SP
       /\ \A k \in 1..Len(A) : B[Len(V) + 1 + k] = A[k] /\ A[k] # NUL

\* A head's bytes are in these parts.
LEMMA HeadIs ==
  ASSUME NEW u \in Tokens, u # T!LF
  PROVE  HeadParts(u, Bytes(u), Spelling[u.verb], Spelling[u.arg])
<1> SUFFICES ASSUME NEW B, B = Bytes(u), NEW V, V = Spelling[u.verb], NEW A, A = Spelling[u.arg]
             PROVE  HeadParts(u, B, V, A)
  OBVIOUS
<1> DEFINE blank == <<SP>>
           return == <<CR>>
           R == IF u.arg = T!NoArg THEN <<>> ELSE blank \o A
           VR == V \o R
           Words == Byte \ {SP, CR, LF, NUL}
           Rests == Byte \ {CR, LF, NUL}
           v == Len(V)
           a == Len(A)
           r == Len(R)
<1>1. B = VR \o return
  BY DEF Bytes
<1>2. V # <<>> /\ V \in Seq(Words) /\ (u.arg # T!NoArg => A \in Seq(Rests) /\ Len(A) <= ArgMax)
  BY SpellingAssumption
<1>3. Words \subseteq Rests /\ Rests \subseteq Byte /\ SP \in Rests /\ CR \in Byte
  BY ParserAssumption DEF SP, CR, LF, NUL
<1>4. /\ blank \in Seq(Rests) /\ Len(blank) = 1 /\ blank[1] = SP
      /\ return \in Seq(Byte) /\ Len(return) = 1 /\ return[1] = CR
  BY <1>3
<1>5. V \in Seq(Rests) /\ V \in Seq(Byte) /\ v \in Nat /\ v >= 1 /\ \A k \in 1..v : V[k] \in Words
  <2>1. V \in Seq(Rests) /\ V \in Seq(Byte)
    BY <1>2, <1>3, SeqMonotonic
  <2>2. v \in Nat \ {0}
    BY <1>2, EmptySeq
  <2>3. \A k \in 1..v : V[k] \in Words
    BY <1>2, ElementOfSeq
  <2>4. QED
    BY <2>1, <2>2, <2>3
<1> HIDE DEF blank, return
<1>6. /\ R \in Seq(Rests) /\ r \in Nat
      /\ u.arg = T!NoArg => r = 0
      /\ u.arg # T!NoArg => /\ A \in Seq(Byte) /\ a \in Nat /\ a <= ArgMax /\ r = 1 + a
                            /\ R[1] = SP /\ \A k \in 1..a : R[1 + k] = A[k] /\ A[k] # NUL
  <2>1. CASE u.arg = T!NoArg
    BY <2>1, EmptySeq
  <2>2. CASE u.arg # T!NoArg
    <3> DEFINE W == blank \o A
    <3>1. A \in Seq(Rests) /\ a <= ArgMax
      BY <1>2, <2>2
    <3>2. A \in Seq(Byte) /\ a \in Nat /\ \A k \in 1..a : A[k] \in Rests
      BY <1>3, <3>1, SeqMonotonic, LenProperties, ElementOfSeq
    <3>3. /\ W \in Seq(Rests) /\ Len(W) = 1 + a
          /\ \A i \in 1..1 + a : W[i] = IF i <= 1 THEN blank[i] ELSE A[i - 1]
      BY <1>4, <3>1, ConcatProperties
    <3> HIDE DEF W, Words, Rests, a
    <3>4. W[1] = SP
      BY <1>4, <3>2, <3>3
    <3>5. ASSUME NEW k \in 1..a PROVE W[1 + k] = A[k]
      <4>1. 1 + k \in 1..1 + a /\ ~(1 + k <= 1) /\ 1 + k - 1 = k
        BY <3>2
      <4>2. QED
        BY <3>3, <4>1
    <3>6. \A k \in 1..a : A[k] # NUL
      BY <3>2 DEF Rests
    <3>7. R = W
      BY <2>2 DEF W
    <3>8. r = Len(W)
      BY <3>7
    <3> HIDE DEF R, r
    <3>9. QED
      BY <2>2, <3>1, <3>2, <3>3, <3>4, <3>5, <3>6, <3>7, <3>8 DEF a
  <2>3. QED
    BY <2>1, <2>2
<1> HIDE DEF R, Words, Rests
<1>7. /\ VR \in Seq(Rests) /\ Len(VR) = v + r
      /\ \A i \in 1..v + r : VR[i] = IF i <= v THEN V[i] ELSE R[i - v]
  BY <1>5, <1>6, ConcatProperties
<1>8. VR \in Seq(Byte) /\ \A i \in 1..v + r : VR[i] \in Rests
  BY <1>3, <1>7, SeqMonotonic, ElementOfSeq
<1> DEFINE m == v + r
<1> HIDE DEF VR, v, r, a
<1>a. m \in Nat /\ m = v + r /\ v \in Nat /\ r \in Nat
  BY <1>5, <1>6
<1> HIDE DEF m
<1>b. VR \in Seq(Byte) /\ Len(VR) = m
  BY <1>7, <1>8, <1>a
<1>9. /\ B \in Seq(Byte) /\ Len(B) = m + 1
      /\ \A i \in 1..m + 1 : B[i] = IF i <= m THEN VR[i] ELSE return[i - m]
  <2> DEFINE C == VR \o return
             x == Len(VR)
             y == Len(return)
  <2>1. C \in Seq(Byte) /\ Len(C) = x + y /\ \A i \in 1..x + y : C[i] = IF i <= x THEN VR[i] ELSE return[i - x]
    BY <1>4, <1>b, ConcatProperties
  <2>2. x = m /\ y = 1 /\ C = B
    BY <1>1, <1>4, <1>b
  <2> HIDE DEF C, x, y
  <2>3. QED
    BY <2>1, <2>2
<1>10. B[Len(B)] = CR /\ \A k \in 1..v + r : B[k] = VR[k] /\ VR[k] \in Rests
  <2>1. m + 1 \in 1..m + 1 /\ ~(m + 1 <= m) /\ m + 1 - m = 1
    BY <1>a
  <2> DEFINE e == m + 1
  <2>a. e - m = 1 /\ Len(B) = e
    BY <1>9, <1>a
  <2> HIDE DEF e
  <2>2. B[e] = return[e - m]
    BY <1>9, <2>1 DEF e
  <2>3. B[Len(B)] = CR
    BY <1>4, <2>a, <2>2
  <2>4. \A k \in 1..m : k \in 1..m + 1 /\ k <= m
    BY <1>a
  <2>5. \A k \in 1..m : B[k] = VR[k] /\ VR[k] \in Rests
    BY <1>8, <1>9, <1>a, <2>4
  <2>6. QED
    BY <1>a, <2>3, <2>5
<1>11. \A k \in 1..v : B[k] = V[k] /\ V[k] \in Words
  <2>1. \A k \in 1..v : k \in 1..v + r /\ k <= v
    BY <1>5, <1>6
  <2>2. QED
    BY <1>5, <1>7, <1>10, <2>1
<1>12. ASSUME u.arg # T!NoArg
       PROVE  B[v + 1] = SP /\ \A k \in 1..a : B[v + 1 + k] = A[k]
  <2>1. ASSUME NEW k \in 1..r PROVE B[v + k] = R[k]
    <3> DEFINE j == v + k
    <3>1. j \in 1..v + r /\ ~(j <= v) /\ j - v = k
      BY <1>a
    <3> HIDE DEF j
    <3>2. B[j] = VR[j] /\ VR[j] = R[j - v]
      BY <1>7, <1>10, <3>1
    <3>3. QED
      BY <3>1, <3>2 DEF j
  <2>2. a \in Nat /\ r = 1 + a /\ R[1] = SP /\ \A k \in 1..a : R[1 + k] = A[k]
    BY <1>6, <1>12
  <2>3. B[v + 1] = SP
    BY <2>1, <2>2
  <2>4. ASSUME NEW k \in 1..a PROVE B[v + 1 + k] = A[k]
    <3>1. 1 + k \in 1..r /\ v + (1 + k) = v + 1 + k
      BY <1>5, <2>2
    <3>2. QED
      BY <2>1, <2>2, <3>1
  <2>5. QED
    BY <2>3, <2>4
<1>13. /\ B \in Seq(Byte) /\ V \in Seq(Byte) /\ Len(B) \in Nat /\ v \in Nat /\ 1 <= v /\ v < Len(B)
       /\ Len(B) - 1 = v + r
       /\ u.arg = T!NoArg => Len(B) = v + 1
       /\ u.arg # T!NoArg => Len(B) = v + 2 + a
  <2>1. (u.arg = T!NoArg => r = 0) /\ (u.arg # T!NoArg => a \in Nat /\ r = 1 + a)
    BY <1>6
  <2>2. B \in Seq(Byte) /\ V \in Seq(Byte) /\ v >= 1
    BY <1>5, <1>9
  <2>3. Len(B) = v + r + 1
    BY <1>9, <1>a
  <2>4. QED
    BY <1>a, <2>1, <2>2, <2>3
<1>14. QED
  <2>1. /\ Len(B) \in Nat /\ Len(V) \in Nat /\ 1 <= Len(V) /\ Len(V) < Len(B)
        /\ \A k \in 1..Len(B) - 1 : B[k] \notin {CR, LF, NUL}
    BY <1>10, <1>13 DEF v, Rests
  <2>2. \A k \in 1..Len(V) : B[k] = V[k] /\ V[k] \notin {SP, CR, LF, NUL}
    BY <1>11 DEF v, Words
  <2>3. u.arg # T!NoArg =>
          /\ A \in Seq(Byte) /\ Len(A) \in Nat /\ Len(A) <= ArgMax /\ Len(B) = Len(V) + 2 + Len(A)
          /\ B[Len(V) + 1] = SP
          /\ \A k \in 1..Len(A) : B[Len(V) + 1 + k] = A[k] /\ A[k] # NUL
    BY <1>6, <1>12, <1>13 DEF v, a
  <2>4. B \in Seq(Byte) /\ V \in Seq(Byte) /\ B[Len(B)] = CR /\ (u.arg = T!NoArg => Len(B) = Len(V) + 1)
    BY <1>10, <1>13 DEF v
  <2>5. QED
    BY <2>1, <2>2, <2>3, <2>4 DEF HeadParts

\* The bytes of a token.
LEMMA BytesIs ==
  ASSUME NEW t \in Tokens
  PROVE  /\ Bytes(t) \in Seq(Byte) /\ Len(Bytes(t)) \in Nat /\ Len(Bytes(t)) >= 1
         /\ t = T!LF => Bytes(t) = <<LF>>
         /\ t # T!LF => Len(Bytes(t)) >= 2
         /\ \A k \in 1..Len(Bytes(t)) : Bytes(t)[k] # NUL
<1>1. CASE t = T!LF
  <2>1. Bytes(t) = <<LF>> /\ LF \in Byte /\ LF # NUL
    BY <1>1, ParserAssumption DEF Bytes, LF, NUL
  <2>2. QED
    BY <1>1, <2>1
<1>2. CASE t # T!LF
  <2> DEFINE B == Bytes(t)
             V == Spelling[t.verb]
             A == Spelling[t.arg]
             n == Len(B)
  <2>1. HeadParts(t, B, V, A)
    BY <1>2, HeadIs
  <2> HIDE DEF B, V, A
  <2>2. /\ B \in Seq(Byte) /\ n \in Nat /\ Len(V) \in Nat /\ 1 <= Len(V) /\ Len(V) < n
        /\ B[n] = CR /\ \A k \in 1..n - 1 : B[k] \notin {CR, LF, NUL}
    BY <2>1 DEF HeadParts
  <2> HIDE DEF n
  <2>3. n >= 2 /\ \A k \in 1..n : k = n \/ k \in 1..n - 1
    BY <2>2
  <2>4. CR # NUL
    BY DEF CR, NUL
  <2>5. \A k \in 1..n : B[k] # NUL
    BY <2>2, <2>3, <2>4
  <2>6. QED
    BY <1>2, <2>2, <2>3, <2>5 DEF B, n
<1>3. QED
  BY <1>1, <1>2

\* Nothing is spelled with nothing, and one token more with its bytes.
LEMMA SpelledGrows ==
  ASSUME NEW ts \in Seq(Tokens), NEW t \in Tokens
  PROVE  /\ Spelled(<<>>) = <<>> /\ Spelled(ts) \in Seq(Byte) /\ Len(Spelled(ts)) \in Nat
         /\ Spelled(Append(ts, t)) = Spelled(ts) \o Bytes(t)
<1> DEFINE n == Len(ts)
           us == Append(ts, t)
           a == [k \in DOMAIN ts |-> Bytes(ts[k])]
           b == [k \in DOMAIN us |-> Bytes(us[k])]
           x == Bytes(t)
<1>1. n \in Nat /\ DOMAIN ts = 1..n /\ us \in Seq(Tokens) /\ Len(us) = n + 1 /\ us[n + 1] = t
      /\ (\A k \in 1..n : us[k] = ts[k] /\ ts[k] \in Tokens)
  BY LenProperties, AppendProperties, ElementOfSeq
<1>2. DOMAIN us = 1..n + 1
  BY <1>1, LenProperties
<1>3. x \in Seq(Byte) /\ \A k \in 1..n : Bytes(ts[k]) \in Seq(Byte)
  BY <1>1, BytesIs
<1> HIDE DEF us, x, n
<1>4. a = [k \in 1..n |-> Bytes(ts[k])] /\ b = [k \in 1..n + 1 |-> Bytes(us[k])]
  BY <1>1, <1>2
<1>5. a \in Seq(Seq(Byte)) /\ Len(a) = n
  BY <1>1, <1>3, <1>4
<1>6. b = Append(a, x)
  <2>1. /\ Append(a, x) \in Seq(Seq(Byte)) /\ Len(Append(a, x)) = n + 1 /\ Append(a, x)[n + 1] = x
        /\ \A k \in 1..n : Append(a, x)[k] = a[k]
    BY <1>3, <1>5, AppendProperties
  <2>2. \A k \in 1..n + 1 : Bytes(us[k]) = IF k \in 1..n THEN Bytes(ts[k]) ELSE x
    BY <1>1 DEF x
  <2>3. \A k \in 1..n + 1 : Bytes(us[k]) \in Seq(Byte)
    BY <1>3, <2>2
  <2>4. b \in Seq(Seq(Byte)) /\ Len(b) = n + 1
    BY <1>1, <1>4, <2>3
  <2>5. ASSUME NEW k \in 1..n + 1 PROVE b[k] = Append(a, x)[k]
    <3>1. k \in 1..n \/ (k = n + 1 /\ k \notin 1..n)
      BY <1>1
    <3>2. b[k] = Bytes(us[k])
      BY <1>4
    <3>3. QED
      BY <1>4, <2>1, <2>2, <3>1, <3>2
  <2> HIDE DEF a, b
  <2>6. QED
    BY <2>1, <2>4, <2>5, SeqEqual
<1>7. Spelled(ts) = FlattenSeq(a) /\ Spelled(us) = FlattenSeq(b)
  BY DEF Spelled
<1>8. Spelled(<<>>) = <<>>
  <2>1. Spelled(<<>>) = FlattenSeq(<<>>)
    BY DEF Spelled
  <2>2. QED
    BY <1>3, <1>5, <2>1, FlattenGrows
<1> HIDE DEF a, b
<1>9. /\ FlattenSeq(a) \in Seq(Byte) /\ FlattenSeq(b) = FlattenSeq(a) \o x
  BY <1>3, <1>5, <1>6, FlattenGrows
<1>10. QED
  BY <1>7, <1>8, <1>9, LenProperties DEF us, x

\* A part of a text, and its last token.
LEMMA TokensPart ==
  ASSUME NEW ts \in Seq(Tokens), NEW j \in 0..Len(ts), NEW m \in j..Len(ts)
  PROVE  /\ SubSeq(ts, j + 1, m) \in Seq(Tokens) /\ Len(SubSeq(ts, j + 1, m)) = m - j
         /\ m = j => SubSeq(ts, j + 1, m) = <<>>
         /\ m # j => ts[m] \in Tokens /\ SubSeq(ts, j + 1, m) = Append(SubSeq(ts, j + 1, m - 1), ts[m])
<1>1. Len(ts) \in Nat /\ \A k \in 1..Len(ts) : ts[k] \in Tokens
  BY LenProperties, ElementOfSeq
<1>2. \A i \in j + 1..m : ts[i] \in Tokens
  BY <1>1
<1>3. j + 1 \in Int /\ m \in Int /\ (j + 1 <= m => m - (j + 1) + 1 = m - j) /\ (~(j + 1 <= m) => 0 = m - j)
  BY <1>1
<1>4. SubSeq(ts, j + 1, m) \in Seq(Tokens) /\ Len(SubSeq(ts, j + 1, m)) = m - j
  BY <1>2, <1>3, SubSeqProperties
<1>5. m = j => SubSeq(ts, j + 1, m) = <<>>
  BY <1>3, SubSeqEmpty
<1>6. ASSUME m # j
      PROVE  ts[m] \in Tokens /\ SubSeq(ts, j + 1, m) = Append(SubSeq(ts, j + 1, m - 1), ts[m])
  <2>1. j + 1 \in 1..Len(ts) /\ m \in j + 1..Len(ts) /\ m - 1 \in Int
    BY <1>1, <1>6
  <2>2. SubSeq(ts, j + 1, m) = SubSeq(ts, j + 1, m - 1) \o <<ts[m]>>
    BY <2>1, SubSeqRecursiveSecond
  <2> DEFINE s == SubSeq(ts, j + 1, m - 1)
  <2>3. s \in Seq(Tokens) /\ ts[m] \in Tokens
    <3>1. \A i \in j + 1..m - 1 : ts[i] \in Tokens
      BY <1>1
    <3>2. QED
      BY <1>1, <2>1, <3>1, SubSeqProperties
  <2> HIDE DEF s
  <2>4. Append(s, ts[m]) = s \o <<ts[m]>>
    BY <2>3, AppendIsConcat
  <2>5. QED
    BY <2>2, <2>3, <2>4 DEF s
<1>7. QED
  BY <1>4, <1>5, <1>6

\* Joining is associative.
LEMMA JoinAssociates ==
  ASSUME NEW x \in Seq(Byte), NEW y \in Seq(Byte), NEW z \in Seq(Byte)
  PROVE  x \o (y \o z) = (x \o y) \o z
BY ConcatAssociative, SMTT(20)

\* A text is spelled by its parts, one behind the other.
LEMMA SpelledSplits ==
  ASSUME NEW ts \in Seq(Tokens), NEW j \in 0..Len(ts), NEW m \in j..Len(ts)
  PROVE  /\ Spelled(SubSeq(ts, 1, m)) = Spelled(SubSeq(ts, 1, j)) \o Spelled(SubSeq(ts, j + 1, m))
         /\ Spelled(SubSeq(ts, j + 1, m)) \in Seq(Byte)
<1> DEFINE n == Len(ts)
           Ahead(k) == Spelled(SubSeq(ts, 1, k))
           Behind(k) == Spelled(SubSeq(ts, j + 1, k))
           K == {i \in 0..n - j : Ahead(j + i) = Ahead(j) \o Behind(j + i)}
<1>1. n \in Nat /\ j \in Nat /\ n - j \in Nat /\ 0 \in 0..n
  BY LenProperties
<1>k. ASSUME NEW i \in 0..n - j, NEW k, k = j + i, Ahead(k) = Ahead(j) \o Behind(k)
      PROVE  i \in K
  BY <1>k
<1>2. \A k \in j..n : Behind(k) \in Seq(Byte)
  <2>1. ASSUME NEW k \in j..n PROVE Behind(k) \in Seq(Byte)
    <3>1. SubSeq(ts, j + 1, k) \in Seq(Tokens)
      BY TokensPart
    <3>2. PICK t : t \in Tokens \/ Tokens = {}
      OBVIOUS
    <3>3. CASE Tokens = {}
      <4>1. SubSeq(ts, j + 1, k) = <<>>
        BY <3>1, <3>3
      <4>2. Spelled(<<>>) = <<>>
        BY EmptySeq DEF Spelled, FlattenSeq
      <4>3. QED
        BY <4>1, <4>2, EmptySeq
    <3>4. CASE t \in Tokens
      BY <3>1, <3>4, SpelledGrows
    <3>5. QED
      BY <3>2, <3>3, <3>4
  <2>2. QED
    BY <2>1
<1>3. Ahead(j) \in Seq(Byte)
  <2>1. SubSeq(ts, 1, j) \in Seq(Tokens)
    BY <1>1, SubSeqProperties, ElementOfSeq
  <2>2. CASE j = 0
    <3>1. SubSeq(ts, 1, j) = <<>>
      BY <2>2, SubSeqEmpty
    <3>2. Spelled(<<>>) = <<>>
      BY EmptySeq DEF Spelled, FlattenSeq
    <3>3. QED
      BY <3>1, <3>2, EmptySeq
  <2>3. CASE j # 0
    <3>1. ts[j] \in Tokens
      BY <1>1, <2>3, ElementOfSeq
    <3>2. QED
      BY <2>1, <3>1, SpelledGrows
  <2>4. QED
    BY <2>2, <2>3
<1>4. 0 \in K
  <2>1. j + 0 = j /\ SubSeq(ts, j + 1, j) = <<>>
    BY <1>1, SubSeqEmpty
  <2>2. Spelled(<<>>) = <<>>
    BY EmptySeq DEF Spelled, FlattenSeq
  <2>3. Behind(j) = <<>>
    BY <2>1, <2>2
  <2> HIDE DEF Ahead, Behind
  <2>4. Ahead(j) \o <<>> = Ahead(j)
    BY <1>3, ConcatEmptySeq
  <2> HIDE DEF K
  <2>5. 0 \in 0..n - j /\ j = j + 0
    BY <1>1
  <2>6. Ahead(j) = Ahead(j) \o Behind(j)
    BY <2>3, <2>4
  <2>7. QED
    BY <1>k, <2>5, <2>6
<1>5. ASSUME NEW i \in 1..n - j, i - 1 \in K PROVE i \in K
  <2> DEFINE k == j + i
             a == SubSeq(ts, 1, k - 1)
             b == SubSeq(ts, j + 1, k - 1)
             t == ts[k]
  <2>1. /\ k \in j..n /\ k \in 0..n /\ k # j /\ k # 0 /\ 0 \in 0..n /\ k - 1 \in 0..n /\ k - 1 \in j..n
        /\ j + (i - 1) = k - 1 /\ 0 + 1 = 1 /\ i \in 0..n - j
    BY <1>1
  <2>2. t \in Tokens /\ SubSeq(ts, j + 1, k) = Append(b, t) /\ b \in Seq(Tokens)
    BY <2>1, TokensPart
  <2>3. SubSeq(ts, 1, k) = Append(a, t) /\ a \in Seq(Tokens)
    <3>1. SubSeq(ts, 0 + 1, k) = Append(SubSeq(ts, 0 + 1, k - 1), ts[k])
      BY <2>1, TokensPart
    <3>2. SubSeq(ts, 0 + 1, k - 1) \in Seq(Tokens)
      BY <2>1, TokensPart
    <3>3. QED
      BY <2>1, <3>1, <3>2
  <2>4. Ahead(k) = Spelled(a) \o Bytes(t) /\ Behind(k) = Spelled(b) \o Bytes(t)
        /\ Spelled(a) \in Seq(Byte) /\ Spelled(b) \in Seq(Byte) /\ Bytes(t) \in Seq(Byte)
    BY <2>2, <2>3, SpelledGrows, BytesIs
  <2>5. Spelled(a) = Ahead(j) \o Spelled(b)
    BY <1>5, <2>1
  <2> HIDE DEF a, b, t, Ahead, Behind
  <2>6. Ahead(j) \o (Spelled(b) \o Bytes(t)) = (Ahead(j) \o Spelled(b)) \o Bytes(t)
    <3> DEFINE x == Ahead(j)
               y == Spelled(b)
               z == Bytes(t)
    <3>1. x \in Seq(Byte) /\ y \in Seq(Byte) /\ z \in Seq(Byte)
      BY <1>3, <2>4
    <3> HIDE DEF x, y, z
    <3>2. x \o (y \o z) = (x \o y) \o z
      BY <3>1, JoinAssociates
    <3>3. QED
      BY <3>2 DEF x, y, z
  <2>7. Ahead(k) = Ahead(j) \o Behind(k)
    BY <2>4, <2>5, <2>6
  <2> HIDE DEF K
  <2>8. k = j + i
    OBVIOUS
  <2>a. i \in 0..n - j
    BY <2>1
  <2> HIDE DEF k
  <2>9. QED
    BY <1>k, <2>a, <2>7, <2>8, Zenon
<1> DEFINE d == m - j
<1>6. d \in 0..n - j /\ j + d = m
  BY <1>1
<1> HIDE DEF K
<1>7. \A i \in 0..n - j : i \in K
  BY <1>1, <1>4, <1>5, UpTo
<1> HIDE DEF d
<1>8. Ahead(j + d) = Ahead(j) \o Behind(j + d)
  BY <1>6, <1>7 DEF K
<1>9. QED
  BY <1>2, <1>6, <1>8

\* The two parts of what was put together.
LEMMA ConcatParts ==
  ASSUME NEW x \in Seq(Byte), NEW y \in Seq(Byte), NEW s, s = x \o y
  PROVE  /\ s \in Seq(Byte) /\ Len(x) \in Nat /\ Len(y) \in Nat /\ Len(s) = Len(x) + Len(y)
         /\ SubSeq(s, 1, Len(x)) = x /\ SubSeq(s, Len(x) + 1, Len(s)) = y
         /\ \A k \in 1..Len(x) : s[k] = x[k]
         /\ \A k \in 1..Len(y) : s[Len(x) + k] = y[k]
<1> DEFINE a == Len(x)
           b == Len(y)
           u == SubSeq(s, 1, a)
           v == SubSeq(s, a + 1, Len(s))
<1>1. /\ s \in Seq(Byte) /\ Len(s) = a + b /\ a \in Nat /\ b \in Nat
      /\ \A i \in 1..a + b : s[i] = IF i <= a THEN x[i] ELSE y[i - a]
  BY ConcatProperties, LenProperties
<1> HIDE DEF a, b
<1>2. ASSUME NEW k \in 1..a PROVE s[k] = x[k]
  <2>1. k \in 1..a + b /\ k <= a
    BY <1>1
  <2>2. QED
    BY <1>1, <2>1
<1>3. ASSUME NEW k \in 1..b PROVE s[a + k] = y[k]
  <2> DEFINE i == a + k
  <2>1. i \in 1..a + b /\ ~(i <= a) /\ i - a = k
    BY <1>1
  <2> HIDE DEF i
  <2>2. s[i] = y[i - a]
    BY <1>1, <2>1
  <2>3. QED
    BY <2>1, <2>2 DEF i
<1>4. u \in Seq(Byte) /\ Len(u) = a /\ \A k \in 1..a : u[k] = s[k]
  <2>1. a \in 0..Len(s)
    BY <1>1
  <2>2. QED
    BY <1>1, <2>1, PrefixIs
<1>5. v \in Seq(Byte) /\ Len(v) = b /\ \A k \in 1..b : v[k] = s[a + k]
  <2> DEFINE m == a + 1
             n == Len(s)
             w == SubSeq(s, m, n)
  <2>1. m \in 1..Len(s) + 2 /\ n \in 0..Len(s) /\ m <= n + 2
    BY <1>1
  <2>2. (m <= n => n - m + 1 = b) /\ (~(m <= n) => b = 0) /\ m = a + 1
    BY <1>1
  <2> HIDE DEF m, n
  <2>3. w \in Seq(Byte) /\ Len(w) = (IF m <= n THEN n - m + 1 ELSE 0) /\ \A i \in 1..Len(w) : w[i] = s[m + i - 1]
    BY <1>1, <2>1, PartOf
  <2> HIDE DEF w
  <2>4. Len(w) = b
    BY <2>2, <2>3
  <2>5. \A k \in 1..b : m + k - 1 = a + k
    BY <1>1, <2>2
  <2>6. \A k \in 1..b : w[k] = s[a + k]
    BY <2>3, <2>4, <2>5
  <2>7. v = w
    BY DEF w, m, n
  <2>8. QED
    BY <2>3, <2>4, <2>6, <2>7
<1> HIDE DEF u, v
<1>6. u = x
  BY <1>1, <1>2, <1>4, SeqEqual DEF a
<1>7. v = y
  BY <1>1, <1>3, <1>5, SeqEqual DEF b
<1>8. QED
  BY <1>1, <1>2, <1>3, <1>6, <1>7 DEF a, b, u, v

\* Where the bytes of the first j tokens end.
Off(ts, j) == Len(Spelled(SubSeq(ts, 1, j)))

\* The bytes of the first tokens are first.
LEMMA Placed ==
  ASSUME NEW ts \in Seq(Tokens), NEW S, S = Spelled(ts), NEW j \in 0..Len(ts)
  PROVE  /\ S \in Seq(Byte) /\ Len(S) \in Nat /\ Off(ts, j) \in 0..Len(S)
         /\ Spelled(SubSeq(ts, 1, j)) = SubSeq(S, 1, Off(ts, j))
         /\ Spelled(SubSeq(ts, j + 1, Len(ts))) = SubSeq(S, Off(ts, j) + 1, Len(S))
         /\ Off(ts, 0) = 0 /\ Off(ts, Len(ts)) = Len(S)
<1> DEFINE x == Spelled(SubSeq(ts, 1, j))
           y == Spelled(SubSeq(ts, j + 1, Len(ts)))
<1>1. Len(ts) \in Nat /\ Len(ts) \in j..Len(ts) /\ 0 \in 0..Len(ts) /\ j \in 0..j /\ 0 + 1 = 1 /\ j \in 0..Len(ts)
      /\ SubSeq(ts, 1, Len(ts)) = ts
  <2>1. Len(ts) \in Nat
    BY LenProperties
  <2>2. SubSeq(ts, 1, Len(ts)) = ts
    BY SubSeqFull
  <2>3. QED
    BY <2>1, <2>2
<1>2. S = x \o y /\ y \in Seq(Byte)
  BY <1>1, SpelledSplits
<1>3. x \in Seq(Byte)
  <2>1. Spelled(SubSeq(ts, 0 + 1, j)) \in Seq(Byte)
    BY <1>1, SpelledSplits
  <2>2. QED
    BY <1>1, <2>1
<1>4. SubSeq(ts, 1, 0) = <<>> /\ Spelled(<<>>) = <<>> /\ Len(<<>>) = 0
  BY SubSeqEmpty, EmptySeq DEF Spelled, FlattenSeq
<1>5. Off(ts, 0) = 0 /\ Off(ts, Len(ts)) = Len(S) /\ Off(ts, j) = Len(x)
  BY <1>1, <1>4 DEF Off
<1> HIDE DEF x, y
<1>6. /\ S \in Seq(Byte) /\ Len(x) \in Nat /\ Len(y) \in Nat /\ Len(S) = Len(x) + Len(y)
      /\ SubSeq(S, 1, Len(x)) = x /\ SubSeq(S, Len(x) + 1, Len(S)) = y
  BY <1>2, <1>3, ConcatParts
<1>7. Len(S) \in Nat /\ Len(x) \in 0..Len(S)
  BY <1>6
<1>8. QED
  BY <1>5, <1>6, <1>7 DEF x, y

\* The bytes B of the j-th token are in S behind the first o.
NextAt(ts, S, j, B, o) ==
  /\ ts[j] \in Tokens /\ o \in Nat /\ B \in Seq(Byte) /\ Len(B) \in Nat /\ Len(B) >= 1
  /\ Off(ts, j) = o + Len(B) /\ Off(ts, j) <= Len(S)
  /\ \A k \in 1..Len(B) : S[o + k] = B[k]

\* The bytes of a token are behind those of the tokens before it.
LEMMA NextPlaced ==
  ASSUME NEW ts \in Seq(Tokens), NEW j \in 1..Len(ts)
  PROVE  NextAt(ts, Spelled(ts), j, Bytes(ts[j]), Off(ts, j - 1))
<1> SUFFICES ASSUME NEW S, S = Spelled(ts), NEW B, B = Bytes(ts[j]), NEW o, o = Off(ts, j - 1)
             PROVE  NextAt(ts, S, j, B, o)
  OBVIOUS
<1> DEFINE x == Spelled(SubSeq(ts, 1, j - 1))
           y == Spelled(SubSeq(ts, 1, j))
           n == Len(S)
<1>1. /\ Len(ts) \in Nat /\ j \in 0..Len(ts) /\ j - 1 \in 0..Len(ts) /\ 0 \in 0..Len(ts) /\ j # 0 /\ 0 + 1 = 1
      /\ ts[j] \in Tokens
  BY LenProperties, ElementOfSeq
<1>2. B \in Seq(Byte) /\ Len(B) \in Nat /\ Len(B) >= 1
  BY <1>1, BytesIs
<1>3. SubSeq(ts, 1, j) = Append(SubSeq(ts, 1, j - 1), ts[j]) /\ SubSeq(ts, 1, j - 1) \in Seq(Tokens)
  <2>1. SubSeq(ts, 0 + 1, j) = Append(SubSeq(ts, 0 + 1, j - 1), ts[j])
    BY <1>1, TokensPart
  <2>2. SubSeq(ts, 0 + 1, j - 1) \in Seq(Tokens)
    BY <1>1, TokensPart
  <2>3. QED
    BY <1>1, <2>1, <2>2
<1>4. y = x \o B /\ x \in Seq(Byte)
  BY <1>1, <1>3, SpelledGrows
<1>5. o = Len(x) /\ Off(ts, j) = Len(y)
  BY DEF Off
<1>6. S \in Seq(Byte) /\ n \in Nat /\ Off(ts, j) \in 0..n /\ y = SubSeq(S, 1, Off(ts, j))
  <2>1. j \in 0..Len(ts)
    BY <1>1
  <2>2. /\ S \in Seq(Byte) /\ Len(S) \in Nat /\ Off(ts, j) \in 0..Len(S)
        /\ Spelled(SubSeq(ts, 1, j)) = SubSeq(S, 1, Off(ts, j))
    <3> HIDE DEF x, y, n
    <3>1. ts \in Seq(Tokens) /\ S = Spelled(ts)
      OBVIOUS
    <3>2. /\ S \in Seq(Byte) /\ Len(S) \in Nat /\ Off(ts, j) \in 0..Len(S)
          /\ Spelled(SubSeq(ts, 1, j)) = SubSeq(S, 1, Off(ts, j))
          /\ Spelled(SubSeq(ts, j + 1, Len(ts))) = SubSeq(S, Off(ts, j) + 1, Len(S))
          /\ Off(ts, 0) = 0 /\ Off(ts, Len(ts)) = Len(S)
      BY <2>1, <3>1, Placed, Zenon
    <3>3. QED
      BY <3>2
  <2>3. QED
    BY <2>2
<1> HIDE DEF x, y, n
<1>7. /\ o \in Nat /\ Len(y) = o + Len(B) /\ \A k \in 1..Len(B) : y[o + k] = B[k]
  <2>1. /\ Len(x) \in Nat /\ Len(y) = Len(x) + Len(B) /\ \A k \in 1..Len(B) : y[Len(x) + k] = B[k]
    BY <1>2, <1>4, ConcatParts
  <2>2. QED
    BY <1>5, <2>1
<1>8. ASSUME NEW k \in 1..Len(B) PROVE S[o + k] = B[k]
  <2> DEFINE i == o + k
             e == Off(ts, j)
  <2>1. i \in 1..e
    BY <1>2, <1>5, <1>7
  <2> HIDE DEF i, e
  <2>2. e \in 0..Len(S) /\ y = SubSeq(S, 1, e)
    BY <1>6 DEF e, n
  <2>3. y[i] = S[i]
    BY <1>6, <2>1, <2>2, PrefixIs
  <2>4. QED
    BY <1>7, <2>3 DEF i
<1>9. QED
  <2>1. Off(ts, j) = o + Len(B) /\ Off(ts, j) <= Len(S)
    BY <1>5, <1>6, <1>7 DEF n
  <2>2. QED
    BY <1>1, <1>2, <1>7, <1>8, <2>1 DEF NextAt

\* No two tokens end at the same byte.
LEMMA OffsGrow ==
  ASSUME NEW ts \in Seq(Tokens), NEW i \in 0..Len(ts), NEW j \in 0..Len(ts), i < j
  PROVE  Off(ts, i) \in Nat /\ Off(ts, j) \in Nat /\ Off(ts, i) < Off(ts, j)
<1> DEFINE f == [k \in 0..Len(ts) |-> Off(ts, k)]
           K == {d \in 0..Len(ts) : i + d <= Len(ts) => f[i] + d <= f[i + d]}
           n == Len(ts)
           S == Spelled(ts)
<1>1. n \in Nat /\ \A k \in 0..n : f[k] = Off(ts, k)
  BY LenProperties
<1>2. \A k \in 0..n : Off(ts, k) \in Nat
  <2>1. S = Spelled(ts)
    OBVIOUS
  <2> HIDE DEF S
  <2>2. \A k \in 0..n : Off(ts, k) \in 0..Len(S)
    BY <2>1, Placed
  <2>3. QED
    BY <2>2
<1>3. ASSUME NEW k \in 1..n PROVE f[k - 1] + 1 <= f[k]
  <2> DEFINE B == Bytes(ts[k])
             o == Off(ts, k - 1)
  <2>1. NextAt(ts, S, k, B, o) /\ o = Off(ts, k - 1)
    BY NextPlaced
  <2> HIDE DEF S, B, o
  <2>2. o \in Nat /\ Len(B) \in Nat /\ Len(B) >= 1 /\ Off(ts, k) = o + Len(B)
    BY <2>1 DEF NextAt
  <2>3. k \in 0..n /\ k - 1 \in 0..n
    BY <1>1
  <2>4. f[k] = Off(ts, k) /\ f[k - 1] = o
    BY <1>1, <2>1, <2>3
  <2>5. QED
    BY <2>2, <2>4
<1> HIDE DEF f, n
<1>4. \A k \in 0..n : f[k] \in Nat
  BY <1>1, <1>2
<1>5. i \in 0..n /\ j \in 0..n /\ K = {d \in 0..n : i + d <= n => f[i] + d <= f[i + d]}
  BY DEF n
<1>6. 0 \in K
  BY <1>1, <1>4, <1>5
<1>7. ASSUME NEW d \in 1..n, d - 1 \in K PROVE d \in K
  <2>1. CASE i + d <= n
    <3> DEFINE k == i + d
    <3>1. k \in 1..n /\ k \in 0..n /\ k - 1 \in 0..n /\ i + (d - 1) = k - 1 /\ i + (d - 1) <= n
      BY <1>1, <1>5, <2>1
    <3>2. f[i] + (d - 1) <= f[k - 1]
      BY <1>5, <1>7, <3>1
    <3>3. f[k - 1] + 1 <= f[k] /\ f[k] \in Nat /\ f[k - 1] \in Nat /\ f[i] \in Nat
      BY <1>3, <1>4, <1>5, <3>1
    <3>4. f[i] + d <= f[k]
      <4> DEFINE a == f[i]
                 b == f[k - 1]
                 c == f[k]
      <4>1. a \in Nat /\ b \in Nat /\ c \in Nat /\ b + 1 <= c /\ a + (d - 1) <= b /\ d \in Int
        BY <1>1, <3>2, <3>3
      <4> HIDE DEF a, b, c, k
      <4>2. a + d <= c
        BY <4>1
      <4>3. QED
        BY <4>2 DEF a, c
    <3>5. QED
      BY <1>1, <1>5, <3>4
  <2>2. CASE ~(i + d <= n)
    <3>1. d \in 0..n
      BY <1>1
    <3> HIDE DEF K
    <3>2. QED
      BY <1>5, <2>2, <3>1
  <2>3. QED
    BY <2>1, <2>2
<1> HIDE DEF K
<1>8. \A d \in 0..n : d \in K
  BY <1>1, <1>6, <1>7, UpTo
<1> DEFINE d == j - i
<1>9. d \in 0..n /\ i + d = j /\ d > 0 /\ i + d <= n
  BY <1>1, <1>5
<1> HIDE DEF d
<1>10. d \in K
  BY <1>8, <1>9
<1>11. f[i] + d <= f[i + d]
  BY <1>5, <1>9, <1>10
<1>12. f[i] < f[j] /\ f[i] \in Nat /\ f[j] \in Nat
  BY <1>4, <1>5, <1>9, <1>11
<1>13. QED
  BY <1>1, <1>5, <1>12

\* Every byte is of some token.
LEMMA Found ==
  ASSUME NEW ts \in Seq(Tokens), NEW S, S = Spelled(ts), NEW k \in 1..Len(S)
  PROVE  \E j \in 1..Len(ts) : Off(ts, j - 1) < k /\ k <= Off(ts, j)
<1> DEFINE n == Len(ts)
           J == {j \in 0..n : k <= Off(ts, j)}
           j == Min(J)
<1>1. n \in Nat /\ n \in 0..n /\ 0 \in 0..n
  BY LenProperties
<1>2. Off(ts, 0) = 0 /\ Off(ts, n) = Len(S) /\ Len(S) \in Nat
  BY <1>1, Placed
<1>3. n \in J
  BY <1>1, <1>2
<1>4. J \in SUBSET Nat /\ J # {}
  BY <1>1, <1>3
<1>5. j \in J /\ \A i \in J : j <= i
  BY <1>4, LeastExists
<1> HIDE DEF j
<1>6. j \in 0..n /\ k <= Off(ts, j)
  BY <1>5
<1>7. j # 0
  BY <1>2, <1>6
<1>8. j \in 1..n /\ j - 1 \in 0..n /\ ~(j <= j - 1)
  BY <1>1, <1>6, <1>7
<1>9. j - 1 \notin J
  BY <1>5, <1>8
<1>10. ~(k <= Off(ts, j - 1))
  BY <1>8, <1>9
<1>11. Off(ts, j - 1) \in Nat
  <2>1. Off(ts, j - 1) \in 0..Len(S)
    BY <1>8, Placed
  <2>2. QED
    BY <2>1
<1>12. QED
  BY <1>6, <1>8, <1>10, <1>11

-----------------------------------------------------------------------------
(* The bodies of a text.                                                   *)

\* Where there is no NUL, all of it is the C string.
LEMMA NoNul ==
  ASSUME NEW w \in Seq(Byte), \A k \in 1..Len(w) : w[k] # NUL
  PROVE  UpToNul(w) = w
<1> DEFINE n == Len(w)
<1>1. n \in Nat
  BY LenProperties
<1>2. FirstOf(w, NUL) = n + 1
  <2>1. n + 1 \in 1..Len(w) + 1 /\ ~(n + 1 <= Len(w))
    BY <1>1
  <2>2. QED
    BY <2>1, FirstOfOnly
<1>3. n + 1 - 1 = n
  BY <1>1
<1>4. SubSeq(w, 1, Len(w)) = w
  BY SubSeqFull
<1>5. QED
  BY <1>2, <1>3, <1>4 DEF UpToNul

\* No NUL is spelled.
LEMMA SpelledNoNul ==
  ASSUME NEW ts \in Seq(Tokens), NEW S, S = Spelled(ts), NEW k \in 1..Len(S)
  PROVE  S[k] # NUL
<1>1. PICK j \in 1..Len(ts) : Off(ts, j - 1) < k /\ k <= Off(ts, j)
  BY Found
<1> DEFINE B == Bytes(ts[j])
           o == Off(ts, j - 1)
           i == k - o
<1>0. NextAt(ts, S, j, B, o)
  BY NextPlaced
<1>2. /\ ts[j] \in Tokens /\ o \in Nat /\ Len(B) \in Nat /\ Off(ts, j) = o + Len(B)
      /\ \A x \in 1..Len(B) : S[o + x] = B[x]
  BY <1>0 DEF NextAt
<1>3. \A x \in 1..Len(B) : B[x] # NUL
  BY <1>2, BytesIs
<1> HIDE DEF B
<1>4. o < k /\ k <= Off(ts, j) /\ k \in Nat
  <2>1. Len(S) \in Nat
    BY Placed, LenProperties, <1>1
  <2>2. QED
    BY <1>1, <2>1
<1> HIDE DEF o
<1>5. i \in 1..Len(B) /\ o + i = k
  BY <1>2, <1>4
<1> HIDE DEF i
<1>6. QED
  BY <1>2, <1>3, <1>5

\* The bytes of the two tokens that end a body.
LEMMA DotBytes ==
  ASSUME NEW ts \in Seq(Tokens), NEW S, S = Spelled(ts), NEW i \in 2..Len(ts), ts[i - 1] = T!LF,
         NEW k, k = Off(ts, i - 1)
  PROVE  /\ k \in Nat /\ k >= 1 /\ S[k] = LF /\ Off(ts, i - 2) = k - 1
         /\ ts[i] = T!Dot => S[k + 1] = Dot /\ S[k + 2] = CR /\ Off(ts, i) = k + 2 /\ k + 2 <= Len(S)
<1> DEFINE h == i - 1
           B == Bytes(ts[h])
           o == Off(ts, h - 1)
           C == Bytes(ts[i])
<1>1. h \in 1..Len(ts) /\ i \in 1..Len(ts) /\ i - 1 = h /\ h - 1 = i - 2 /\ Len(ts) \in Nat
  BY LenProperties
<1>2. B = <<LF>> /\ Len(B) = 1 /\ B[1] = LF
  BY DEF Bytes
<1>a. h \in 1..Len(ts)
  BY <1>1
<1> HIDE DEF h
<1>b. NextAt(ts, S, h, B, o) /\ o = Off(ts, h - 1)
  BY <1>a, NextPlaced
<1> HIDE DEF B, o, C
<1>3. /\ o \in Nat /\ Len(B) \in Nat /\ Off(ts, h) = o + Len(B) /\ \A x \in 1..Len(B) : S[o + x] = B[x]
  BY <1>b DEF NextAt
<1>4. o \in Nat /\ k = o + 1 /\ S[o + 1] = LF /\ Off(ts, i - 2) = o
  BY <1>1, <1>2, <1>3, <1>b
<1>5. ASSUME ts[i] = T!Dot
      PROVE  S[k + 1] = Dot /\ S[k + 2] = CR /\ Off(ts, i) = k + 2 /\ k + 2 <= Len(S)
  <2>1. T!Dot = [verb |-> ".", arg |-> T!NoArg] /\ T!LF = [verb |-> "LF", arg |-> T!NoArg]
    BY DEF T!Dot, T!LF
  <2>2. T!Dot.verb = "." /\ T!Dot.arg = T!NoArg /\ T!Dot # T!LF
    BY <2>1
  <2>3. Spelling["."] = <<Dot>>
    BY SpellingAssumption
  <2> DEFINE V == Spelling[ts[i].verb]
             A == Spelling[ts[i].arg]
  <2>4. ts[i] \in Tokens /\ ts[i] # T!LF /\ ts[i].arg = T!NoArg /\ ts[i].verb = "."
    BY <1>1, <1>5, <2>2, ElementOfSeq
  <2>c. C = Bytes(ts[i])
    BY DEF C
  <2>5. HeadParts(ts[i], C, V, A) /\ NextAt(ts, S, i, C, k)
    <3>1. HeadParts(ts[i], C, V, A)
      BY <2>4, <2>c, HeadIs
    <3>2. NextAt(ts, S, i, C, k)
      BY <1>1, <2>c, NextPlaced
    <3>3. QED
      BY <3>1, <3>2
  <2>6. V = <<Dot>> /\ Len(V) = 1 /\ V[1] = Dot
    <3>1. V = <<Dot>>
      BY <2>3, <2>4
    <3>2. Len(<<Dot>>) = 1 /\ <<Dot>>[1] = Dot
      OBVIOUS
    <3>3. QED
      BY <3>1, <3>2
  <2> HIDE DEF V, A
  <2>d. /\ Len(C) \in Nat /\ Len(V) \in Nat /\ (ts[i].arg = T!NoArg => Len(C) = Len(V) + 1)
        /\ C[Len(C)] = CR /\ \A x \in 1..Len(V) : C[x] = V[x]
    BY <2>5 DEF HeadParts
  <2>7. Len(C) = 2 /\ C[1] = Dot /\ C[2] = CR
    <3>1. Len(C) = 2
      BY <2>4, <2>6, <2>d
    <3>2. 1 \in 1..Len(V)
      BY <2>6
    <3>3. QED
      BY <2>6, <2>d, <3>1, <3>2
  <2>8. /\ k \in Nat /\ Off(ts, i) = k + Len(C) /\ Off(ts, i) <= Len(S)
        /\ \A x \in 1..Len(C) : S[k + x] = C[x]
    BY <2>5 DEF NextAt
  <2>9. QED
    BY <2>7, <2>8
<1>6. QED
  BY <1>4, <1>5

\* A head that starts with a dot and CR is the dot.
LEMMA DotOnly ==
  ASSUME NEW u \in Tokens, u # T!LF, Bytes(u)[1] = Dot, Bytes(u)[2] = CR
  PROVE  u = T!Dot
<1> DEFINE B == Bytes(u)
           V == Spelling[u.verb]
           A == Spelling[u.arg]
<1>0. HeadParts(u, B, V, A) /\ V = Spelling[u.verb] /\ B[1] = Dot /\ B[2] = CR
  BY HeadIs
<1> HIDE DEF B, V, A
<1>1. /\ V \in Seq(Byte) /\ Len(B) \in Nat /\ Len(V) \in Nat /\ 1 <= Len(V) /\ Len(V) < Len(B)
      /\ \A k \in 1..Len(B) - 1 : B[k] \notin {CR, LF, NUL}
      /\ \A k \in 1..Len(V) : B[k] = V[k]
      /\ u.arg # T!NoArg => B[Len(V) + 1] = SP
  BY <1>0 DEF HeadParts
<1>2. Len(V) = 1
  <2>1. ~(2 \in 1..Len(B) - 1)
    BY <1>0, <1>1
  <2> DEFINE n == Len(B)
             v == Len(V)
  <2>2. n \in Nat /\ v \in Nat /\ 1 <= v /\ v < n /\ ~(2 \in 1..n - 1)
    BY <1>1, <2>1
  <2> HIDE DEF n, v
  <2>3. v = 1
    BY <2>2
  <2>4. QED
    BY <2>3 DEF v
<1>3. V = <<Dot>>
  <2>1. V[1] = Dot
    BY <1>0, <1>1, <1>2
  <2>2. QED
    BY <1>1, <1>2, <2>1
<1>4. u.verb = "."
  BY <1>0, <1>3, SpellingAssumption
<1>5. u.arg = T!NoArg
  <2>1. SP # CR
    BY DEF SP, CR
  <2>2. QED
    BY <1>0, <1>1, <1>2, <2>1
<1>6. u \in T!Line
  BY SpellingAssumption DEF T!Token
<1>7. u = [verb |-> u.verb, arg |-> u.arg]
  BY <1>6 DEF T!Line
<1>8. QED
  BY <1>4, <1>5, <1>7 DEF T!Dot

\* Where a text's bytes hold LF, dot and CR, its tokens end a body, and only there.
LEMMA DotsAt ==
  ASSUME NEW ts \in Seq(Tokens), NEW S, S = Spelled(ts)
  PROVE  /\ \A i \in T!Terminators(ts) : i \in 2..Len(ts) /\ Off(ts, i - 1) \in DotsOf(S)
         /\ \A k \in DotsOf(S) : \E i \in T!Terminators(ts) : k = Off(ts, i - 1)
<1>1. Len(ts) \in Nat
  BY LenProperties
<1>2. ASSUME NEW i \in T!Terminators(ts) PROVE i \in 2..Len(ts) /\ Off(ts, i - 1) \in DotsOf(S)
  <2> DEFINE k == Off(ts, i - 1)
  <2>1. i \in 2..Len(ts) /\ ts[i] = T!Dot /\ ts[i - 1] = T!LF
    BY DEF T!Terminators
  <2>2. k \in Nat /\ k >= 1 /\ S[k] = LF /\ S[k + 1] = Dot /\ S[k + 2] = CR /\ k + 2 <= Len(S)
    BY <2>1, DotBytes
  <2> HIDE DEF k
  <2>3. Len(S) \in Nat
    <3>1. i \in 1..Len(ts)
      BY <1>1, <2>1
    <3>2. 0 \in 0..Len(ts)
      BY <1>1
    <3>3. S \in Seq(Byte)
      BY <3>2, Placed
    <3>4. QED
      BY <3>3, LenProperties
  <2>4. k \in 1..Len(S) - 2
    BY <2>2, <2>3
  <2>5. QED
    BY <2>1, <2>2, <2>4 DEF DotsOf, k
<1>3. ASSUME NEW k \in DotsOf(S) PROVE \E i \in T!Terminators(ts) : k = Off(ts, i - 1)
  <2>0. S \in Seq(Byte) /\ Len(S) \in Nat
    <3>1. 0 \in 0..Len(ts)
      BY <1>1
    <3>2. S \in Seq(Byte)
      BY <3>1, Placed
    <3>3. QED
      BY <3>2, LenProperties
  <2>1. k \in 1..Len(S) - 2 /\ S[k] = LF /\ S[k + 1] = Dot /\ S[k + 2] = CR
    BY DEF DotsOf
  <2>2. k \in 1..Len(S) /\ k \in Nat /\ k + 2 <= Len(S)
    BY <2>0, <2>1
  <2>3. PICK j \in 1..Len(ts) : Off(ts, j - 1) < k /\ k <= Off(ts, j)
    BY <2>2, Found
  <2> DEFINE B == Bytes(ts[j])
             o == Off(ts, j - 1)
  <2>4. /\ ts[j] \in Tokens /\ o \in Nat /\ Len(B) \in Nat /\ Len(B) >= 1 /\ Off(ts, j) = o + Len(B)
        /\ \A x \in 1..Len(B) : S[o + x] = B[x]
    <3>1. NextAt(ts, S, j, B, o)
      BY NextPlaced
    <3> HIDE DEF B, o
    <3>2. QED
      BY <3>1 DEF NextAt
  <2>5. ts[j] = T!LF
    <3> SUFFICES ASSUME ts[j] # T!LF PROVE FALSE
      OBVIOUS
    <3> DEFINE V == Spelling[ts[j].verb]
               A == Spelling[ts[j].arg]
               x == k - o
    <3>1. HeadParts(ts[j], B, V, A)
      BY <2>4, HeadIs
    <3> HIDE DEF B, V, A
    <3>2. B[Len(B)] = CR /\ \A y \in 1..Len(B) - 1 : B[y] \notin {CR, LF, NUL}
      BY <3>1 DEF HeadParts
    <3>3. o < k /\ k <= o + Len(B)
      BY <2>3, <2>4
    <3> HIDE DEF o
    <3>4. x \in 1..Len(B) /\ o + x = k /\ (x = Len(B) \/ x \in 1..Len(B) - 1)
      BY <2>2, <2>4, <3>3
    <3> HIDE DEF x
    <3>5. S[k] = B[x]
      BY <2>4, <3>4
    <3>6. CR # LF
      BY DEF CR, LF
    <3>7. QED
      BY <2>1, <3>2, <3>4, <3>5, <3>6
  <2>6. Off(ts, j) = k
    <3>1. B = <<LF>>
      BY <2>5 DEF Bytes
    <3>2. Len(B) = 1
      BY <3>1
    <3>3. o < k /\ k <= o + 1 /\ Off(ts, j) = o + 1
      BY <2>3, <2>4, <3>2
    <3> HIDE DEF o, B
    <3>4. QED
      BY <2>2, <2>4, <3>3
  <2>7. j < Len(ts)
    <3>1. j # Len(ts)
      <4>1. 0 \in 0..Len(ts)
        BY <1>1
      <4>2. Off(ts, Len(ts)) = Len(S)
        BY <4>1, Placed
      <4>3. Len(S) # k
        BY <2>0, <2>2
      <4>4. QED
        BY <2>6, <4>2, <4>3
    <3>2. QED
      BY <1>1, <3>1
  <2> DEFINE i == j + 1
             C == Bytes(ts[i])
  <2>8. i \in 1..Len(ts) /\ i \in 2..Len(ts) /\ i - 1 = j
    BY <1>1, <2>7
  <2> HIDE DEF i, C
  <2>9. C = Bytes(ts[i]) /\ k = Off(ts, i - 1)
    BY <2>6, <2>8 DEF C
  <2>10. /\ ts[i] \in Tokens /\ Len(C) \in Nat /\ Len(C) >= 1 /\ \A x \in 1..Len(C) : S[k + x] = C[x]
    <3> HIDE DEF o, B
    <3>1. NextAt(ts, S, i, C, k)
      BY <2>8, <2>9, NextPlaced
    <3>2. QED
      BY <3>1 DEF NextAt
  <2>11. C[1] = Dot
    BY <2>1, <2>10
  <2>12. ts[i] # T!LF
    <3>1. <<LF>>[1] = LF /\ LF # Dot
      BY DEF LF, Dot
    <3>2. QED
      BY <2>9, <2>11, <3>1 DEF Bytes
  <2>13. Len(C) >= 2
    BY <2>9, <2>10, <2>12, BytesIs
  <2>14. C[2] = CR
    BY <2>1, <2>10, <2>13
  <2>15. ts[i] = T!Dot
    BY <2>9, <2>10, <2>11, <2>12, <2>14, DotOnly
  <2>16. i \in T!Terminators(ts)
    BY <2>5, <2>8, <2>15 DEF T!Terminators
  <2>17. QED
    BY <2>9, <2>16
<1>4. QED
  BY <1>2, <1>3

\* Of the tokens of a text, LF is every other one.
Alternates(ts) == \A k \in 1..Len(ts) - 1 : ts[k] = T!LF <=> ts[k + 1] # T!LF

\* The read w of the text S: v is left.
Parted(ts, S, w, v) ==
  /\ ts \in Seq(Tokens) /\ S = Spelled(ts) /\ S \in Seq(Byte) /\ Len(S) \in Nat /\ w \in Seq(Byte) /\ v \in Seq(Byte)
  /\ S = w \o v /\ Len(w) \in Nat /\ Len(v) \in Nat /\ Len(S) = Len(w) + Len(v)
  /\ SubSeq(S, 1, Len(w)) = w /\ SubSeq(S, Len(w) + 1, Len(S)) = v
  /\ \A k \in 1..Len(w) : S[k] = w[k]

\* A text in two parts.
LEMMA PartedIs ==
  ASSUME NEW ts \in Seq(Tokens), NEW w \in Seq(Byte), NEW v \in Seq(Byte), Spelled(ts) = w \o v
  PROVE  Parted(ts, Spelled(ts), w, v)
<1> DEFINE S == Spelled(ts)
<1>0. S = Spelled(ts) /\ S = w \o v
  OBVIOUS
<1> HIDE DEF S
<1>1. /\ S \in Seq(Byte) /\ Len(w) \in Nat /\ Len(v) \in Nat /\ Len(S) = Len(w) + Len(v)
      /\ SubSeq(S, 1, Len(w)) = w /\ SubSeq(S, Len(w) + 1, Len(S)) = v
      /\ \A k \in 1..Len(w) : S[k] = w[k]
  BY <1>0, ConcatParts
<1>2. Len(S) \in Nat
  BY <1>1
<1>3. Parted(ts, S, w, v)
  BY <1>0, <1>1, <1>2 DEF Parted
<1>4. QED
  BY <1>3 DEF S

\* The places around the dot that ends a body, k of them in front of and at it.
LEMMA DotPlaces ==
  ASSUME NEW i \in Nat, NEW M \in Nat, NEW n \in Nat, NEW k, i <= M, i >= 2, k = i - 1, k # 1, n = i + 1 \/ n = i + 2
  PROVE  /\ k \in Nat /\ k > 1 /\ i > 2 /\ i + 2 = k + 3 /\ i + 1 = k + 2 /\ k + 2 <= n
         /\ k - 2 = i - 3 /\ k - 2 \in Nat /\ k - 2 <= M /\ k - 2 \in 0..n
OBVIOUS

\* The body's text is in front of the dot at k that ends it, and the read ends there.
LEMMA BodyText ==
  ASSUME NEW q \in Parsers("DATA"), NEW w \in Seq(Byte), BodyFed(q, w), 1 \notin DotsOf(w), NEW k, k = q.i - 1,
         q.state # "body"
  PROVE  /\ k \in Nat /\ k > 1 /\ DotsOf(w) = {k} /\ k + 2 <= Len(w) /\ Text(q.data) = UpToNul(SubSeq(w, 1, k - 2))
         /\ q.state = "cr" => Len(w) = k + 2
         /\ q.state # "cr" => /\ Len(w) = k + 3 /\ q.state \in {"done", "error"}
                              /\ (q.state = "done" <=> w[k + 3] = LF)
<1> DEFINE n == Len(w)
           j == k - 2
           s == SubSeq(w, 1, j)
<1>1. n \in Nat /\ DataMax \in Nat /\ q.i \in 0..DataMax /\ q.data \in [0..DataMax -> Byte]
  BY LenProperties, ParserAssumption DEF Parsers, LastPlace
<1>2. q.state # "segv"
  BY DEF BodyFed
<1>3. /\ q.state \in {"cr", "done", "error"} /\ Ends(q, w)
      /\ (q.state = "cr" => n = q.i + 1)
      /\ (q.state # "cr" => n = q.i + 2 /\ (q.state = "done" <=> w[q.i + 2] = LF))
  BY <1>2 DEF BodyFed
<1>4. q.i >= 2 /\ DotsOf(w) = {k}
  BY <1>3 DEF Ends
<1>5. k # 1
  BY <1>4
<1>6. /\ k \in Nat /\ k > 1 /\ q.i > 2 /\ j = q.i - 3 /\ j \in Nat /\ j <= DataMax /\ q.i + 2 = k + 3 /\ q.i + 1 = k + 2
      /\ k + 2 <= n /\ j \in 0..n
  <2> DEFINE i == q.i
             M == DataMax
  <2>1. i \in Nat /\ M \in Nat /\ i <= M /\ i >= 2 /\ k = i - 1 /\ k # 1 /\ j = k - 2 /\ n \in Nat
    BY <1>1, <1>4, <1>5
  <2>2. n = i + 1 \/ n = i + 2
    BY <1>3
  <2> HIDE DEF i, M, j, n
  <2>3. /\ k \in Nat /\ k > 1 /\ i > 2 /\ i + 2 = k + 3 /\ i + 1 = k + 2 /\ k + 2 <= n
        /\ k - 2 = i - 3 /\ k - 2 \in Nat /\ k - 2 <= M /\ k - 2 \in 0..n
    BY <2>1, <2>2, DotPlaces
  <2>4. QED
    BY <2>1, <2>3 DEF i, M
<1>8. q.data[j] = NUL /\ \A x \in 1..j : q.data[x - 1] = w[x]
  BY <1>3, <1>6 DEF Ends
<1> HIDE DEF j, n
<1>9. s \in Seq(Byte) /\ Len(s) = j /\ \A x \in 1..j : s[x] = w[x]
  BY <1>6, PrefixIs DEF n
<1> HIDE DEF s
<1>10. Text(q.data) = UpToNul(s)
  <2> DEFINE a == q.data
  <2>1. a \in [0..DataMax -> Byte]
    BY <1>1
  <2>2. Len(s) <= DataMax /\ a[Len(s)] = NUL
    BY <1>6, <1>8, <1>9
  <2>3. \A x \in 1..Len(s) : a[x - 1] = s[x]
    BY <1>8, <1>9
  <2> HIDE DEF a
  <2>4. Text(a) = UpToNul(s)
    BY <1>1, <1>9, <2>1, <2>2, <2>3, TextOf
  <2>5. QED
    BY <2>4 DEF a
<1>11. QED
  BY <1>3, <1>4, <1>6, <1>10 DEF s, j, n

\* The least number is the one that is not greater than another.
LEMMA LeastIs ==
  ASSUME NEW I \in SUBSET Nat, NEW i \in I, \A j \in I : ~(j < i)
  PROVE  T!Min(I) = i
<1>1. Min(I) \in I /\ \A y \in I : Min(I) <= y
  BY LeastExists
<1>2. Min(I) <= i /\ ~(Min(I) < i) /\ Min(I) \in Nat /\ i \in Nat
  BY <1>1
<1>3. Min(I) = i
  BY <1>2
<1>4. T!Min(I) = Min(I)
  BY DEF T!Min, Min
<1>5. QED
  BY <1>3, <1>4

\* The dot that ended the body is the first terminator of the text.
LEMMA TerminatorFound ==
  ASSUME NEW ts, NEW S, NEW w, NEW v, Parted(ts, S, w, v), NEW k, DotsOf(w) = {k}
  PROVE  /\ T!Terminators(ts) # {} /\ T!Min(T!Terminators(ts)) \in T!Terminators(ts)
         /\ Off(ts, T!Min(T!Terminators(ts)) - 1) = k
<1> DEFINE I == T!Terminators(ts)
<1>1. /\ ts \in Seq(Tokens) /\ S = Spelled(ts) /\ Len(w) \in Nat /\ Len(S) \in Nat /\ Len(w) <= Len(S)
      /\ \A x \in 1..Len(w) : S[x] = w[x]
  BY DEF Parted
<1>2. \A x \in 1..Len(w) - 2 : x \in DotsOf(S) <=> x \in DotsOf(w)
  <2>1. ASSUME NEW x \in 1..Len(w) - 2 PROVE x \in DotsOf(S) <=> x \in DotsOf(w)
    <3>1. x \in 1..Len(w) /\ x + 1 \in 1..Len(w) /\ x + 2 \in 1..Len(w) /\ x \in 1..Len(S) - 2
      BY <1>1
    <3>2. S[x] = w[x] /\ S[x + 1] = w[x + 1] /\ S[x + 2] = w[x + 2]
      BY <1>1, <3>1
    <3>3. QED
      BY <3>1, <3>2 DEF DotsOf
  <2>2. QED
    BY <2>1
<1>3. k \in DotsOf(w) /\ k \in 1..Len(w) - 2
  BY DEF DotsOf
<1>4. k \in DotsOf(S)
  BY <1>2, <1>3
<1>5. /\ \A i \in I : i \in 2..Len(ts) /\ Off(ts, i - 1) \in DotsOf(S)
      /\ \A x \in DotsOf(S) : \E i \in I : x = Off(ts, i - 1)
  BY <1>1, DotsAt
<1>6. PICK i \in I : k = Off(ts, i - 1)
  BY <1>4, <1>5
<1>7. Len(ts) \in Nat /\ I \subseteq Nat
  <2>1. Len(ts) \in Nat
    BY <1>1, LenProperties
  <2>2. \A x \in I : x \in Nat
    BY <1>5
  <2>3. QED
    BY <2>1, <2>2
<1> HIDE DEF I
<1>8. ASSUME NEW j \in I, j < i PROVE FALSE
  <2> DEFINE x == Off(ts, j - 1)
             a == j - 1
             b == i - 1
  <2>1. a \in 0..Len(ts) /\ b \in 0..Len(ts) /\ a < b
    BY <1>5, <1>7, <1>8
  <2>2. Off(ts, b) = k /\ Off(ts, a) = x
    BY <1>6
  <2> HIDE DEF a, b
  <2>3. x \in Nat /\ x < k
    BY <1>1, <2>1, <2>2, OffsGrow
  <2>4. x \in DotsOf(S)
    BY <1>5, <1>8
  <2> HIDE DEF x
  <2>5. x \in 1..Len(w) - 2 /\ x # k
    <3>1. x >= 1
      BY <2>4 DEF DotsOf
    <3>2. QED
      BY <1>1, <1>3, <2>3, <3>1
  <2>6. x \in DotsOf(w)
    BY <1>2, <2>4, <2>5
  <2>7. QED
    BY <2>5, <2>6
<1>9. T!Min(I) = i
  BY <1>7, <1>8, LeastIs
<1>10. QED
  BY <1>6, <1>9 DEF I

\* A terminator is the i-th token of a text, behind the k-th byte.
EndsAt(ts, S, i, k) ==
  ts \in Seq(Tokens) /\ S = Spelled(ts) /\ i \in T!Terminators(ts) /\ Alternates(ts) /\ k = Off(ts, i - 1) /\ k > 1

\* The tokens in front of a terminator are the body and the CR of its last line.
LEMMA BodySpelled ==
  ASSUME NEW ts, NEW S, NEW i, NEW k, EndsAt(ts, S, i, k)
  PROVE  /\ i \in 3..Len(ts) /\ k \in Nat /\ Off(ts, i) = k + 2 /\ k + 2 <= Len(S) /\ k - 2 \in 0..Len(S)
         /\ Spelled(SubSeq(ts, 1, i - 2)) = SubSeq(S, 1, k - 2) \o <<CR>>
<1> DEFINE h == i - 2
           B == Bytes(ts[h])
           o == Off(ts, h - 1)
           V == Spelling[ts[h].verb]
           A == Spelling[ts[h].arg]
<1>0. ts \in Seq(Tokens) /\ S = Spelled(ts) /\ Alternates(ts) /\ k = Off(ts, i - 1) /\ k > 1
  BY DEF EndsAt
<1>1. i \in 2..Len(ts) /\ ts[i] = T!Dot /\ ts[i - 1] = T!LF /\ Len(ts) \in Nat
  BY LenProperties DEF EndsAt, T!Terminators
<1>2. /\ k \in Nat /\ Off(ts, h) = k - 1 /\ Off(ts, i) = k + 2 /\ k + 2 <= Len(S)
  BY <1>0, <1>1, DotBytes
<1>3. S \in Seq(Byte) /\ Len(S) \in Nat /\ Off(ts, 0) = 0
  <2>1. 0 \in 0..Len(ts)
    BY <1>1
  <2>2. QED
    BY <1>0, <2>1, Placed
<1>4. i # 2
  <2>1. SUFFICES ASSUME i = 2 PROVE FALSE
    OBVIOUS
  <2>2. h = 0
    BY <2>1
  <2>3. k - 1 = 0
    BY <1>2, <1>3, <2>2
  <2>4. k > 1 /\ k \in Nat
    BY <1>0, <1>2
  <2>5. QED
    BY <2>3, <2>4
<1>5. i \in 3..Len(ts) /\ h \in 1..Len(ts) /\ h \in 0..Len(ts) /\ h \in 1..Len(ts) - 1 /\ h + 1 = i - 1
  BY <1>1, <1>4
<1>6. ts[h] # T!LF
  <2>1. ts[h] = T!LF <=> ts[h + 1] # T!LF
    BY <1>0, <1>5 DEF Alternates
  <2>2. QED
    BY <1>1, <1>5, <2>1
<1> HIDE DEF h
<1>7. NextAt(ts, S, h, B, o) /\ ts[h] \in Tokens
  BY <1>0, <1>5, NextPlaced, ElementOfSeq
<1>8. HeadParts(ts[h], B, V, A)
  BY <1>6, <1>7, HeadIs
<1> HIDE DEF B, o, V, A
<1>9. o \in Nat /\ Len(B) \in Nat /\ Len(B) >= 1 /\ Off(ts, h) = o + Len(B) /\ \A x \in 1..Len(B) : S[o + x] = B[x]
  BY <1>7 DEF NextAt
<1>10. B[Len(B)] = CR
  BY <1>8 DEF HeadParts
<1> DEFINE e == k - 1
<1>11. S[e] = CR /\ e = Off(ts, h)
  <2>1. Len(B) \in 1..Len(B)
    BY <1>9
  <2>2. S[o + Len(B)] = CR
    BY <1>9, <1>10, <2>1
  <2>3. QED
    BY <1>2, <1>9, <2>2
<1>12. e \in 1..Len(S) /\ e - 1 = k - 2 /\ k - 2 \in 0..Len(S) /\ 1 \in 1..Len(S) /\ e \in 0..Len(S)
  <2> DEFINE m == Len(S)
  <2>1. m \in Nat /\ k \in Nat /\ k > 1 /\ k + 2 <= m
    BY <1>0, <1>2, <1>3
  <2> HIDE DEF m
  <2>2. e \in 1..m /\ e - 1 = k - 2 /\ k - 2 \in 0..m /\ 1 \in 1..m /\ e \in 0..m
    BY <2>1
  <2>3. QED
    BY <2>2 DEF m
<1>13. Spelled(SubSeq(ts, 1, h)) = SubSeq(S, 1, e)
  <2>1. h \in 0..Len(ts)
    BY <1>5
  <2>2. Spelled(SubSeq(ts, 1, h)) = SubSeq(S, 1, Off(ts, h))
    BY <1>0, <2>1, Placed
  <2>3. QED
    BY <1>11, <2>2
<1> HIDE DEF e
<1>14. SubSeq(S, 1, e) = SubSeq(S, 1, e - 1) \o <<S[e]>>
  BY <1>3, <1>12, SubSeqRecursiveSecond
<1>15. QED
  BY <1>2, <1>5, <1>11, <1>12, <1>13, <1>14 DEF h

\* A part of a text without NUL, up to its first NUL.
LEMMA TextWhole ==
  ASSUME NEW ts, NEW S, NEW w, NEW v, Parted(ts, S, w, v), NEW n \in 0..Len(w)
  PROVE  UpToNul(SubSeq(w, 1, n)) = SubSeq(S, 1, n)
<1> DEFINE u == SubSeq(w, 1, n)
           x == SubSeq(S, 1, n)
<1>1. /\ ts \in Seq(Tokens) /\ S = Spelled(ts) /\ S \in Seq(Byte) /\ w \in Seq(Byte)
      /\ Len(w) \in Nat /\ Len(S) \in Nat /\ Len(w) <= Len(S) /\ \A k \in 1..Len(w) : S[k] = w[k]
  BY DEF Parted
<1>2. n \in 0..Len(S) /\ \A k \in 1..n : k \in 1..Len(w) /\ k \in 1..Len(S)
  BY <1>1
<1>3. u \in Seq(Byte) /\ Len(u) = n /\ \A k \in 1..n : u[k] = w[k]
  BY <1>1, PrefixIs
<1>4. x \in Seq(Byte) /\ Len(x) = n /\ \A k \in 1..n : x[k] = S[k]
  BY <1>1, <1>2, PrefixIs
<1> HIDE DEF u, x
<1>5. \A k \in 1..n : u[k] = x[k] /\ u[k] # NUL
  <2>1. \A k \in 1..n : S[k] # NUL
    BY <1>1, <1>2, SpelledNoNul
  <2>2. QED
    BY <1>1, <1>2, <1>3, <1>4, <2>1
<1>6. u = x
  BY <1>3, <1>4, <1>5, SeqEqual
<1>7. UpToNul(u) = u
  BY <1>3, <1>5, NoNul
<1>8. QED
  BY <1>6, <1>7 DEF u, x

\* The body of the text ts up to the terminator at i, in state s.
Body(ts, i, s) ==
  [p |-> [T!request_parser_data_init EXCEPT !.data = SubSeq(ts, 1, i - 2), !.st = s], rest |-> T!After(ts, i + 1)]

\* The outcomes of the token parser.
LEMMA BodyOutcome ==
  ASSUME NEW ts
  PROVE  LET r == T!request_consume_data(T!request_parser_data_init, ts)
             i == T!Min(T!Terminators(ts))
         IN  /\ T!Terminators(ts) = {} => r.p.st = "body" /\ r.p.data = ts /\ r.rest = <<>>
             /\ T!Terminators(ts) # {} /\ i # 2 =>
                  /\ i = Len(ts) => r.p.st = "cr"
                  /\ i < Len(ts) /\ ts[i + 1] = T!LF /\ i # Len(ts) => r.p.st = "done"
                  /\ r.p.data = SubSeq(ts, 1, i - 2) /\ r.rest = T!After(ts, i + 1)
<1> DEFINE i == T!Min(T!Terminators(ts))
           q == T!request_parser_data_init
           r == T!request_consume_data(q, ts)
           none == [p |-> [q EXCEPT !.data = ts], rest |-> <<>>]
           st == CASE i = Len(ts) -> "cr"
                   [] i < Len(ts) /\ ts[i + 1] = T!LF -> "done"
                   [] OTHER -> "error"
           data == SubSeq(ts, 1, IF i = 2 THEN 2 ELSE i - 2)
           some == [p |-> [q EXCEPT !.data = data, !.st = st], rest |-> T!After(ts, i + 1)]
<1>1. r = IF T!Terminators(ts) = {} THEN none ELSE some
  BY DEF T!request_consume_data
<1>2. q = [st |-> "body", req |-> T!EmptyRequest, data |-> <<>>]
  BY DEF T!request_parser_data_init
<1>3. (i = Len(ts) => st = "cr") /\ (i < Len(ts) /\ ts[i + 1] = T!LF /\ i # Len(ts) => st = "done")
  OBVIOUS
<1>4. i # 2 => data = SubSeq(ts, 1, i - 2)
  OBVIOUS
<1> HIDE DEF i, q, st, data
<1>5. none.p.st = "body" /\ none.p.data = ts /\ none.rest = <<>>
  BY <1>2
<1>6. some.p.st = st /\ some.p.data = data /\ some.rest = T!After(ts, i + 1)
  BY <1>2
<1> HIDE DEF none, some
<1>7. QED
  BY <1>1, <1>3, <1>4, <1>5, <1>6 DEF i, q

\* A body's parsers agree on what is read of a text.
LEMMA BodyTokens ==
  ASSUME ParserInv, mode = "DATA", seen # <<>>, 1 \notin Dots,
         NEW ts \in Seq(Tokens), Alternates(ts), Spelled(ts) = seen \o rbuf
  PROVE  BodyAgrees(ts)
<1> DEFINE S == Spelled(ts)
           n == Len(seen)
           I == T!Terminators(ts)
           i == T!Min(I)
           r == T!request_consume_data(T!request_parser_data_init, ts)
           k == p.i - 1
<1>1. p \in Parsers("DATA") /\ seen \in Seq(Byte) /\ rbuf \in Seq(Byte) /\ BodyFed(p, seen) /\ 1 \notin DotsOf(seen)
  BY DEF ParserInv, Agrees, Dots, DotsOf
<1>2. Parted(ts, S, seen, rbuf)
  BY <1>1, PartedIs
<1>3. S = Spelled(ts)
  OBVIOUS
<1>4. /\ I = {} => r.p.st = "body" /\ r.p.data = ts /\ r.rest = <<>>
      /\ I # {} /\ i # 2 => /\ i = Len(ts) => r.p.st = "cr"
                            /\ i < Len(ts) /\ ts[i + 1] = T!LF /\ i # Len(ts) => r.p.st = "done"
                            /\ r.p.data = SubSeq(ts, 1, i - 2) /\ r.rest = T!After(ts, i + 1)
  BY BodyOutcome
<1>5. SUFFICES /\ p.state = r.p.st /\ p.state # "arg" /\ rbuf = Spelled(r.rest)
               /\ Spelled(r.p.data) = Text(p.data) \o (IF p.state = "body" THEN <<>> ELSE <<CR>>)
  BY DEF BodyAgrees, TokenState
<1> HIDE DEF S, r
<1>6. n \in Nat /\ Len(ts) \in Nat /\ S \in Seq(Byte) /\ Len(S) \in Nat /\ Spelled(<<>>) = <<>>
  <2>1. Spelled(<<>>) = <<>>
    BY EmptySeq DEF Spelled, FlattenSeq
  <2>2. QED
    BY <1>2, <2>1, LenProperties DEF Parted
<1>7. ~request_is_done(p) => rbuf = <<>> /\ S = seen
  <2>1. ~request_is_done(p) => rbuf = <<>>
    BY DEF ParserInv
  <2>2. rbuf = <<>> => S = seen
    <3>1. S = seen \o rbuf
      BY <1>3
    <3>2. QED
      BY <1>1, <3>1, ConcatEmptySeq
  <2>3. QED
    BY <2>1, <2>2
<1>8. CASE p.state = "body"
  <2>1. DotsOf(seen) = {} /\ p.data = Filled(DataMax, seen) /\ p.i = n
    BY <1>1, <1>8 DEF BodyFed
  <2>2. rbuf = <<>> /\ S = seen
    BY <1>7, <1>8 DEF request_is_done
  <2>3. I = {}
    <3>1. \A x \in I : Off(ts, x - 1) \in DotsOf(S)
      BY <1>3, DotsAt
    <3>2. QED
      BY <2>1, <2>2, <3>1
  <2>4. Text(p.data) = UpToNul(seen)
    <3>1. DataMax \in Nat /\ n <= DataMax
      BY <1>1, <2>1, ParserAssumption DEF Parsers, LastPlace
    <3>2. QED
      BY <1>1, <2>1, <3>1, TextOfFilled
  <2>5. UpToNul(seen) = seen
    <3>1. \A x \in 1..Len(S) : S[x] # NUL
      BY <1>3, SpelledNoNul
    <3>2. QED
      BY <1>1, <2>2, <3>1, NoNul
  <2>6. seen \o <<>> = seen
    BY <1>1, ConcatEmptySeq
  <2>7. QED
    BY <1>3, <1>4, <1>6, <1>8, <2>2, <2>3, <2>4, <2>5, <2>6
<1>9. CASE p.state # "body"
  <2>1. k = p.i - 1
    OBVIOUS
  <2> HIDE DEF k
  <2>2. /\ k \in Nat /\ k > 1 /\ DotsOf(seen) = {k} /\ k + 2 <= n /\ Text(p.data) = UpToNul(SubSeq(seen, 1, k - 2))
        /\ p.state = "cr" => n = k + 2
        /\ p.state # "cr" => /\ n = k + 3 /\ p.state \in {"done", "error"}
                             /\ (p.state = "done" <=> seen[k + 3] = LF)
    BY <1>1, <1>9, <2>1, BodyText
  <2>3. I # {} /\ i \in I /\ Off(ts, i - 1) = k
    BY <1>2, <2>2, TerminatorFound
  <2> HIDE DEF i, I
  <2>4. /\ i \in 3..Len(ts) /\ Off(ts, i) = k + 2 /\ k + 2 <= Len(S)
        /\ Spelled(SubSeq(ts, 1, i - 2)) = SubSeq(S, 1, k - 2) \o <<CR>>
    <3>1. i \in T!Terminators(ts)
      BY <2>3 DEF I
    <3>2. EndsAt(ts, S, i, k)
      BY <1>3, <2>2, <2>3, <3>1 DEF EndsAt
    <3>3. QED
      BY <3>2, BodySpelled
  <2>5. Text(p.data) = SubSeq(S, 1, k - 2)
    <3>1. k - 2 \in 0..n
      BY <1>6, <2>2
    <3>2. QED
      BY <1>2, <2>2, <3>1, TextWhole
  <2>6. i # 2 /\ r.p.data = SubSeq(ts, 1, i - 2) /\ r.rest = T!After(ts, i + 1)
    BY <1>4, <2>3, <2>4
  <2>7. Spelled(r.p.data) = Text(p.data) \o <<CR>>
    BY <2>4, <2>5, <2>6
  <2>8. T!After(ts, i + 1) = SubSeq(ts, i + 1 + 1, Len(ts))
    BY DEF T!After
  <2>9. CASE p.state = "cr"
    <3>1. rbuf = <<>> /\ S = seen /\ Len(S) = k + 2
      BY <1>7, <2>2, <2>9 DEF request_is_done
    <3>2. i = Len(ts)
      <4>1. SUFFICES ASSUME i # Len(ts) PROVE FALSE
        OBVIOUS
      <4>2. i \in 0..Len(ts) /\ Len(ts) \in 0..Len(ts) /\ i < Len(ts)
        BY <1>6, <2>4, <4>1
      <4>3. Off(ts, i) < Off(ts, Len(ts))
        BY <4>2, OffsGrow
      <4>4. Off(ts, Len(ts)) = Len(S)
        BY <1>3, <4>2, Placed
      <4>5. QED
        BY <1>6, <2>2, <2>4, <3>1, <4>3, <4>4
    <3>3. T!After(ts, i + 1) = <<>>
      <4>1. i + 1 + 1 > Len(ts) /\ i + 1 + 1 \in Int /\ Len(ts) \in Int
        BY <1>6, <2>4, <3>2
      <4>2. QED
        BY <2>8, <4>1, SubSeqEmpty
    <3>4. QED
      BY <1>4, <1>6, <2>3, <2>6, <2>7, <2>9, <3>1, <3>2, <3>3
  <2>10. CASE p.state # "cr"
    <3> DEFINE j == i + 1
               B == Bytes(ts[j])
    <3>1. n = k + 3 /\ p.state \in {"done", "error"} /\ (p.state = "done" <=> seen[k + 3] = LF)
      BY <2>2, <2>10
    <3>2. i # Len(ts)
      <4>1. Len(ts) \in 0..Len(ts)
        BY <1>6
      <4>2. Off(ts, Len(ts)) = Len(S)
        BY <1>3, <4>1, Placed
      <4>3. n <= Len(S)
        BY <1>2 DEF Parted
      <4>4. Len(S) # k + 2
        BY <1>6, <2>2, <3>1, <4>3
      <4>5. QED
        BY <2>4, <4>2, <4>4
    <3>3. i < Len(ts) /\ j \in 1..Len(ts) /\ j \in 0..Len(ts) /\ i \in 1..Len(ts) - 1 /\ j - 1 = i
      BY <1>6, <2>4, <3>2
    <3>4. ts[j] = T!LF
      <4>1. ts[i] = T!LF <=> ts[j] # T!LF
        BY <3>3 DEF Alternates
      <4>2. ts[i] = T!Dot
        BY <2>3 DEF I, T!Terminators
      <4>3. T!Dot # T!LF
        <5>1. T!Dot.verb = "." /\ T!LF.verb = "LF"
          BY DEF T!Dot, T!LF
        <5>2. QED
          BY <5>1
      <4>4. QED
        BY <4>1, <4>2, <4>3
    <3>5. NextAt(ts, S, j, B, Off(ts, j - 1))
      BY <1>3, <3>3, NextPlaced
    <3>6. B = <<LF>>
      BY <3>4 DEF Bytes
    <3> HIDE DEF B
    <3>7. Off(ts, j - 1) = k + 2
      BY <2>4, <3>3
    <3>8. Off(ts, j) = n /\ S[n] = LF
      <4>1. NextAt(ts, S, j, B, k + 2)
        BY <3>5, <3>7
      <4> HIDE DEF j
      <4>2. Off(ts, j) = k + 2 + Len(B) /\ (\A x \in 1..Len(B) : S[k + 2 + x] = B[x])
        BY <4>1 DEF NextAt
      <4>3. Len(B) = 1 /\ B[1] = LF /\ 1 \in 1..1
        BY <3>6
      <4>4. S[k + 2 + 1] = LF /\ Off(ts, j) = k + 2 + 1
        BY <4>2, <4>3
      <4>5. k + 2 + 1 = n
        BY <2>2, <3>1
      <4>6. QED
        BY <4>4, <4>5
    <3>9. seen[n] = LF /\ SubSeq(S, n + 1, Len(S)) = rbuf
      <4>1. (\A x \in 1..n : S[x] = seen[x]) /\ SubSeq(S, n + 1, Len(S)) = rbuf
        BY <1>2 DEF Parted
      <4>2. n \in 1..n
        BY <2>2, <3>1
      <4>3. QED
        BY <3>8, <4>1, <4>2
    <3>10. p.state = "done"
      BY <3>1, <3>9
    <3>11. Spelled(SubSeq(ts, j + 1, Len(ts))) = rbuf
      <4> HIDE DEF j, n
      <4>1. Spelled(SubSeq(ts, j + 1, Len(ts))) = SubSeq(S, Off(ts, j) + 1, Len(S))
        BY <1>3, <3>3, Placed
      <4>2. QED
        BY <3>8, <3>9, <4>1
    <3>12. r.p.st = "done"
      BY <1>4, <2>3, <2>6, <3>2, <3>3, <3>4
    <3>13. QED
      BY <2>6, <2>7, <2>8, <3>10, <3>11, <3>12
  <2>11. QED
    BY <2>9, <2>10
<1>10. QED
  BY <1>8, <1>9

-----------------------------------------------------------------------------
(* The commands of a text.                                                 *)

\* The first head of a text is its first or second token.
LEMMA HeadFound ==
  ASSUME NEW ts \in Seq(Tokens), Alternates(ts), ts # <<>>
  PROVE  \/ Len(ts) = 1 /\ ts[1] = T!LF /\ T!FirstHead(ts) = 2
         \/ \E h \in {1, 2} : /\ h <= Len(ts) /\ ts[h] # T!LF /\ (h = 2 => ts[1] = T!LF)
                              /\ T!FirstHead(ts) = h
<1> DEFINE I == {i \in 1..Len(ts) : ts[i] # T!LF} \cup {Len(ts) + 1}
<1>1. Len(ts) \in Nat /\ Len(ts) # 0
  BY LenProperties, EmptySeq
<1>2. I \in SUBSET Nat /\ T!FirstHead(ts) = T!Min(I)
  BY <1>1 DEF T!FirstHead
<1>3. CASE ts[1] # T!LF
  <2>1. 1 \in I /\ \A j \in I : ~(j < 1)
    BY <1>1, <1>3
  <2>2. T!FirstHead(ts) = 1
    BY <1>2, <2>1, LeastIs
  <2>3. QED
    BY <1>1, <1>3, <2>2
<1>4. CASE ts[1] = T!LF /\ Len(ts) = 1
  <2>1. 2 \in I /\ \A j \in I : ~(j < 2)
    <3>1. Len(ts) + 1 = 2 /\ 1..Len(ts) = {1}
      BY <1>4
    <3>2. I = {2}
      BY <1>4, <3>1
    <3> HIDE DEF I
    <3>3. QED
      BY <3>2
  <2>2. T!FirstHead(ts) = 2
    BY <1>2, <2>1, LeastIs
  <2>3. QED
    BY <1>4, <2>2
<1>5. CASE ts[1] = T!LF /\ Len(ts) # 1
  <2>1. 1 \in 1..Len(ts) - 1 /\ 2 \in 1..Len(ts)
    <3> DEFINE n == Len(ts)
    <3>1. n \in Nat /\ n # 0 /\ n # 1
      BY <1>1, <1>5
    <3> HIDE DEF n
    <3>2. 1 \in 1..n - 1 /\ 2 \in 1..n
      BY <3>1
    <3>3. QED
      BY <3>2 DEF n
  <2>2. ts[1] = T!LF <=> ts[1 + 1] # T!LF
    BY <2>1 DEF Alternates
  <2>3. ts[2] # T!LF
    BY <1>5, <2>2
  <2>4. 2 \in I /\ \A j \in I : ~(j < 2)
    <3>1. 2 \in I
      BY <2>1, <2>3
    <3>2. \A j \in I : j \in Nat /\ j # 0 /\ j # 1
      <4>1. \A j \in I : j = Len(ts) + 1 \/ (j \in 1..Len(ts) /\ ts[j] # T!LF)
        OBVIOUS
      <4>2. Len(ts) + 1 # 1 /\ Len(ts) + 1 # 0 /\ Len(ts) + 1 \in Nat
        BY <1>1
      <4> HIDE DEF I
      <4>3. QED
        BY <1>1, <1>5, <4>1, <4>2
    <3> HIDE DEF I
    <3>3. QED
      BY <3>1, <3>2
  <2>5. T!FirstHead(ts) = 2
    BY <1>2, <2>4, LeastIs
  <2>6. QED
    BY <1>5, <2>1, <2>3, <2>5
<1>6. QED
  BY <1>3, <1>4, <1>5

\* The h-th token of the text S is its first head: its CR is at e; its first space, if it
\* has an argument, at s; its verb V and its argument A around that.
HeadAt(ts, S, h, V, A, e, s) ==
  /\ h \in {1, 2} /\ h <= Len(ts) /\ ts[h] \in Tokens /\ ts[h] # T!LF
  /\ e = Off(ts, h) /\ e \in 1..Len(S) /\ s \in 1..e /\ S[e] = CR
  /\ (\A k \in 1..e - 1 : S[k] # CR) /\ (\A k \in 1..s - 1 : S[k] # SP)
  /\ V = Spelling[ts[h].verb] /\ V \in Seq(Byte) /\ Len(V) \in Nat /\ Len(V) >= 1 /\ s = h + Len(V)
  /\ (\A k \in 1..Len(V) : S[h - 1 + k] = V[k] /\ V[k] # LF) /\ (h = 2 => S[1] = LF)
  /\ ts[h].arg = T!NoArg => s = e
  /\ ts[h].arg # T!NoArg =>
       /\ s < e /\ S[s] = SP /\ A \in Seq(Byte) /\ Len(A) = e - 1 - s /\ Len(A) <= ArgMax
       /\ \A k \in 1..Len(A) : S[s + k] = A[k]

\* The first head, in its bytes.
LEMMA HeadPlaced ==
  ASSUME NEW ts \in Seq(Tokens), NEW h \in {1, 2}, h <= Len(ts), ts[h] # T!LF, h = 2 => ts[1] = T!LF
  PROVE  LET V == Spelling[ts[h].verb]
         IN  HeadAt(ts, Spelled(ts), h, V, Spelling[ts[h].arg], Off(ts, h), h + Len(V))
<1> SUFFICES ASSUME NEW S, S = Spelled(ts), NEW V, V = Spelling[ts[h].verb], NEW A, A = Spelling[ts[h].arg],
                    NEW e, e = Off(ts, h), NEW s, s = h + Len(V)
             PROVE  HeadAt(ts, S, h, V, A, e, s)
  OBVIOUS
<1> DEFINE B == Bytes(ts[h])
           o == h - 1
<1>1. Len(ts) \in Nat /\ h \in 1..Len(ts) /\ h \in Nat /\ 0 \in 0..Len(ts) /\ ts[h] \in Tokens /\ o \in Nat
  <2>1. Len(ts) \in Nat
    BY LenProperties
  <2>2. h \in 1..Len(ts)
    BY <2>1
  <2>3. QED
    BY <2>1, <2>2, ElementOfSeq
<1>2. Off(ts, 0) = 0 /\ S \in Seq(Byte) /\ Len(S) \in Nat
  BY <1>1, Placed
<1>3. h = 2 => Off(ts, 1) = 1 /\ S[1] = LF
  <2>1. SUFFICES ASSUME h = 2 PROVE Off(ts, 1) = 1 /\ S[1] = LF
    OBVIOUS
  <2> DEFINE C == Bytes(ts[1])
  <2>2. 1 \in 1..Len(ts) /\ 1 - 1 = 0
    BY <1>1, <2>1
  <2>3. NextAt(ts, S, 1, C, 0)
    BY <1>2, <2>2, NextPlaced
  <2>4. C = <<LF>>
    BY <2>1 DEF Bytes
  <2> HIDE DEF C
  <2>5. Off(ts, 1) = 0 + Len(C) /\ \A x \in 1..Len(C) : S[0 + x] = C[x]
    BY <2>3 DEF NextAt
  <2>6. Len(C) = 1 /\ C[1] = LF /\ 1 \in 1..1 /\ 0 + 1 = 1
    BY <2>4
  <2>7. QED
    BY <2>5, <2>6
<1>4. NextAt(ts, S, h, B, o) /\ HeadParts(ts[h], B, V, A)
  <2>1. NextAt(ts, S, h, B, Off(ts, h - 1))
    BY <1>1, NextPlaced
  <2>2. Off(ts, h - 1) = o
    BY <1>2, <1>3
  <2>3. HeadParts(ts[h], B, V, A)
    BY <1>1, HeadIs
  <2>4. QED
    BY <2>1, <2>2, <2>3
<1> DEFINE b == Len(B)
           v == Len(V)
           a == Len(A)
<1> HIDE DEF B
<1>5. /\ e = o + b /\ e <= Len(S) /\ b \in Nat /\ v \in Nat /\ \A k \in 1..b : S[o + k] = B[k]
  BY <1>4 DEF NextAt, HeadParts
<1>6. /\ V \in Seq(Byte) /\ 1 <= v /\ v < b /\ B[b] = CR /\ \A k \in 1..b - 1 : B[k] \notin {CR, LF, NUL}
      /\ \A k \in 1..v : B[k] = V[k] /\ V[k] \notin {SP, CR, LF, NUL}
      /\ ts[h].arg = T!NoArg => b = v + 1
      /\ ts[h].arg # T!NoArg => /\ A \in Seq(Byte) /\ a \in Nat /\ a <= ArgMax /\ b = v + 2 + a /\ B[v + 1] = SP
                                /\ \A k \in 1..a : B[v + 1 + k] = A[k]
  BY <1>4 DEF HeadParts
<1>7. LF # CR /\ LF # SP
  BY DEF LF, CR, SP
<1>8. \A k \in 1..o : S[k] = LF
  BY <1>1, <1>3
<1>9. o = h - 1 /\ s = h + v /\ s = o + (v + 1)
  BY <1>1, <1>5
<1> HIDE DEF b, v, a, o
<1>10. e \in 1..Len(S) /\ s \in 1..e /\ S[e] = CR /\ v + 1 \in 1..b
  <2>1. b \in 1..b /\ v + 1 \in 1..b
    BY <1>5, <1>6
  <2>2. S[o + b] = B[b]
    BY <1>5, <2>1
  <2>3. o \in Nat
    BY <1>1 DEF o
  <2>4. o + b = e /\ S[e] = CR
    BY <1>5, <1>6, <2>2
  <2>5. e \in 1..Len(S) /\ s \in 1..e
    <3>1. b \in Nat /\ v \in Nat /\ 1 <= v /\ v < b /\ e = o + b /\ s = o + (v + 1) /\ e <= Len(S) /\ Len(S) \in Nat
      BY <1>2, <1>5, <1>6, <1>9
    <3>2. QED
      BY <2>3, <3>1
  <2>6. QED
    BY <2>1, <2>4, <2>5
<1>11. ASSUME NEW k \in 1..e - 1 PROVE S[k] # CR /\ (k < s => S[k] # SP)
  <2> DEFINE x == k - o
  <2>1. CASE k <= o
    <3>1. k \in 1..o
      <4>1. o \in Nat /\ k \in Nat /\ 1 <= k
        BY <1>1, <1>5 DEF o
      <4>2. QED
        BY <2>1, <4>1
    <3>2. S[k] = LF
      BY <1>8, <3>1
    <3>3. QED
      BY <1>7, <3>2
  <2>2. CASE ~(k <= o)
    <3>1. x \in 1..b - 1 /\ x \in 1..b /\ o + x = k /\ (k < s => x \in 1..v)
      <4>1. o \in Nat /\ e = o + b /\ b \in Nat /\ v \in Nat /\ s = o + (v + 1)
        BY <1>1, <1>5, <1>9 DEF o
      <4>2. k \in Nat /\ 1 <= k /\ k <= e - 1 /\ k > o
        BY <2>2, <4>1
      <4>3. QED
        BY <4>1, <4>2
    <3> HIDE DEF x
    <3>2. S[k] = B[x]
      BY <1>5, <3>1
    <3>3. QED
      BY <1>6, <3>1, <3>2
  <2>3. QED
    BY <2>1, <2>2
<1>12. ASSUME NEW k \in 1..v PROVE S[h - 1 + k] = V[k] /\ V[k] # LF
  <2>1. k \in 1..b
    BY <1>5, <1>6
  <2>2. S[o + k] = B[k] /\ B[k] = V[k] /\ V[k] # LF
    BY <1>5, <1>6, <2>1
  <2>3. QED
    BY <1>9, <2>2
<1>13. ts[h].arg = T!NoArg => s = e
  BY <1>5, <1>6, <1>9
<1>14. ASSUME ts[h].arg # T!NoArg
       PROVE  /\ s < e /\ S[s] = SP /\ A \in Seq(Byte) /\ a = e - 1 - s /\ a <= ArgMax
              /\ \A k \in 1..a : S[s + k] = A[k]
  <2>1. /\ A \in Seq(Byte) /\ a \in Nat /\ a <= ArgMax /\ b = v + 2 + a /\ B[v + 1] = SP
        /\ \A k \in 1..a : B[v + 1 + k] = A[k]
    BY <1>6, <1>14
  <2>2. /\ o \in Nat /\ v \in Nat /\ a \in Nat /\ b = v + 2 + a /\ e = o + b /\ s = o + (v + 1)
    BY <1>1, <1>5, <1>9, <2>1 DEF o
  <2>3. s < e /\ a = e - 1 - s
    BY <2>2
  <2>4. S[o + (v + 1)] = B[v + 1]
    BY <1>5, <1>10
  <2>5. ASSUME NEW k \in 1..a PROVE S[s + k] = A[k]
    <3> DEFINE x == v + 1 + k
    <3>1. x \in 1..b /\ o + x = s + k
      BY <2>2
    <3>2. B[x] = A[k]
      BY <2>1
    <3> HIDE DEF x
    <3>3. QED
      BY <1>5, <3>1, <3>2
  <2>6. QED
    BY <1>9, <2>1, <2>3, <2>4, <2>5
<1>15. \A k \in 1..s - 1 : S[k] # SP
  <2>1. \A k \in 1..s - 1 : k \in 1..e - 1 /\ k < s
    BY <1>1, <1>2, <1>10
  <2>2. QED
    BY <1>11, <2>1
<1>16. /\ h \in {1, 2} /\ h <= Len(ts) /\ ts[h] \in Tokens /\ ts[h] # T!LF
       /\ e = Off(ts, h) /\ e \in 1..Len(S) /\ s \in 1..e /\ S[e] = CR
       /\ (\A k \in 1..e - 1 : S[k] # CR) /\ (\A k \in 1..s - 1 : S[k] # SP)
  BY <1>1, <1>10, <1>11, <1>15
<1>17. /\ V \in Seq(Byte) /\ Len(V) \in Nat /\ Len(V) >= 1 /\ s = h + Len(V)
       /\ (\A k \in 1..Len(V) : S[h - 1 + k] = V[k] /\ V[k] # LF) /\ (h = 2 => S[1] = LF)
  BY <1>3, <1>5, <1>6, <1>9, <1>12 DEF v
<1>18. ts[h].arg # T!NoArg =>
         /\ s < e /\ S[s] = SP /\ A \in Seq(Byte) /\ Len(A) = e - 1 - s /\ Len(A) <= ArgMax
         /\ \A k \in 1..Len(A) : S[s + k] = A[k]
  BY <1>14 DEF a
<1>19. QED
  BY <1>13, <1>16, <1>17, <1>18 DEF HeadAt

\* The line of what is read before a head's CR: no request yet, but its argument fits.
LEMMA LineWithin ==
  ASSUME NEW ts, NEW S, NEW w, NEW v, Parted(ts, S, w, v),
         NEW h, NEW V, NEW A, NEW e, NEW s, HeadAt(ts, S, h, V, A, e, s), Len(w) < e
  PROVE  ~Line(w).ended /\ Line(w).after = <<>> /\ Len(Line(w).arg) <= ArgMax
<1> DEFINE n == Len(w)
           f == IF s <= n THEN s ELSE n + 1
           r == n + 1
<1>1. /\ w \in Seq(Byte) /\ n \in Nat /\ Len(S) \in Nat /\ \A k \in 1..n : S[k] = w[k]
  BY DEF Parted
<1>2. /\ e \in Nat /\ e <= Len(S) /\ s \in 1..e /\ n < e
      /\ (\A k \in 1..e - 1 : S[k] # CR) /\ (\A k \in 1..s - 1 : S[k] # SP)
      /\ s # e => S[s] = SP /\ Len(A) = e - 1 - s /\ Len(A) <= ArgMax
  <2>1. e \in 1..Len(S)
    BY DEF HeadAt
  <2>2. e \in Nat /\ e <= Len(S)
    BY <1>1, <2>1
  <2>3. QED
    BY <2>2 DEF HeadAt
<1>3. EndOf(w) = r
  <2>1. r \in 1..n + 1 /\ ~(r <= n)
    BY <1>1
  <2>2. \A k \in 1..n : w[k] # CR
    <3>1. \A k \in 1..n : k \in 1..e - 1
      BY <1>1, <1>2
    <3>2. QED
      BY <1>1, <1>2, <3>1
  <2> HIDE DEF r
  <2>3. QED
    BY <1>1, <2>1, <2>2, FirstOfOnly DEF EndOf
<1>4. HeadOf(w) = w
  <2>1. EndOf(w) - 1 = Len(w)
    BY <1>1, <1>3
  <2>2. SubSeq(w, 1, Len(w)) = w
    BY <1>1, SubSeqFull
  <2>3. QED
    BY <2>1, <2>2 DEF HeadOf
<1>5. f \in 1..n + 1
  BY <1>1, <1>2
<1>6. SpaceOf(w) = f
  <2>1. f <= n => w[f] = SP
    <3>1. SUFFICES ASSUME f <= n PROVE w[f] = SP
      OBVIOUS
    <3>2. f = s /\ s \in 1..n /\ s # e
      BY <1>1, <1>2, <3>1
    <3>3. QED
      BY <1>1, <1>2, <3>2
  <2>2. \A k \in 1..n : k < f => w[k] # SP
    <3>1. \A k \in 1..n : k < f => k \in 1..s - 1
      BY <1>1, <1>2
    <3>2. QED
      BY <1>1, <1>2, <3>1
  <2> HIDE DEF f
  <2>3. FirstOf(w, SP) = f
    BY <1>1, <1>5, <2>1, <2>2, FirstOfOnly
  <2>4. QED
    BY <1>4, <2>3 DEF SpaceOf
<1> DEFINE m == f + 1
           a == SubSeq(w, m, n)
           z == SubSeq(w, r + 1, n)
<1>7. Line(w) = LineOf(SubSeq(w, 1, f - 1), a, f < r, r <= n, z)
  <2>1. r - 1 = n
    BY <1>1
  <2>2. QED
    BY <1>3, <1>6, <2>1, LineIs
<1>8. Line(w).arg = a /\ Line(w).ended = (r <= n) /\ Line(w).after = z
  <2> HIDE DEF a, z
  <2>1. QED
    BY <1>7 DEF LineOf
<1>9. z = <<>>
  <2>1. r + 1 > n /\ r + 1 \in Int /\ n \in Int
    BY <1>1
  <2>2. QED
    BY <2>1, SubSeqEmpty
<1>10. Len(a) <= ArgMax
  <2>1. m \in 1..n + 2 /\ n \in 0..n /\ m <= n + 2
    BY <1>1, <1>5
  <2>2. (m <= n => s <= n /\ s # e /\ n - m + 1 <= e - 1 - s)
    BY <1>1, <1>2
  <2>3. ArgMax \in Nat
    BY ParserAssumption
  <2> HIDE DEF m
  <2>4. Len(a) = IF m <= n THEN n - m + 1 ELSE 0
    BY <1>1, <2>1, PartOf
  <2>5. CASE m <= n
    <3>1. n - m + 1 <= e - 1 - s /\ e - 1 - s <= ArgMax
      BY <1>2, <2>2, <2>5
    <3>2. n - m + 1 \in Int /\ e - 1 - s \in Int
      BY <1>1, <1>2, <2>1
    <3>3. QED
      BY <2>3, <2>4, <2>5, <3>1, <3>2
  <2>6. CASE ~(m <= n)
    BY <2>3, <2>4, <2>6
  <2>7. QED
    BY <2>5, <2>6
<1>11. ~(r <= n)
  BY <1>1
<1>12. QED
  BY <1>8, <1>9, <1>10, <1>11

\* The line l of a head u and what follows its CR at e, up to n.
LineAt(l, u, h, V, A, e, n, S) ==
  /\ l.ended /\ (l.spaced <=> u.arg # T!NoArg) /\ Len(l.arg) <= ArgMax
  /\ (h = 1 => l.verb = V) /\ (h = 2 => Len(l.verb) >= 1 /\ l.verb[1] = LF)
  /\ (u.arg = T!NoArg => l.arg = <<>>) /\ (u.arg # T!NoArg => l.arg = A)
  /\ UpToNul(l.verb) = l.verb /\ UpToNul(l.arg) = l.arg
  /\ l.after \in Seq(Byte) /\ Len(l.after) = n - e /\ (n > e => l.after[1] = S[e + 1])

\* The line of what is read up to a head's CR and behind it.
LEMMA LineBehind ==
  ASSUME NEW ts, NEW S, NEW w, NEW v, Parted(ts, S, w, v),
         NEW h, NEW V, NEW A, NEW e, NEW s, HeadAt(ts, S, h, V, A, e, s), Len(w) >= e
  PROVE  LineAt(Line(w), ts[h], h, V, A, e, Len(w), S)
<1> DEFINE n == Len(w)
           u == ts[h]
           x == e - 1
           H == SubSeq(w, 1, x)
<1>1. /\ w \in Seq(Byte) /\ n \in Nat /\ Len(S) \in Nat /\ \A k \in 1..n : S[k] = w[k]
      /\ ts \in Seq(Tokens) /\ S = Spelled(ts) /\ n <= Len(S)
  BY DEF Parted
<1>2. /\ h \in {1, 2} /\ e \in 1..n /\ s \in 1..e /\ S[e] = CR
      /\ (\A k \in 1..e - 1 : S[k] # CR) /\ (\A k \in 1..s - 1 : S[k] # SP)
      /\ V \in Seq(Byte) /\ Len(V) \in Nat /\ Len(V) >= 1 /\ s = h + Len(V)
      /\ (\A k \in 1..Len(V) : S[h - 1 + k] = V[k] /\ V[k] # LF) /\ (h = 2 => S[1] = LF)
      /\ u.arg = T!NoArg => s = e
      /\ u.arg # T!NoArg =>
           /\ s < e /\ S[s] = SP /\ A \in Seq(Byte) /\ Len(A) = e - 1 - s /\ Len(A) <= ArgMax
           /\ \A k \in 1..Len(A) : S[s + k] = A[k]
  <2>1. e \in 1..Len(S)
    BY DEF HeadAt
  <2>2. e \in 1..n
    BY <1>1, <2>1
  <2>3. QED
    BY <2>2 DEF HeadAt
<1> HIDE DEF u
<1>3. /\ x \in 0..n /\ x \in Nat /\ n \in Nat /\ e = x + 1 /\ e \in 1..n + 1 /\ s \in 1..x + 1 /\ s \in Nat
  BY <1>1, <1>2
<1>4. \A k \in 1..x : k \in 1..n /\ w[k] = S[k] /\ w[k] # CR
  BY <1>1, <1>2, <1>3
<1>5. EndOf(w) = e
  <2>1. e <= n => w[e] = CR
    BY <1>1, <1>2
  <2>2. \A k \in 1..n : k < e => w[k] # CR
    <3>1. \A k \in 1..n : k < e => k \in 1..x
      BY <1>3
    <3>2. QED
      BY <1>4, <3>1
  <2>3. QED
    BY <1>1, <1>3, <2>1, <2>2, FirstOfOnly DEF EndOf
<1>6. H \in Seq(Byte) /\ Len(H) = x /\ (\A k \in 1..x : H[k] = w[k]) /\ HeadOf(w) = H
  <2>1. HeadOf(w) = H
    BY <1>5 DEF HeadOf
  <2> HIDE DEF x
  <2>2. QED
    BY <1>1, <1>3, <2>1, PrefixIs
<1> HIDE DEF H
<1>7. SpaceOf(w) = s
  <2>1. s <= x => H[s] = SP
    <3>1. SUFFICES ASSUME s <= x PROVE H[s] = SP
      OBVIOUS
    <3>2. s \in 1..x /\ s # e
      BY <1>3, <3>1
    <3>3. S[s] = SP
      BY <1>2, <3>2
    <3>4. QED
      BY <1>4, <1>6, <3>2, <3>3
  <2>2. \A k \in 1..x : k < s => H[k] # SP
    <3>1. \A k \in 1..x : k < s => k \in 1..s - 1
      BY <1>3
    <3>2. QED
      BY <1>2, <1>4, <1>6, <3>1
  <2>3. s \in 1..Len(H) + 1
    BY <1>3, <1>6
  <2>4. FirstOf(H, SP) = s
    BY <1>6, <2>1, <2>2, <2>3, FirstOfOnly
  <2>5. QED
    BY <1>6, <2>4 DEF SpaceOf
<1> DEFINE b == SubSeq(w, 1, s - 1)
           a == SubSeq(w, s + 1, x)
           z == SubSeq(w, e + 1, n)
           l == Line(w)
<1>8. l.verb = b /\ l.arg = a /\ l.spaced = (s < e) /\ l.ended = (e <= n) /\ l.after = z
  <2>1. Line(w) = LineOf(b, a, s < e, e <= n, z)
    BY <1>5, <1>7, LineIs
  <2> HIDE DEF b, a, z
  <2>2. QED
    BY <2>1 DEF LineOf
<1>9. e <= n /\ (s < e <=> u.arg # T!NoArg)
  <2>1. ~(e < e)
    BY <1>3
  <2>2. QED
    BY <1>2, <1>3, <2>1
<1>10. \A k \in 1..n : w[k] # NUL
  <2>1. \A k \in 1..n : k \in 1..Len(S)
    BY <1>1
  <2>2. \A k \in 1..n : S[k] # NUL
    BY <1>1, <2>1, SpelledNoNul
  <2>3. QED
    BY <1>1, <2>2
<1>11. /\ b \in Seq(Byte) /\ Len(b) = s - 1 /\ \A k \in 1..s - 1 : k \in 1..n /\ b[k] = w[k]
  <2> DEFINE m == s - 1
  <2>1. m \in 0..n /\ \A k \in 1..m : k \in 1..n
    BY <1>3
  <2> HIDE DEF m
  <2>2. SubSeq(w, 1, m) \in Seq(Byte) /\ Len(SubSeq(w, 1, m)) = m /\ \A k \in 1..m : SubSeq(w, 1, m)[k] = w[k]
    BY <1>1, <2>1, PrefixIs
  <2>3. QED
    BY <2>1, <2>2 DEF m
<1>12. /\ a \in Seq(Byte) /\ Len(a) = x - s + (IF s = e THEN 1 ELSE 0)
       /\ \A k \in 1..Len(a) : s + k \in 1..n /\ a[k] = w[s + k]
  <2> DEFINE m == s + 1
  <2>1. m \in 1..n + 2 /\ m <= x + 2
    BY <1>3
  <2>2. (m <= x => x - m + 1 = x - s /\ s # e) /\ (~(m <= x) => 0 = x - s + (IF s = e THEN 1 ELSE 0))
        /\ \A k \in Nat : m + k - 1 = s + k
    BY <1>3
  <2> HIDE DEF m, x
  <2>3. SubSeq(w, m, x) \in Seq(Byte) /\ Len(SubSeq(w, m, x)) = (IF m <= x THEN x - m + 1 ELSE 0)
        /\ \A k \in 1..Len(SubSeq(w, m, x)) : SubSeq(w, m, x)[k] = w[m + k - 1]
    BY <1>1, <1>3, <2>1, PartOf
  <2>4. a = SubSeq(w, m, x)
    BY DEF m
  <2> HIDE DEF a
  <2>5. a \in Seq(Byte) /\ Len(a) = x - s + (IF s = e THEN 1 ELSE 0) /\ \A k \in 1..Len(a) : a[k] = w[m + k - 1]
    <3>1. CASE m <= x
      <4>1. x - s = x - s + 0
        BY <1>3
      <4>2. QED
        BY <2>2, <2>3, <2>4, <3>1, <4>1
    <3>2. CASE ~(m <= x)
      BY <2>2, <2>3, <2>4, <3>2
    <3>3. QED
      BY <3>1, <3>2
  <2>6. \A k \in 1..Len(a) : k \in Nat /\ s + k \in 1..n
    <3>1. Len(a) \in Nat /\ Len(a) <= x - s + 1 /\ (s # e => Len(a) = x - s)
      BY <1>3, <2>5, LenProperties
    <3>2. QED
      <4> DEFINE y == Len(a)
      <4>1. y \in Nat /\ y <= x - s + 1 /\ (s # e => y = x - s) /\ (s = e => y = 0)
        BY <1>3, <2>5, <3>1
      <4> HIDE DEF y
      <4>2. \A k \in 1..y : k \in Nat /\ s + k \in 1..n
        BY <1>3, <4>1
      <4>3. QED
        BY <4>2 DEF y
  <2>7. QED
    BY <2>2, <2>5, <2>6
<1>13. z \in Seq(Byte) /\ Len(z) = n - e /\ (n > e => z[1] = w[e + 1])
  <2> DEFINE m == e + 1
  <2>1. m \in 1..n + 2 /\ m <= n + 2 /\ n \in 0..n /\ (m <= n => n - m + 1 = n - e) /\ (~(m <= n) => 0 = n - e)
        /\ m + 1 - 1 = m /\ (n > e => m <= n /\ 1 \in 1..n - e)
    BY <1>3, <1>9
  <2> HIDE DEF m
  <2>2. SubSeq(w, m, n) \in Seq(Byte) /\ Len(SubSeq(w, m, n)) = (IF m <= n THEN n - m + 1 ELSE 0)
        /\ \A k \in 1..Len(SubSeq(w, m, n)) : SubSeq(w, m, n)[k] = w[m + k - 1]
    BY <1>1, <2>1, PartOf
  <2>3. z = SubSeq(w, m, n)
    BY DEF m
  <2> HIDE DEF z, n
  <2>4. QED
    BY <2>1, <2>2, <2>3 DEF m
<1> HIDE DEF b, a, z, l, n, x
<1>14. UpToNul(b) = b
  <2>1. \A k \in 1..Len(b) : b[k] # NUL
    BY <1>10, <1>11
  <2>2. QED
    BY <1>11, <2>1, NoNul
<1>15. UpToNul(a) = a
  <2>1. \A k \in 1..Len(a) : a[k] # NUL
    BY <1>10, <1>12
  <2>2. QED
    BY <1>12, <2>1, NoNul
<1>16. h = 1 => b = V
  <2>1. SUFFICES ASSUME h = 1 PROVE b = V
    OBVIOUS
  <2>2. Len(b) = Len(V)
    BY <1>2, <1>3, <1>11, <2>1
  <2>3. ASSUME NEW k \in 1..Len(V) PROVE b[k] = V[k]
    <3>1. k \in 1..s - 1 /\ h - 1 + k = k
      BY <1>2, <2>1
    <3>2. S[h - 1 + k] = V[k]
      BY <1>2
    <3>3. k \in 1..n /\ b[k] = w[k]
      BY <1>11, <3>1
    <3>4. QED
      BY <1>1, <3>1, <3>2, <3>3 DEF n
  <2>4. QED
    BY <1>2, <1>11, <2>2, <2>3, SeqEqual
<1>17. h = 2 => Len(b) >= 1 /\ b[1] = LF
  <2>1. SUFFICES ASSUME h = 2 PROVE Len(b) >= 1 /\ b[1] = LF
    OBVIOUS
  <2>2. 1 \in 1..s - 1 /\ s - 1 >= 1
    BY <1>2, <2>1
  <2>3. b[1] = w[1] /\ 1 \in 1..n
    BY <1>11, <2>2
  <2>4. QED
    BY <1>1, <1>2, <1>11, <2>1, <2>2, <2>3 DEF n
<1>18. u.arg = T!NoArg => a = <<>>
  <2>1. SUFFICES ASSUME u.arg = T!NoArg PROVE a = <<>>
    OBVIOUS
  <2>2. s = e
    BY <1>2, <2>1
  <2>3. Len(a) = 0
    BY <1>3, <1>12, <2>2
  <2>4. QED
    BY <1>12, <2>3, EmptySeq
<1>19. u.arg # T!NoArg => a = A
  <2>1. SUFFICES ASSUME u.arg # T!NoArg PROVE a = A
    OBVIOUS
  <2>2. s < e /\ A \in Seq(Byte) /\ Len(A) = e - 1 - s /\ \A k \in 1..Len(A) : S[s + k] = A[k]
    BY <1>2, <2>1
  <2>3. Len(a) = Len(A)
    BY <1>3, <1>12, <2>2
  <2>4. \A k \in 1..Len(A) : a[k] = A[k]
    BY <1>1, <1>12, <2>2, <2>3 DEF n
  <2>5. QED
    BY <1>12, <2>2, <2>3, <2>4, SeqEqual
<1>20. Len(a) <= ArgMax
  <2>1. ArgMax \in Nat
    BY ParserAssumption
  <2>2. Len(<<>>) = 0
    BY EmptySeq
  <2>3. QED
    BY <1>2, <1>18, <1>19, <2>1, <2>2
<1>21. n > e => z[1] = S[e + 1]
  <2>1. n > e => e + 1 \in 1..n
    BY <1>3
  <2>2. QED
    BY <1>1, <1>13, <2>1 DEF n
<1>22. LineAt(l, u, h, V, A, e, n, S)
  BY <1>8, <1>9, <1>13, <1>14, <1>15, <1>16, <1>17, <1>18, <1>19, <1>20, <1>21 DEF LineAt
<1>23. QED
  BY <1>22 DEF l, u, n

\* The verb the token parser gives a head that is its h-th token.
Called(u, h) == IF h = 1 THEN u.verb ELSE T!Unknown

\* Can the line of a head end after its CR?
Whole(u, h, m) == u.arg # T!NoArg \/ Called(u, h) \in T!Argless(m)

\* The parsers take the same lines without an argument.
LEMMA WholeIs ==
  ASSUME NEW m \in {"READ", "ADMIN"}, NEW u \in Tokens, u # T!LF, NEW h \in {1, 2}, NEW V, V = Spelling[u.verb],
         NEW l \in Lines, NEW A, NEW e, NEW n, NEW S, LineAt(l, u, h, V, A, e, n, S)
  PROVE  Whole(u, h, m) <=> l.spaced \/ StartsWithVerb(l.verb, WithoutArg[m])
<1>1. /\ (l.spaced <=> u.arg # T!NoArg) /\ (h = 1 => l.verb = V) /\ (h = 2 => Len(l.verb) >= 1 /\ l.verb[1] = LF)
  BY DEF LineAt
<1>2. CASE h = 1
  <2>1. StartsWithVerb(Spelling[u.verb], WithoutArg[m]) <=> u.verb \in T!Argless(m)
    BY SpellingAssumption
  <2>2. QED
    BY <1>1, <1>2, <2>1 DEF Whole, Called
<1>3. CASE h = 2
  <2>1. T!Unknown \notin T!Argless(m)
    BY DEF T!Unknown, T!Argless
  <2>2. ~StartsWithVerb(l.verb, WithoutArg[m])
    <3>1. SUFFICES ASSUME NEW v \in WithoutArg[m], Len(v) <= Len(l.verb), SubSeq(l.verb, 1, Len(v)) = v
                   PROVE  FALSE
      BY DEF StartsWithVerb
    <3> DEFINE w == l.verb
               k == Len(v)
    <3>2. v # <<>> /\ v[1] # LF /\ v \in Seq(Byte \ {NUL})
      <4>1. m \in Mode
        BY DEF Mode
      <4>2. v \in Seq(Byte \ {NUL})
        BY <4>1, ParserAssumption
      <4>3. v # <<>> /\ v[1] # LF
        BY SpellingAssumption
      <4>4. QED
        BY <4>2, <4>3
    <3>3. k \in Nat /\ k # 0
      BY <3>2, LenProperties, EmptySeq
    <3>4. w \in Seq(Byte) /\ Len(w) \in Nat /\ w[1] = LF
      BY <1>1, <1>3, LenProperties DEF Lines
    <3>5. k <= Len(w) /\ SubSeq(w, 1, k) = v
      BY <3>1
    <3> HIDE DEF w, k
    <3>6. k \in 0..Len(w) /\ 1 \in 1..k
      BY <3>3, <3>4, <3>5
    <3>7. SubSeq(w, 1, k)[1] = w[1]
      BY <3>4, <3>6, PrefixIs
    <3>8. QED
      BY <3>2, <3>4, <3>5, <3>7
  <2>3. h # 1
    BY <1>3
  <2>4. QED
    BY <1>1, <2>1, <2>2, <2>3 DEF Whole, Called
<1>4. QED
  BY <1>2, <1>3

\* The outcomes of the token parser.
LEMMA CommandOutcome ==
  ASSUME NEW ts, NEW m, NEW h \in {1, 2}, T!FirstHead(ts) = h, Len(ts) \in Nat
  PROVE  LET r == T!request_consume(T!request_parser_init, ts, T!Argless(m))
         IN  /\ h > Len(ts) /\ h = 2 => r.p.st = "verb" /\ r.rest = <<>>
             /\ h <= Len(ts) /\ ~Whole(ts[h], h, m) => r.p.st = "error" /\ r.rest = T!After(ts, h)
             /\ h = Len(ts) /\ Whole(ts[h], h, m) => r.p.st = "cr" /\ r.rest = T!After(ts, h)
             /\ h < Len(ts) /\ Whole(ts[h], h, m) /\ ts[h + 1] = T!LF =>
                  /\ r.p.st = "done" /\ r.rest = T!After(ts, h + 1)
                  /\ r.p.req.verb = Called(ts[h], h) /\ r.p.req.arg = ts[h].arg
<1> DEFINE q == T!request_parser_init
           G == T!Argless(m)
           r == T!request_consume(q, ts, G)
           n == Len(ts)
           u == ts[h]
           q1 == IF h = 1 THEN q ELSE [q EXCEPT !.req.verb = T!Unknown]
           q2 == T!ReadHead(q1, u, G)
           q3 == T!ReadLF(q2, ts[h + 1])
           none == [p |-> q1, rest |-> <<>>]
           head == [p |-> q2, rest |-> T!After(ts, h)]
           line == [p |-> q3, rest |-> T!After(ts, h + 1)]
           v == Called(u, h)
<1>1. /\ q = [st |-> "verb", req |-> [verb |-> "", arg |-> T!NoArg], data |-> <<>>]
      /\ T!Unknown = "?"
  BY DEF T!request_parser_init, T!EmptyRequest, T!Unknown
<1>2. /\ q1.st = "verb"
      /\ q1 = [st |-> "verb", req |-> [verb |-> IF h = 1 THEN "" ELSE "?", arg |-> T!NoArg], data |-> <<>>]
  BY <1>1
<1>3. r = CASE q.st = "cr" -> [p |-> T!ReadLF(q, ts[1]), rest |-> T!After(ts, 1)]
            [] q.st # "cr" /\ h > n -> none
            [] q.st # "cr" /\ h <= n /\ (q2.st = "error" \/ h = n) -> head
            [] OTHER -> line
  BY DEF T!request_consume
<1>4. q.st # "cr"
  BY <1>1
<1> HIDE DEF q, r, none, head, line, q1, q2, q3, n
<1>5. /\ (h > n => r = none)
      /\ (h <= n /\ (q2.st = "error" \/ h = n) => r = head)
      /\ (h <= n /\ ~(q2.st = "error" \/ h = n) => r = line)
  <2>1. h <= n => ~(h > n)
    BY DEF n
  <2>2. QED
    BY <1>3, <1>4, <2>1
<1>6. /\ q2.st = IF Whole(u, h, m) THEN "cr" ELSE "error"
      /\ q2.req = [verb |-> v, arg |-> u.arg]
  <2> DEFINE x == IF q1.req.verb = "" THEN u.verb ELSE T!Unknown
             st == IF u.arg # T!NoArg \/ x \in G THEN "cr" ELSE "error"
             req == [verb |-> x, arg |-> u.arg]
  <2>1. x = v
    BY <1>1, <1>2 DEF Called
  <2>2. q2 = [q1 EXCEPT !.st = st, !.req = req]
    BY DEF q2, T!ReadHead
  <2>3. st = IF Whole(u, h, m) THEN "cr" ELSE "error"
    BY <2>1 DEF Whole
  <2>4. req = [verb |-> v, arg |-> u.arg]
    BY <2>1
  <2> HIDE DEF st, req, x
  <2>5. q2.st = st /\ q2.req = req
    BY <1>2, <2>2
  <2>6. QED
    BY <2>3, <2>4, <2>5
<1>7. ts[h + 1] = T!LF => q3.st = "done" /\ q3.req = q2.req
  <2>1. q3 = [q2 EXCEPT !.st = IF ts[h + 1] = T!LF THEN "done" ELSE "error"]
    BY DEF q3, T!ReadLF
  <2>2. q2 = [q1 EXCEPT !.st = q2.st, !.req = q2.req]
    <3> DEFINE x == IF q1.req.verb = "" THEN u.verb ELSE T!Unknown
               st == IF u.arg # T!NoArg \/ x \in G THEN "cr" ELSE "error"
               req == [verb |-> x, arg |-> u.arg]
    <3>1. q2 = [q1 EXCEPT !.st = st, !.req = req]
      BY DEF q2, T!ReadHead
    <3> HIDE DEF st, req, x
    <3>2. QED
      BY <1>2, <3>1
  <2>3. QED
    BY <1>2, <2>1, <2>2
<1>8. /\ none.p = q1 /\ none.rest = <<>> /\ head.p = q2 /\ head.rest = T!After(ts, h)
      /\ line.p = q3 /\ line.rest = T!After(ts, h + 1)
  BY DEF none, head, line
<1>9. h > n => r.p.st = "verb" /\ r.rest = <<>>
  BY <1>2, <1>5, <1>8
<1>10. h <= n /\ ~Whole(u, h, m) => r.p.st = "error" /\ r.rest = T!After(ts, h)
  BY <1>5, <1>6, <1>8
<1>11. h = n /\ Whole(u, h, m) => r.p.st = "cr" /\ r.rest = T!After(ts, h)
  <2>1. h = n => h <= n
    OBVIOUS
  <2>2. QED
    BY <1>5, <1>6, <1>8, <2>1
<1>12. h < n /\ Whole(u, h, m) /\ ts[h + 1] = T!LF =>
         /\ r.p.st = "done" /\ r.rest = T!After(ts, h + 1)
         /\ r.p.req.verb = v /\ r.p.req.arg = u.arg
  <2>1. h < n => h <= n /\ h # n
    BY DEF n
  <2>2. SUFFICES ASSUME h < n, Whole(u, h, m), ts[h + 1] = T!LF
                 PROVE  r.p.st = "done" /\ r.rest = T!After(ts, h + 1) /\ r.p.req.verb = v /\ r.p.req.arg = u.arg
    OBVIOUS
  <2>3. q2.st = "cr"
    BY <1>6, <2>2
  <2>4. r = line
    BY <1>5, <2>1, <2>2, <2>3
  <2>5. q3.st = "done" /\ q3.req = q2.req
    BY <1>7, <2>2
  <2>6. q3.req.verb = v /\ q3.req.arg = u.arg
    BY <1>6, <2>5
  <2>7. QED
    BY <1>8, <2>4, <2>5, <2>6
<1>13. QED
  BY <1>9, <1>10, <1>11, <1>12 DEF q, r, n

\* The verb of a request is that of its head, or no command.
LEMMA VerbIsSame ==
  ASSUME NEW u \in Tokens, u # T!LF, NEW h \in {1, 2}, NEW V, V = Spelling[u.verb],
         NEW l \in Lines, NEW A, NEW e, NEW n, NEW S, LineAt(l, u, h, V, A, e, n, S), Text(p.verb) = l.verb
  PROVE  SameVerb(Called(u, h))
<1>1. (h = 1 => l.verb = V) /\ (h = 2 => Len(l.verb) >= 1 /\ l.verb[1] = LF)
  BY DEF LineAt
<1>2. CASE h = 1
  <2>1. Called(u, h) = u.verb /\ Text(p.verb) = Spelling[u.verb]
    BY <1>1, <1>2 DEF Called
  <2>2. ASSUME u.verb = T!Unknown, NEW t \in Tokens, t.verb \notin {T!Unknown, "LF"}, Text(p.verb) = Spelling[t.verb]
        PROVE  FALSE
    <3>1. t # T!LF
      BY <2>2 DEF T!LF
    <3>2. u.verb = t.verb
      BY <2>1, <2>2, <3>1, SpellingAssumption
    <3>3. QED
      BY <2>2, <3>2
  <2>3. QED
    BY <2>1, <2>2 DEF SameVerb
<1>3. CASE h = 2
  <2>1. Called(u, h) = T!Unknown
    BY <1>3 DEF Called
  <2>2. ASSUME NEW t \in Tokens, t.verb \notin {T!Unknown, "LF"}, Text(p.verb) = Spelling[t.verb]
        PROVE  FALSE
    <3> DEFINE W == Spelling[t.verb]
    <3>1. t # T!LF
      BY <2>2 DEF T!LF
    <3>2. W \in Seq(Byte \ {SP, CR, LF, NUL})
      BY <3>1, SpellingAssumption
    <3>3. W = l.verb
      BY <2>2
    <3> HIDE DEF W
    <3>4. Len(W) \in Nat /\ Len(W) >= 1 /\ W[1] = LF
      BY <1>1, <1>3, <3>2, <3>3, LenProperties
    <3>5. 1 \in 1..Len(W)
      BY <3>4
    <3>6. W[1] \in Byte \ {SP, CR, LF, NUL}
      BY <3>2, <3>5, ElementOfSeq
    <3>7. QED
      BY <3>4, <3>6
  <2>3. QED
    BY <2>1, <2>2 DEF SameVerb
<1>4. QED
  BY <1>2, <1>3

\* A command's parser was fed w of the text S, and v is left.
Commanded(ts, S, w, v, m, q) ==
  /\ Parted(ts, S, w, v) /\ Alternates(ts) /\ m \in {"READ", "ADMIN"} /\ w # <<>>
  /\ Fed(m, q, Line(w)) /\ Line(w) \in Lines /\ Len(Line(w).verb) <= VerbMax
  /\ ~request_is_done(q) => v = <<>> /\ S = w

\* An LF that is all that came spoils the verb to come.
LEMMA LFOnly ==
  ASSUME NEW ts, NEW S, NEW w, NEW v, NEW m, NEW q, Commanded(ts, S, w, v, m, q), Len(ts) = 1, ts[1] = T!LF
  PROVE  q.state = "verb" /\ v = <<>>
<1> DEFINE B == Bytes(ts[1])
           l == Line(w)
<1>1. /\ ts \in Seq(Tokens) /\ S = Spelled(ts) /\ S \in Seq(Byte) /\ w \in Seq(Byte) /\ v \in Seq(Byte)
      /\ Len(w) \in Nat /\ Len(v) \in Nat /\ Len(S) = Len(w) + Len(v)
      /\ SubSeq(S, 1, Len(w)) = w /\ (\A k \in 1..Len(w) : S[k] = w[k]) /\ w # <<>>
  BY DEF Commanded, Parted
<1>2. B = <<LF>> /\ 1 \in 1..Len(ts) /\ Off(ts, 1 - 1) = 0 /\ Off(ts, 1) = Len(S)
  <2>1. 0 \in 0..Len(ts) /\ 1 - 1 = 0
    OBVIOUS
  <2>2. Off(ts, 0) = 0 /\ Off(ts, Len(ts)) = Len(S)
    BY <1>1, <2>1, Placed
  <2>3. QED
    BY <2>1, <2>2 DEF Bytes
<1>3. Len(S) = 1 /\ S[1] = LF
  <2>1. NextAt(ts, S, 1, B, 0)
    <3>1. NextAt(ts, S, 1, B, Off(ts, 1 - 1))
      BY <1>1, <1>2, NextPlaced
    <3>2. QED
      BY <1>2, <3>1
  <2>2. Len(B) = 1 /\ B[1] = LF /\ 0 + 1 = 1 /\ 1 \in 1..1
    BY <1>2
  <2> HIDE DEF B
  <2>3. Off(ts, 1) = 0 + Len(B) /\ \A k \in 1..Len(B) : S[0 + k] = B[k]
    BY <2>1 DEF NextAt
  <2>4. QED
    BY <1>2, <2>2, <2>3
<1>4. Len(w) # 0
  <2>1. w \in Seq(Byte) /\ w # <<>>
    BY <1>1
  <2>2. QED
    BY <2>1, EmptySeq
<1>5. Len(w) = 1 /\ Len(v) = 0
  <2> DEFINE a == Len(w)
             b == Len(v)
  <2>1. a \in Nat /\ b \in Nat /\ 1 = a + b /\ a # 0
    BY <1>1, <1>3, <1>4
  <2> HIDE DEF a, b
  <2>2. a = 1 /\ b = 0
    BY <2>1
  <2>3. QED
    BY <2>2 DEF a, b
<1>6. v = <<>>
  <2>1. v \in Seq(Byte) /\ Len(v) = 0
    BY <1>1, <1>5
  <2>2. QED
    BY <2>1, EmptySeq
<1>7. w = Append(<<>>, LF)
  <2> DEFINE a == Append(<<>>, LF)
  <2>1. LF \in Byte /\ <<>> \in Seq(Byte) /\ Len(<<>>) = 0
    BY ParserAssumption, EmptySeq
  <2>2. a \in Seq(Byte) /\ Len(a) = 0 + 1 /\ a[0 + 1] = LF
    BY <2>1, AppendProperties
  <2>3. 0 + 1 = 1
    OBVIOUS
  <2> HIDE DEF a
  <2>4. \A k \in 1..Len(a) : w[k] = a[k]
    BY <1>1, <1>3, <1>5, <2>2, <2>3
  <2>5. w = a
    BY <1>1, <1>5, <2>2, <2>3, <2>4, SeqEqual
  <2>6. QED
    BY <2>5 DEF a
<1>8. ~l.ended /\ ~l.spaced /\ l.arg = <<>> /\ l.after = <<>>
  <2> DEFINE z == Line(<<>>)
  <2>1. LF \in Byte /\ <<>> \in Seq(Byte)
    BY ParserAssumption, EmptySeq
  <2>2. z = LineOf(<<>>, <<>>, FALSE, FALSE, <<>>) /\ z \in Lines
    BY <2>1, LineOfNothing, LineType
  <2>3. z.arg = <<>> /\ z.spaced = FALSE /\ z.ended = FALSE /\ z.after = <<>>
    BY <2>2 DEF LineOf
  <2>4. l = LineStep(z, LF)
    BY <1>7, <2>1, LineGrows
  <2>5. LF # CR /\ LF # SP
    BY DEF LF, CR, SP
  <2> HIDE DEF z, l
  <2>6. ~l.ended /\ l.after = z.after /\ l.arg = z.arg /\ ~l.spaced
    BY <2>1, <2>2, <2>3, <2>4, <2>5, LineStepIs
  <2>7. QED
    BY <2>3, <2>6
<1>9. Fed(m, q, l) /\ Len(l.verb) <= VerbMax
  BY DEF Commanded
<1>10. ArgMax \in Nat /\ Len(<<>>) = 0
  BY ParserAssumption, EmptySeq
<1> HIDE DEF l
<1>11. Possible(m, l)
  BY <1>8, <1>9, <1>10 DEF Possible
<1>12. q.state = "verb"
  BY <1>8, <1>9, <1>11 DEF Fed
<1>13. QED
  BY <1>6, <1>12

\* The parser of a command has come to a head's CR.
LEMMA HeadRead ==
  ASSUME NEW ts, NEW S, NEW w, NEW v, NEW m, NEW q, Commanded(ts, S, w, v, m, q),
         NEW h, NEW V, NEW A, NEW e, NEW s, HeadAt(ts, S, h, V, A, e, s)
  PROVE  Len(w) >= e /\ LineAt(Line(w), ts[h], h, V, A, e, Len(w), S)
<1> DEFINE l == Line(w)
<1>1. /\ Parted(ts, S, w, v) /\ Fed(m, q, l) /\ l \in Lines /\ Len(l.verb) <= VerbMax
      /\ ~request_is_done(q) => S = w
  BY DEF Commanded
<1>2. Len(w) \in Nat /\ e \in Nat /\ e <= Len(S) /\ Len(S) \in Nat
  <2>1. Len(w) \in Nat /\ Len(S) \in Nat
    BY <1>1 DEF Parted
  <2>2. e \in 1..Len(S)
    BY DEF HeadAt
  <2>3. QED
    BY <2>1, <2>2
<1>3. ASSUME Len(w) < e PROVE FALSE
  <2>1. ~l.ended /\ l.after = <<>> /\ Len(l.arg) <= ArgMax
    BY <1>1, <1>3, LineWithin
  <2> HIDE DEF l
  <2>2. Possible(m, l)
    BY <1>1, <2>1 DEF Possible
  <2>3. q.state \in {"verb", "arg"}
    BY <1>1, <2>1, <2>2 DEF Fed
  <2>4. S = w
    BY <1>1, <2>3 DEF request_is_done
  <2>5. QED
    BY <1>2, <1>3, <2>4
<1>4. Len(w) >= e
  BY <1>2, <1>3
<1>5. QED
  BY <1>1, <1>4, LineBehind

\* The three outcomes at a head: an error at its CR, a line that waits for its LF, or one
\* that has it.
LEMMA HeadCases ==
  ASSUME NEW ts, NEW S, NEW w, NEW v, NEW m, NEW q, Commanded(ts, S, w, v, m, q),
         NEW h, NEW V, NEW A, NEW e, NEW s, HeadAt(ts, S, h, V, A, e, s)
  PROVE  /\ ~Whole(ts[h], h, m) => q.state = "error" /\ Len(w) = e
         /\ Whole(ts[h], h, m) /\ Len(w) = e => q.state = "cr" /\ v = <<>> /\ h = Len(ts)
         /\ Whole(ts[h], h, m) /\ Len(w) # e =>
              /\ q.state = "done" /\ Kept(q, Line(w)) /\ Len(w) = e + 1 /\ Off(ts, h + 1) = e + 1
              /\ h < Len(ts) /\ ts[h + 1] = T!LF
<1> DEFINE l == Line(w)
           n == Len(w)
           u == ts[h]
           okay == l.spaced \/ StartsWithVerb(l.verb, WithoutArg[m])
<1>1. /\ Parted(ts, S, w, v) /\ Alternates(ts) /\ m \in {"READ", "ADMIN"} /\ Fed(m, q, l)
      /\ l \in Lines /\ Len(l.verb) <= VerbMax /\ (~request_is_done(q) => v = <<>> /\ S = w)
  BY DEF Commanded
<1>2. ts \in Seq(Tokens) /\ S = Spelled(ts) /\ n \in Nat /\ Len(S) \in Nat /\ n <= Len(S) /\ \A k \in 1..n : S[k] = w[k]
  <2>1. Len(v) \in Nat /\ Len(S) = n + Len(v) /\ n \in Nat
    BY <1>1 DEF Parted
  <2>2. n <= Len(S)
    BY <2>1
  <2>3. ts \in Seq(Tokens) /\ S = Spelled(ts) /\ Len(S) \in Nat /\ \A k \in 1..n : S[k] = w[k]
    BY <1>1 DEF Parted
  <2>4. QED
    BY <2>1, <2>2, <2>3
<1>3. h \in {1, 2} /\ h <= Len(ts) /\ u \in Tokens /\ u # T!LF /\ e = Off(ts, h) /\ e \in Nat /\ e <= Len(S)
  <2>1. e \in 1..Len(S) /\ e = Off(ts, h)
    BY DEF HeadAt
  <2>2. h \in {1, 2} /\ h <= Len(ts) /\ u \in Tokens /\ u # T!LF
    BY DEF HeadAt
  <2> HIDE DEF u
  <2>3. QED
    BY <1>2, <2>1, <2>2
<1>4. n >= e /\ LineAt(l, u, h, V, A, e, n, S)
  BY HeadRead
<1>5. Whole(u, h, m) <=> okay
  <2>1. V = Spelling[u.verb]
    BY DEF HeadAt
  <2>2. QED
    BY <1>1, <1>3, <1>4, <2>1, WholeIs
<1>6. /\ l.ended /\ Len(l.arg) <= ArgMax /\ l.after \in Seq(Byte)
      /\ Len(l.after) = n - e /\ (n > e => l.after[1] = S[e + 1])
  BY <1>4 DEF LineAt
<1> HIDE DEF l, n, u
<1>7. q.state \in {"error", "cr", "done"}
  BY <1>1, <1>6 DEF Fed
<1>8. q.state \in {"cr", "done"} => okay /\ Kept(q, l) /\ l.after = IF q.state = "cr" THEN <<>> ELSE <<LF>>
  BY <1>1 DEF Fed
<1>9. q.state = "error" => ~Possible(m, l) /\ (l.after # <<>> => Len(l.after) = 1 /\ okay)
  BY <1>1 DEF Fed, Prompt
<1>10. okay /\ l.after \in {<<>>, <<LF>>} => Possible(m, l)
  BY <1>1, <1>6 DEF Possible
<1> HIDE DEF okay
<1>11. ASSUME ~okay PROVE q.state = "error" /\ n = e
  <2>1. q.state = "error"
    BY <1>7, <1>8, <1>11
  <2>2. l.after = <<>>
    BY <1>9, <1>11, <2>1
  <2>3. Len(l.after) = 0
    BY <2>2, EmptySeq
  <2>4. QED
    BY <1>2, <1>3, <1>6, <2>1, <2>3
<1>12. ASSUME okay, n = e PROVE q.state = "cr" /\ v = <<>> /\ h = Len(ts)
  <2>1. l.after = <<>>
    <3>1. Len(l.after) = 0
      BY <1>2, <1>6, <1>12
    <3>2. QED
      BY <1>6, <3>1, EmptySeq
  <2>2. q.state # "error"
    BY <1>9, <1>10, <1>12, <2>1
  <2>3. q.state = "cr"
    <3>1. <<LF>> # <<>>
      OBVIOUS
    <3>2. QED
      BY <1>7, <1>8, <2>1, <2>2, <3>1
  <2>4. v = <<>> /\ S = w
    BY <1>1, <2>3 DEF request_is_done
  <2>5. h = Len(ts)
    <3>1. SUFFICES ASSUME h # Len(ts) PROVE FALSE
      OBVIOUS
    <3>2. Len(ts) \in Nat
      BY <1>2, LenProperties
    <3>3. h \in 0..Len(ts) /\ Len(ts) \in 0..Len(ts) /\ h < Len(ts)
      BY <1>3, <3>1, <3>2
    <3>4. Off(ts, h) < Off(ts, Len(ts))
      BY <1>2, <3>3, OffsGrow
    <3>5. Off(ts, Len(ts)) = Len(S)
      BY <1>2, <3>3, Placed
    <3>6. e < e
      BY <1>3, <1>12, <2>4, <3>4, <3>5 DEF n
    <3>7. QED
      BY <1>3, <3>6
  <2>6. QED
    BY <2>3, <2>4, <2>5
<1>13. ASSUME okay, n # e
       PROVE  /\ q.state = "done" /\ Kept(q, l) /\ n = e + 1 /\ Off(ts, h + 1) = e + 1
              /\ h < Len(ts) /\ ts[h + 1] = T!LF
  <2> DEFINE j == h + 1
             B == Bytes(ts[j])
  <2>1. n > e /\ Len(l.after) > 0
    BY <1>2, <1>3, <1>4, <1>6, <1>13
  <2>2. Len(ts) \in Nat /\ h # Len(ts)
    <3>1. Len(ts) \in Nat
      BY <1>2, LenProperties
    <3>2. SUFFICES ASSUME h = Len(ts) PROVE FALSE
      BY <3>1
    <3>3. Len(ts) \in 0..Len(ts)
      BY <3>1
    <3>4. e = Len(S)
      BY <1>2, <1>3, <3>2, <3>3, Placed
    <3>5. QED
      BY <1>2, <1>3, <2>1, <3>4
  <2>3. h < Len(ts) /\ h \in 1..Len(ts) - 1 /\ j \in 1..Len(ts) /\ j - 1 = h
    <3> DEFINE k == Len(ts)
    <3>1. k \in Nat /\ h \in Nat /\ h >= 1 /\ h <= k /\ h # k
      BY <1>3, <2>2
    <3> HIDE DEF k
    <3>2. h < k /\ h \in 1..k - 1 /\ j \in 1..k /\ j - 1 = h
      BY <3>1
    <3>3. QED
      BY <3>2 DEF k
  <2>4. ts[j] = T!LF
    <3>1. ts[h] = T!LF <=> ts[j] # T!LF
      BY <1>1, <2>3 DEF Alternates
    <3>2. QED
      BY <1>3, <3>1 DEF u
  <2>5. NextAt(ts, S, j, B, e)
    <3>1. NextAt(ts, S, j, B, Off(ts, j - 1))
      BY <1>2, <2>3, NextPlaced
    <3>2. QED
      BY <1>3, <2>3, <3>1
  <2>6. B = <<LF>>
    BY <2>4 DEF Bytes
  <2> HIDE DEF B, j
  <2>7. Off(ts, j) = e + 1 /\ S[e + 1] = LF
    <3>1. Len(B) = 1 /\ B[1] = LF /\ 1 \in 1..1
      BY <2>6
    <3>2. Off(ts, j) = e + Len(B) /\ \A x \in 1..Len(B) : S[e + x] = B[x]
      BY <2>5 DEF NextAt
    <3>3. QED
      BY <3>1, <3>2
  <2>8. l.after # <<>>
    <3>1. Len(<<>>) = 0
      BY EmptySeq
    <3>2. QED
      BY <2>1, <3>1
  <2>9. q.state # "cr"
    BY <1>8, <2>8
  <2>10. q.state # "error"
    <3>1. SUFFICES ASSUME q.state = "error" PROVE FALSE
      OBVIOUS
    <3>2. Len(l.after) = 1 /\ l.after[1] = LF
      BY <1>6, <1>9, <2>1, <2>7, <2>8, <3>1
    <3> DEFINE a == l.after
    <3>3. a \in Seq(Byte) /\ Len(a) = 1 /\ a[1] = LF
      BY <1>6, <3>2
    <3> HIDE DEF a
    <3>4. a = <<LF>>
      BY <3>3
    <3>5. QED
      BY <1>9, <1>10, <1>13, <3>1, <3>4 DEF a
  <2>11. q.state = "done"
    BY <1>7, <2>9, <2>10
  <2>12. Kept(q, l) /\ l.after = <<LF>>
    BY <1>8, <2>11
  <2>13. n = e + 1
    <3>1. Len(<<LF>>) = 1
      OBVIOUS
    <3>2. n - e = 1
      BY <1>6, <2>12, <3>1
    <3>3. QED
      BY <1>2, <1>3, <3>2
  <2>14. QED
    BY <2>3, <2>4, <2>7, <2>11, <2>12, <2>13 DEF j
<1>14. QED
  BY <1>5, <1>11, <1>12, <1>13 DEF l, n, u

\* A command's parsers agree on what is read of a text.
LEMMA CommandTokens ==
  ASSUME ParserInv, mode # "DATA", seen # <<>>, ~(Len(Line(seen).verb) > VerbMax),
         NEW ts \in Seq(Tokens), Alternates(ts), Spelled(ts) = seen \o rbuf
  PROVE  CommandAgrees(ts)
<1> DEFINE S == Spelled(ts)
           l == Line(seen)
           n == Len(seen)
           r == T!request_consume(T!request_parser_init, ts, T!Argless(mode))
<1>1. /\ mode \in {"READ", "ADMIN"} /\ p \in Parsers(mode) /\ seen \in Seq(Byte) /\ rbuf \in Seq(Byte)
      /\ (Fed(mode, p, l) \/ TooLong(mode, l)) /\ (~request_is_done(p) => rbuf = <<>>)
  BY DEF ParserInv, Mode, Agrees, RequestFed
<1>2. l \in Lines /\ Len(l.verb) <= VerbMax /\ Fed(mode, p, l)
  <2>1. l \in Lines
    BY <1>1, LineType
  <2>2. Len(l.verb) \in Nat /\ VerbMax \in Nat
    BY <2>1, ParserAssumption, LenProperties DEF Lines
  <2>3. QED
    BY <1>1, <2>1, <2>2 DEF TooLong
<1>3. S = Spelled(ts) /\ Parted(ts, S, seen, rbuf)
  BY <1>1, PartedIs
<1>4. ~request_is_done(p) => rbuf = <<>> /\ S = seen
  <2>1. rbuf = <<>> => S = seen
    <3>1. S = seen \o rbuf
      OBVIOUS
    <3> HIDE DEF S
    <3>2. QED
      BY <1>1, <3>1, ConcatEmptySeq
  <2>2. QED
    BY <1>1, <2>1
<1> HIDE DEF S
<1>5. Commanded(ts, S, seen, rbuf, mode, p)
  BY <1>1, <1>2, <1>3, <1>4 DEF Commanded
<1>6. ts # <<>> /\ Len(ts) \in Nat /\ Spelled(<<>>) = <<>>
  <2>1. Spelled(<<>>) = <<>>
    BY EmptySeq DEF Spelled, FlattenSeq
  <2>2. Len(seen) # 0 /\ Len(S) = Len(seen) + Len(rbuf) /\ Len(seen) \in Nat /\ Len(rbuf) \in Nat
    BY <1>1, <1>3, EmptySeq DEF Parted
  <2>3. S # <<>>
    <3>1. Len(<<>>) = 0
      BY EmptySeq
    <3>2. Len(S) # 0
      BY <2>2
    <3>3. QED
      BY <3>1, <3>2
  <2>4. QED
    BY <1>3, <2>1, <2>3, LenProperties
<1>7. SUFFICES /\ TokenState = r.p.st /\ rbuf = Spelled(r.rest)
               /\ p.state = "done" => /\ SameVerb(r.p.req.verb)
                                      /\ Text(p.arg) = (IF r.p.req.arg = T!NoArg THEN <<>> ELSE Spelling[r.p.req.arg])
  BY DEF CommandAgrees
<1>8. CASE Len(ts) = 1 /\ ts[1] = T!LF /\ T!FirstHead(ts) = 2
  <2>1. p.state = "verb" /\ rbuf = <<>>
    BY <1>5, <1>8, LFOnly
  <2>2. r.p.st = "verb" /\ r.rest = <<>>
    <3>1. 2 > Len(ts) /\ 2 \in {1, 2}
      BY <1>8
    <3>2. QED
      BY <1>6, <1>8, <3>1, CommandOutcome
  <2> HIDE DEF r
  <2>3. QED
    BY <1>6, <2>1, <2>2 DEF TokenState
<1>9. ASSUME NEW h \in {1, 2}, h <= Len(ts), ts[h] # T!LF, h = 2 => ts[1] = T!LF, T!FirstHead(ts) = h
      PROVE  /\ TokenState = r.p.st /\ rbuf = Spelled(r.rest)
             /\ p.state = "done" => /\ SameVerb(r.p.req.verb)
                                    /\ Text(p.arg) = (IF r.p.req.arg = T!NoArg THEN <<>> ELSE Spelling[r.p.req.arg])
  <2> DEFINE u == ts[h]
             V == Spelling[u.verb]
             A == Spelling[u.arg]
             e == Off(ts, h)
             s == h + Len(V)
             whole == Whole(u, h, mode)
  <2>1. HeadAt(ts, S, h, V, A, e, s)
    <3>1. HeadAt(ts, Spelled(ts), h, V, A, e, s)
      BY <1>9, HeadPlaced
    <3>2. QED
      BY <1>3, <3>1
  <2>2. V = Spelling[ts[h].verb] /\ e = Off(ts, h) /\ A = Spelling[u.arg]
    OBVIOUS
  <2> HIDE DEF V, A, e, s
  <2>3. n >= e /\ LineAt(l, u, h, V, A, e, n, S)
    BY <1>5, <2>1, HeadRead
  <2>4. /\ ~whole => p.state = "error" /\ n = e
        /\ whole /\ n = e => p.state = "cr" /\ rbuf = <<>> /\ h = Len(ts)
        /\ whole /\ n # e =>
             /\ p.state = "done" /\ Kept(p, l) /\ n = e + 1 /\ Off(ts, h + 1) = e + 1
             /\ h < Len(ts) /\ ts[h + 1] = T!LF
    BY <1>5, <2>1, HeadCases
  <2>5. /\ ~whole => r.p.st = "error" /\ r.rest = T!After(ts, h)
        /\ h = Len(ts) /\ whole => r.p.st = "cr" /\ r.rest = T!After(ts, h)
        /\ h < Len(ts) /\ whole /\ ts[h + 1] = T!LF =>
             /\ r.p.st = "done" /\ r.rest = T!After(ts, h + 1)
             /\ r.p.req.verb = Called(u, h) /\ r.p.req.arg = u.arg
    BY <1>6, <1>9, CommandOutcome
  <2> HIDE DEF r, whole
  <2>6. rbuf = SubSeq(S, n + 1, Len(S))
    BY <1>3 DEF Parted
  <2>7. ASSUME NEW j \in 0..Len(ts), Off(ts, j) = n PROVE rbuf = Spelled(T!After(ts, j))
    <3>1. Spelled(SubSeq(ts, j + 1, Len(ts))) = SubSeq(S, Off(ts, j) + 1, Len(S))
      BY <1>3, Placed
    <3>2. QED
      BY <2>6, <2>7, <3>1 DEF T!After
  <2>8. CASE ~whole
    <3>1. p.state = "error" /\ n = e /\ r.p.st = "error" /\ r.rest = T!After(ts, h)
      BY <2>4, <2>5, <2>8
    <3>2. h \in 0..Len(ts) /\ Off(ts, h) = n
      BY <1>6, <1>9, <2>2, <3>1
    <3>3. rbuf = Spelled(r.rest)
      BY <2>7, <3>1, <3>2
    <3>4. QED
      BY <3>1, <3>3 DEF TokenState
  <2>9. CASE whole /\ n = e
    <3>1. p.state = "cr" /\ r.p.st = "cr" /\ r.rest = T!After(ts, h)
      BY <2>4, <2>5, <2>9
    <3>2. h \in 0..Len(ts) /\ Off(ts, h) = n
      BY <1>6, <1>9, <2>2, <2>9
    <3>3. rbuf = Spelled(r.rest)
      BY <2>7, <3>1, <3>2
    <3>4. QED
      BY <3>1, <3>3 DEF TokenState
  <2>10. CASE whole /\ n # e
    <3>1. /\ p.state = "done" /\ Kept(p, l) /\ n = e + 1 /\ Off(ts, h + 1) = e + 1
          /\ h < Len(ts) /\ ts[h + 1] = T!LF
      BY <2>4, <2>10
    <3>2. /\ r.p.st = "done" /\ r.rest = T!After(ts, h + 1)
          /\ r.p.req.verb = Called(u, h) /\ r.p.req.arg = u.arg
      BY <2>5, <2>10, <3>1
    <3>3. rbuf = Spelled(r.rest)
      <4>1. h + 1 \in 0..Len(ts) /\ Off(ts, h + 1) = n
        BY <1>6, <1>9, <3>1
      <4>2. rbuf = Spelled(T!After(ts, h + 1))
        BY <2>7, <4>1
      <4>3. QED
        BY <3>2, <4>2
    <3>4. /\ UpToNul(l.verb) = l.verb /\ UpToNul(l.arg) = l.arg
          /\ (u.arg = T!NoArg => l.arg = <<>>) /\ (u.arg # T!NoArg => l.arg = A)
      BY <2>3 DEF LineAt
    <3>5. /\ p.verb = Filled(VerbMax, l.verb) /\ Len(l.verb) <= VerbMax
          /\ p.arg = Filled(ArgMax, l.arg) /\ Len(l.arg) <= ArgMax
      BY <3>1 DEF Kept
    <3>6. VerbMax \in Nat /\ ArgMax \in Nat /\ l.verb \in Seq(Byte) /\ l.arg \in Seq(Byte)
      BY <1>2, ParserAssumption DEF Lines
    <3>7. Text(p.verb) = l.verb /\ Text(p.arg) = l.arg
      <4> HIDE DEF l
      <4>1. Text(p.verb) = UpToNul(l.verb)
        BY <3>5, <3>6, TextOfFilled
      <4>2. Text(p.arg) = UpToNul(l.arg)
        BY <3>5, <3>6, TextOfFilled
      <4>3. QED
        BY <3>4, <4>1, <4>2
    <3>8. u \in Tokens /\ u # T!LF
      BY <2>1 DEF HeadAt
    <3>9. SameVerb(Called(u, h))
      <4> HIDE DEF l
      <4>1. V = Spelling[u.verb]
        BY <2>2
      <4> HIDE DEF u, n
      <4>2. QED
        BY <1>2, <2>3, <3>7, <3>8, <4>1, VerbIsSame
    <3>10. Text(p.arg) = IF u.arg = T!NoArg THEN <<>> ELSE Spelling[u.arg]
      BY <2>2, <3>4, <3>7
    <3>11. QED
      BY <3>1, <3>2, <3>3, <3>9, <3>10 DEF TokenState
  <2>11. QED
    BY <2>8, <2>9, <2>10
<1>10. \/ Len(ts) = 1 /\ ts[1] = T!LF /\ T!FirstHead(ts) = 2
       \/ \E h \in {1, 2} : /\ h <= Len(ts) /\ ts[h] # T!LF /\ (h = 2 => ts[1] = T!LF)
                            /\ T!FirstHead(ts) = h
  BY <1>6, HeadFound
<1> HIDE DEF r
<1>11. QED
  BY <1>8, <1>9, <1>10

\* The sessions are checked with the parsers of the code: for every text, read in whatever
\* cuts, the parser over tokens and the parser over bytes stop at the same place, in the
\* same state, with the same request or body.
THEOREM TokenParsersAgree == Spec => []TokensAgree
<1>1. ParserInv => TokensAgree
  <2> SUFFICES ASSUME ParserInv, NEW text \in SpelledTexts, text.bytes = seen \o rbuf, seen # <<>>
               PROVE  CASE mode = "DATA" -> 1 \in Dots \/ BodyAgrees(text.ts)
                        [] mode # "DATA" -> Len(Line(seen).verb) > VerbMax \/ CommandAgrees(text.ts)
    BY DEF TokensAgree
  <2> DEFINE ts == text.ts
  <2>1. ts \in Texts /\ text.bytes = Spelled(ts)
    BY DEF SpelledTexts
  <2>2. ts \in Seq(Tokens) /\ Alternates(ts)
    <3>1. ts \in BoundedSeq(Tokens, TextMax)
      BY <2>1 DEF Texts
    <3>2. BoundedSeq(Tokens, TextMax) \subseteq Seq(Tokens)
      BY SpellingAssumption DEF BoundedSeq, SeqOf
    <3>3. Alternates(ts)
      BY <2>1 DEF Texts, Alternates
    <3>4. QED
      BY <3>1, <3>2, <3>3
  <2>3. Spelled(ts) = seen \o rbuf
    BY <2>1
  <2> HIDE DEF ts
  <2>4. CASE mode = "DATA"
    BY <2>2, <2>3, <2>4, BodyTokens DEF ts
  <2>5. CASE mode # "DATA"
    BY <2>2, <2>3, <2>5, CommandTokens DEF ts
  <2>6. QED
    BY <2>4, <2>5
<1>2. QED
  BY <1>1, Invariant, PTL
=============================================================================
