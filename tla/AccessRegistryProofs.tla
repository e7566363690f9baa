------------------------- MODULE AccessRegistryProofs -------------------------
(***************************************************************************)
(* The three lists of the registry agree, and every listing the            *)
(* administrator asks for is the one promised, for every set of users,     *)
(* sizes, clocks, mocks and arguments.                                     *)
(*                                                                         *)
(* What a recursive function computes is reasoned about with a function    *)
(* that satisfies its equation (RecursionExists): the sums and selections  *)
(* of a listing, the number read of some characters, the calendar.         *)
(***************************************************************************)
EXTENDS AccessRegistry, TLAPS, SequenceTheorems, WellFoundedInduction

-----------------------------------------------------------------------------
(* Sequences.                                                              *)

\* The least element of a set of places.
LEMMA MinOfPlaces ==
  ASSUME NEW S \in SUBSET Nat, S # {}
  PROVE  Min(S) \in S /\ \A y \in S : Min(S) <= y
<1> DEFINE R == {ss \in Nat \X Nat : ss[1] < ss[2]}
<1>1. IsWellFoundedOn(R, Nat)
  BY NatLessThanWellFounded, Zenon DEF OpToRel
<1>2. PICK x \in S : \A y \in S : <<y, x>> \notin R
  BY <1>1, WFMin, Zenon
<1>3. ASSUME NEW y \in S PROVE x <= y
  <2>1. y < x => <<y, x>> \in R
    OBVIOUS
  <2>2. QED
    BY <2>1, <1>2
<1>4. QED
  BY <1>3 DEF Min

\* t, over S, is s with e inserted at a place: the rest moves up by one.
IsInserted(t, S, s, p, e) ==
  /\ t \in Seq(S) /\ Len(t) = Len(s) + 1
  /\ \A k \in 1..Len(s) + 1 : t[k] = IF k < p THEN s[k] ELSE IF k = p THEN e ELSE s[k - 1]

\* What InsertAt returns.
LEMMA InsertAtProperties ==
  ASSUME NEW S, NEW s \in Seq(S), NEW p \in 1..Len(s) + 1, NEW e \in S
  PROVE  IsInserted(InsertAt(s, p, e), S, s, p, e)
<1> DEFINE n == Len(s)
           a == SubSeq(s, 1, p - 1)
           b == SubSeq(s, p, n)
           ae == a \o <<e>>
<1>1. n \in Nat /\ p \in Int /\ p - 1 \in Int /\ \A i \in 1..n : s[i] \in S
  BY ElementOfSeq, LenProperties
<1>2. a \in Seq(S) /\ Len(a) = p - 1 /\ \A i \in 1..p - 1 : a[i] = s[i]
  <2>1. \A i \in 1..p - 1 : s[i] \in S
    BY <1>1
  <2>2. /\ a \in Seq(S) /\ Len(a) = IF 1 <= p - 1 THEN p - 1 - 1 + 1 ELSE 0
        /\ \A i \in 1..p - 1 - 1 + 1 : a[i] = s[1 + i - 1]
    BY <1>1, <2>1, SubSeqProperties
  <2>3. p - 1 - 1 + 1 = p - 1 /\ \A i \in Int : 1 + i - 1 = i
    BY <1>1
  <2>4. QED
    BY <1>1, <2>2, <2>3
<1>3. b \in Seq(S) /\ Len(b) = n - p + 1 /\ \A i \in 1..n - p + 1 : b[i] = s[p + i - 1]
  <2>1. \A i \in p..n : s[i] \in S
    BY <1>1
  <2>2. /\ b \in Seq(S) /\ Len(b) = IF p <= n THEN n - p + 1 ELSE 0
        /\ \A i \in 1..n - p + 1 : b[i] = s[p + i - 1]
    BY <1>1, <2>1, SubSeqProperties
  <2>3. QED
    BY <1>1, <2>2
<1>4. <<e>> \in Seq(S) /\ Len(<<e>>) = 1 /\ <<e>>[1] = e
  OBVIOUS
<1> HIDE DEF a, b
<1>5. ae \in Seq(S) /\ Len(ae) = p
      /\ \A i \in 1..p : ae[i] = IF i <= p - 1 THEN a[i] ELSE <<e>>[i - (p - 1)]
  <2>1. /\ ae \in Seq(S) /\ Len(ae) = Len(a) + Len(<<e>>)
        /\ \A i \in 1..Len(a) + Len(<<e>>) : ae[i] = IF i <= Len(a) THEN a[i] ELSE <<e>>[i - Len(a)]
    BY <1>2, <1>4, ConcatProperties
  <2>2. Len(a) + Len(<<e>>) = p
    BY <1>1, <1>2, <1>4
  <2>3. QED
    BY <1>2, <2>1, <2>2
<1>6. \A i \in 1..p : ae[i] = IF i < p THEN s[i] ELSE e
  <2>1. \A i \in 1..p : i <= p - 1 <=> i < p
    BY <1>1
  <2>2. p - (p - 1) = 1
    BY <1>1
  <2>3. ASSUME NEW i \in 1..p PROVE ae[i] = IF i < p THEN s[i] ELSE e
    <3>1. CASE i < p
      BY <1>2, <1>5, <2>1, <3>1
    <3>2. CASE i = p
      BY <1>4, <1>5, <2>1, <2>2, <3>2
    <3>3. i < p \/ i = p
      BY <1>1, <2>3
    <3>4. QED
      BY <3>1, <3>2, <3>3, Zenon
  <2>4. QED
    BY <2>3
<1> HIDE DEF ae
<1> DEFINE t == ae \o b
<1>7. /\ t \in Seq(S) /\ Len(t) = n + 1
      /\ \A k \in 1..n + 1 : t[k] = IF k <= p THEN ae[k] ELSE b[k - p]
  <2>1. /\ t \in Seq(S) /\ Len(t) = Len(ae) + Len(b)
        /\ \A k \in 1..Len(ae) + Len(b) : t[k] = IF k <= Len(ae) THEN ae[k] ELSE b[k - Len(ae)]
    BY <1>3, <1>5, ConcatProperties
  <2>2. Len(ae) + Len(b) = n + 1
    BY <1>1, <1>3, <1>5
  <2>3. QED
    BY <1>5, <2>1, <2>2
<1>8. InsertAt(s, p, e) = t
  BY DEF InsertAt, a, b, ae
<1> HIDE DEF t
<1>9. \A k \in 1..n + 1 : t[k] = IF k < p THEN s[k] ELSE IF k = p THEN e ELSE s[k - 1]
  <2>1. ASSUME NEW k \in 1..n + 1, k > p PROVE t[k] = s[k - 1]
    <3>1. k - p \in 1..n - p + 1 /\ p + (k - p) - 1 = k - 1
      BY <1>1, <2>1
    <3>2. t[k] = b[k - p]
      BY <1>1, <1>7, <2>1
    <3>3. QED
      BY <1>3, <3>1, <3>2
  <2>2. QED
    BY <1>1, <1>6, <1>7, <2>1
<1>10. QED
  BY <1>7, <1>8, <1>9 DEF IsInserted

-----------------------------------------------------------------------------
(* The list of users.                                                      *)

Distinct(list) == \A i, j \in DOMAIN list : list[i] = list[j] => i = j
Elements(list) == {list[i] : i \in DOMAIN list}

\* add_user keeps the users distinct and adds at most the one.
LEMMA AddUser ==
  ASSUME NEW list \in Seq(User), Distinct(list), NEW user \in User
  PROVE  /\ add_user(list, user) \in Seq(User)
         /\ Distinct(add_user(list, user))
         /\ Elements(add_user(list, user)) = Elements(list) \cup {user}
<1>1. CASE is_user_present(list, user)
  BY <1>1 DEF add_user, is_user_present, Elements
<1>2. CASE ~is_user_present(list, user)
  <2> DEFINE t == <<user>> \o list
             n == Len(list)
  <2>1. n \in Nat /\ DOMAIN list = 1..n /\ <<user>> \in Seq(User) /\ Len(<<user>>) = 1
        /\ <<user>>[1] = user
    BY LenProperties
  <2>2. /\ t \in Seq(User) /\ Len(t) = 1 + n
        /\ \A i \in 1..1 + n : t[i] = IF i <= 1 THEN <<user>>[i] ELSE list[i - 1]
    BY <2>1, ConcatProperties
  <2>3. add_user(list, user) = t
    BY <1>2 DEF add_user
  <2> HIDE DEF t
  <2>4. DOMAIN t = 1..n + 1 /\ t[1] = user /\ \A i \in 2..n + 1 : t[i] = list[i - 1]
    BY <2>1, <2>2, LenProperties
  <2>5. \A i \in 1..n : list[i] # user
    BY <1>2, <2>1 DEF is_user_present
  <2>6. Distinct(t)
    <3> SUFFICES ASSUME NEW i \in 1..n + 1, NEW j \in 1..n + 1, t[i] = t[j] PROVE i = j
      BY <2>4 DEF Distinct
    <3>1. CASE i = 1 /\ j # 1
      <4>1. j - 1 \in 1..n /\ t[j] = list[j - 1]
        BY <2>1, <2>4, <3>1
      <4>2. QED
        BY <2>4, <2>5, <3>1, <4>1
    <3>2. CASE i # 1 /\ j = 1
      <4>1. i - 1 \in 1..n /\ t[i] = list[i - 1]
        BY <2>1, <2>4, <3>2
      <4>2. QED
        BY <2>4, <2>5, <3>2, <4>1
    <3>3. CASE i # 1 /\ j # 1
      <4>1. i - 1 \in 1..n /\ j - 1 \in 1..n /\ t[i] = list[i - 1] /\ t[j] = list[j - 1]
        BY <2>1, <2>4, <3>3
      <4>2. i - 1 = j - 1
        BY <2>1, <4>1 DEF Distinct
      <4>3. QED
        BY <2>1, <4>2
    <3>4. QED
      BY <3>1, <3>2, <3>3
  <2>7. Elements(t) = Elements(list) \cup {user}
    <3>1. \A i \in 1..n : i + 1 \in 2..n + 1 /\ (i + 1) - 1 = i
      BY <2>1
    <3>2. \A i \in 2..n + 1 : i - 1 \in 1..n
      BY <2>1
    <3>3. \A i \in 1..n + 1 : i = 1 \/ i \in 2..n + 1
      BY <2>1
    <3>4. Elements(list) \cup {user} \subseteq Elements(t)
      <4>1. user \in Elements(t)
        BY <2>1, <2>4 DEF Elements
      <4>2. ASSUME NEW i \in 1..n PROVE list[i] \in Elements(t)
        <5>1. t[i + 1] = list[i] /\ i + 1 \in DOMAIN t
          BY <2>1, <2>4, <3>1
        <5>2. QED
          BY <5>1 DEF Elements
      <4>3. QED
        BY <2>1, <4>1, <4>2 DEF Elements
    <3>5. ASSUME NEW i \in 1..n + 1 PROVE t[i] \in Elements(list) \cup {user}
      BY <2>1, <2>4, <3>2, <3>3 DEF Elements
    <3>6. QED
      <4>1. DOMAIN t = 1..n + 1
        BY <2>1, <2>4
      <4>2. Elements(t) \subseteq Elements(list) \cup {user}
        BY <3>5, <4>1 DEF Elements
      <4>3. QED
        BY <3>4, <4>2, Zenon
  <2>8. QED
    BY <2>2, <2>3, <2>6, <2>7
<1>3. QED
  BY <1>1, <1>2

-----------------------------------------------------------------------------
(* Where a mail goes in the list by time: after the earlier mails, before   *)
(* those that are no earlier.                                              *)

\* The place of a mail is after the earlier mails and before the others.
LEMMA PlaceIsBetween ==
  ASSUME TypeOK, SortedByTime, NEW mail \in Mail
  PROVE  /\ PlaceByTime(mail) \in 1..Len(by_time) + 1
         /\ \A k \in 1..Len(by_time) :
              IF k < PlaceByTime(mail) THEN by_name[by_time[k]].time < mail.time
                                       ELSE by_name[by_time[k]].time >= mail.time
<1> DEFINE n == Len(by_time)
           later == {i \in 1..n : by_name[by_time[i]].time >= mail.time}
           p == PlaceByTime(mail)
<1>1. n \in Nat /\ DOMAIN by_time = 1..n /\ mail.time \in Int
  BY LenProperties DEF TypeOK, Mail
<1>2. \A k \in 1..n : by_time[k] \in DOMAIN by_name /\ by_name[by_time[k]].time \in Int
  <2>1. \A i \in DOMAIN by_name : by_name[i] \in Mail
    BY ElementOfSeq, LenProperties DEF TypeOK
  <2>2. \A k \in 1..n : by_time[k] \in DOMAIN by_name
    BY <1>1, ElementOfSeq DEF TypeOK
  <2>3. QED
    BY <2>1, <2>2 DEF Mail
<1>3. p = IF later # {} THEN Min(later) ELSE n + 1
  <2>1. SelectInSeq(by_time, LAMBDA i : by_name[i].time >= mail.time)
          = IF later # {} THEN Min(later) ELSE 0
    BY DEF SelectInSeq
  <2>2. later # {} => Min(later) # 0
    <3>1. later \in SUBSET Nat
      BY <1>1
    <3>2. later # {} => Min(later) \in later
      BY <3>1, MinOfPlaces, Zenon
    <3>3. 0 \notin later
      OBVIOUS
    <3>4. QED
      BY <3>2, <3>3, Zenon
  <2>3. QED
    BY <2>1, <2>2 DEF PlaceByTime
<1>4. CASE later = {}
  BY <1>1, <1>2, <1>3, <1>4
<1>5. CASE later # {}
  <2>1. p \in later /\ \A y \in later : p <= y
    <3>1. p = Min(later)
      BY <1>3, <1>5, Zenon
    <3>2. later \in SUBSET Nat
      BY <1>1
    <3> HIDE DEF later, p
    <3>3. QED
      BY <1>5, <3>1, <3>2, MinOfPlaces
  <2> HIDE DEF p
  <2>2. p \in 1..n /\ by_name[by_time[p]].time >= mail.time
    BY <2>1
  <2>3. ASSUME NEW k \in 1..n, k < p PROVE by_name[by_time[k]].time < mail.time
    <3>1. k \notin later
      BY <1>1, <2>1, <2>2, <2>3
    <3>2. QED
      BY <1>1, <1>2, <3>1
  <2>4. ASSUME NEW k \in 1..n, ~(k < p) PROVE by_name[by_time[k]].time >= mail.time
    <3>1. ASSUME k # p PROVE by_name[by_time[p]].time <= by_name[by_time[k]].time
      <4>1. p < k /\ p \in DOMAIN by_time /\ k \in DOMAIN by_time
        BY <1>1, <2>2, <2>4, <3>1
      <4>2. QED
        BY <4>1, Zenon DEF SortedByTime
    <3>2. QED
      BY <1>1, <1>2, <2>2, <3>1
  <2>5. QED
    BY <1>1, <2>2, <2>3, <2>4 DEF p
<1>6. QED
  BY <1>4, <1>5

-----------------------------------------------------------------------------
(* A registration keeps the lists in agreement.                            *)

\* The mails registered, with one more.
LEMMA NameAppended ==
  ASSUME TypeOK, NEW mail \in Mail, by_name' = Append(by_name, mail)
  PROVE  /\ by_name' \in Seq(Mail) /\ Len(by_name) \in Nat
         /\ DOMAIN by_name = 1..Len(by_name) /\ Len(by_name') = Len(by_name) + 1
         /\ DOMAIN by_name' = 1..Len(by_name) + 1
         /\ \A i \in 1..Len(by_name) : by_name'[i] = by_name[i] /\ by_name[i] \in Mail
         /\ by_name'[Len(by_name) + 1] = mail
<1>1. by_name \in Seq(Mail)
  BY DEF TypeOK
<1>2. Len(by_name) \in Nat /\ DOMAIN by_name = 1..Len(by_name)
      /\ \A i \in 1..Len(by_name) : by_name[i] \in Mail
  BY <1>1, ElementOfSeq, LenProperties
<1>3. /\ by_name' \in Seq(Mail) /\ Len(by_name') = Len(by_name) + 1
      /\ \A i \in 1..Len(by_name) : by_name'[i] = by_name[i]
      /\ by_name'[Len(by_name) + 1] = mail
  BY <1>1, AppendProperties
<1>4. QED
  BY <1>2, <1>3, LenProperties

\* A registered mail keeps the list by time sorted.
LEMMA RegisteredByTime ==
  ASSUME TypeOK, SortedByTime, NEW mail \in Mail, register_mail(mail)
  PROVE  by_time' \in Seq(DOMAIN by_name') /\ SortedByTime'
<1> DEFINE n == Len(by_name)
           t == by_time
           p == PlaceByTime(mail)
           new == n + 1
<1>1. /\ n \in Nat /\ DOMAIN by_name = 1..n /\ DOMAIN by_name' = 1..n + 1 /\ Len(by_name') = n + 1
      /\ \A i \in 1..n : by_name'[i] = by_name[i] /\ by_name[i].time \in Int
      /\ by_name'[new] = mail /\ mail.time \in Int
  BY NameAppended DEF register_mail, Mail
<1>2. t \in Seq(1..n) /\ Len(t) = n /\ DOMAIN t = 1..n /\ \A k \in 1..n : t[k] \in 1..n
  BY <1>1, ElementOfSeq, LenProperties DEF TypeOK, SortedByTime
<1>3. p \in 1..n + 1
      /\ \A k \in 1..n : IF k < p THEN by_name[t[k]].time < mail.time ELSE by_name[t[k]].time >= mail.time
  BY <1>2, PlaceIsBetween
<1> HIDE DEF p
<1>4. t \in Seq(1..n + 1)
  <2>1. 1..n \subseteq 1..n + 1
    BY <1>1
  <2>2. QED
    BY <1>2, <2>1, SeqMonotonic
<1>5. /\ by_time' \in Seq(1..n + 1) /\ Len(by_time') = n + 1
      /\ \A k \in 1..n + 1 : by_time'[k] = IF k < p THEN t[k] ELSE IF k = p THEN new ELSE t[k - 1]
  <2>1. by_time' = InsertAt(t, p, new)
    BY DEF register_mail, p
  <2>2. new \in 1..n + 1 /\ p \in 1..Len(t) + 1
    BY <1>1, <1>2, <1>3
  <2> DEFINE Places == 1..n + 1
  <2>3. IsInserted(InsertAt(t, p, new), Places, t, p, new)
    <3>1. t \in Seq(Places) /\ new \in Places /\ p \in 1..Len(t) + 1
      BY <1>4, <2>2
    <3> HIDE DEF new, t, Places
    <3>2. QED
      BY <3>1, InsertAtProperties
  <2>4. Len(t) = n
    BY <1>2
  <2>5. QED
    BY <2>1, <2>3, <2>4, Zenon DEF IsInserted
<1>6. DOMAIN by_time' = 1..n + 1
  BY <1>5, LenProperties
<1> DEFINE time(k) == by_name'[by_time'[k]].time
\* The times in the new list.
<1>7. \A k \in 1..n + 1 :
        /\ k < p => k \in 1..n /\ by_time'[k] = t[k] /\ time(k) = by_name[t[k]].time
        /\ k = p => by_time'[k] = new /\ time(k) = mail.time
        /\ k > p => k - 1 \in 1..n /\ by_time'[k] = t[k - 1] /\ time(k) = by_name[t[k - 1]].time
  <2> SUFFICES ASSUME NEW k \in 1..n + 1
               PROVE /\ k < p => k \in 1..n /\ by_time'[k] = t[k] /\ time(k) = by_name[t[k]].time
                     /\ k = p => by_time'[k] = new /\ time(k) = mail.time
                     /\ k > p => k - 1 \in 1..n /\ by_time'[k] = t[k - 1]
                                 /\ time(k) = by_name[t[k - 1]].time
    OBVIOUS
  <2>1. CASE k < p
    <3>1. k \in 1..n
      BY <1>1, <1>3, <2>1
    <3>2. by_time'[k] = t[k] /\ t[k] \in 1..n
      BY <1>2, <1>5, <2>1, <3>1
    <3>3. QED
      BY <1>1, <1>3, <2>1, <3>1, <3>2
  <2>2. CASE k = p
    BY <1>1, <1>3, <1>5, <2>2
  <2>3. CASE k > p
    <3>1. k - 1 \in 1..n /\ ~(k < p) /\ k # p
      BY <1>1, <1>3, <2>3
    <3>2. by_time'[k] = t[k - 1] /\ t[k - 1] \in 1..n
      BY <1>2, <1>5, <3>1
    <3>3. QED
      BY <1>1, <1>3, <2>3, <3>1, <3>2
  <2>4. QED
    BY <1>1, <1>3, <2>1, <2>2, <2>3
<1>8. ASSUME NEW j \in 1..n + 1, NEW k \in 1..n + 1, j < k PROVE time(j) <= time(k)
  <2> HIDE DEF time
  <2>1. \A i, l \in 1..n : i < l => by_name[t[i]].time <= by_name[t[l]].time
    BY <1>2 DEF SortedByTime
  <2>2. \A i \in 1..n : by_name[t[i]].time \in Int
    BY <1>1, <1>2
  <2>3. CASE j < p /\ k < p
    BY <1>7, <1>8, <2>1, <2>3
  <2>4. CASE j < p /\ k = p
    <3>1. time(j) < mail.time /\ time(k) = mail.time
      BY <1>3, <1>7, <2>4
    <3>2. time(j) \in Int
      BY <1>7, <2>2, <2>4
    <3>3. QED
      BY <1>1, <3>1, <3>2
  <2>5. CASE j < p /\ k > p
    <3>1. j \in 1..n /\ k - 1 \in 1..n /\ ~(k - 1 < p)
      BY <1>1, <1>3, <1>7, <2>5
    <3>2. by_name[t[j]].time < mail.time /\ by_name[t[k - 1]].time >= mail.time
      BY <1>3, <2>5, <3>1
    <3>3. time(j) = by_name[t[j]].time /\ time(k) = by_name[t[k - 1]].time
      BY <1>7, <2>5
    <3>4. QED
      BY <1>1, <2>2, <3>1, <3>2, <3>3
  <2>6. CASE j = p /\ k > p
    <3>1. k - 1 \in 1..n /\ ~(k - 1 < p)
      BY <1>1, <1>3, <1>7, <2>6
    <3>2. QED
      BY <1>3, <1>7, <2>6, <3>1
  <2>7. CASE j > p /\ k > p
    <3>1. j - 1 \in 1..n /\ k - 1 \in 1..n /\ j - 1 < k - 1
      BY <1>7, <1>8, <2>7
    <3>2. QED
      BY <1>7, <2>1, <2>7, <3>1
  <2>8. QED
    BY <1>1, <1>3, <1>8, <2>3, <2>4, <2>5, <2>6, <2>7
<1>9. {by_time'[k] : k \in 1..n + 1} = 1..n + 1
  <2>1. {t[k] : k \in 1..n} = 1..n
    BY <1>1, <1>2 DEF SortedByTime
  <2>2. ASSUME NEW i \in 1..n + 1 PROVE \E k \in 1..n + 1 : by_time'[k] = i
    <3>1. CASE i = new
      BY <1>3, <1>7, <3>1
    <3>2. CASE i # new
      <4>1. PICK k \in 1..n : t[k] = i
        BY <1>1, <2>1, <3>2
      <4>2. CASE k < p
        BY <1>1, <1>7, <4>1, <4>2
      <4>3. CASE ~(k < p)
        <5>1. k + 1 \in 1..n + 1 /\ k + 1 > p /\ (k + 1) - 1 = k
          BY <1>1, <1>3, <4>3
        <5>2. by_time'[k + 1] = t[k]
          BY <1>7, <5>1
        <5>3. QED
          BY <4>1, <5>1, <5>2
      <4>4. QED
        BY <4>2, <4>3
    <3>3. QED
      BY <3>1, <3>2
  <2>3. \A k \in 1..n + 1 : by_time'[k] \in 1..n + 1
    BY <1>5, ElementOfSeq
  <2>4. QED
    BY <2>2, <2>3
<1>10. QED
  <2>1. SortedByTime'
    BY <1>1, <1>5, <1>6, <1>8, <1>9 DEF SortedByTime
  <2>2. QED
    BY <1>1, <1>5, <2>1

\* A registered mail adds its correspondents.
LEMMA RegisteredUsers ==
  ASSUME TypeOK, UsersAreCorrespondents, NEW mail \in Mail, register_mail(mail)
  PROVE  users' \in Seq(User) /\ UsersAreCorrespondents'
<1> DEFINE n == Len(by_name)
           half == add_user(users, mail.from)
<1>1. users \in Seq(User) /\ Distinct(users) /\ mail.from \in User /\ mail.to \in User
  BY DEF TypeOK, UsersAreCorrespondents, Distinct, Mail
<1>2. half \in Seq(User) /\ Distinct(half) /\ Elements(half) = Elements(users) \cup {mail.from}
  BY <1>1, AddUser
<1> HIDE DEF half
<1>3. /\ users' \in Seq(User) /\ Distinct(users')
      /\ Elements(users') = (Elements(users) \cup {mail.from}) \cup {mail.to}
  <2>1. users' = add_user(half, mail.to)
    BY DEF register_mail, half
  <2>2. QED
    BY <1>1, <1>2, <2>1, AddUser
<1>4. /\ n \in Nat /\ DOMAIN by_name = 1..n /\ DOMAIN by_name' = 1..n + 1
      /\ \A i \in 1..n : by_name'[i] = by_name[i]
      /\ by_name'[n + 1] = mail
  BY NameAppended DEF register_mail
<1>5. UNION {{by_name'[i].from, by_name'[i].to} : i \in 1..n + 1}
        = (UNION {{by_name[i].from, by_name[i].to} : i \in 1..n}) \cup {mail.from, mail.to}
  <2>1. n + 1 \in 1..n + 1 /\ \A i \in 1..n : i \in 1..n + 1
    BY <1>4
  <2>2. \A i \in 1..n + 1 : i \in 1..n \/ i = n + 1
    BY <1>4
  <2>3. QED
    BY <1>4, <2>1, <2>2
<1>6. Elements(users) = UNION {{by_name[i].from, by_name[i].to} : i \in 1..n}
  BY <1>4 DEF UsersAreCorrespondents, Elements
<1>7. Elements(users') = UNION {{by_name'[i].from, by_name'[i].to} : i \in DOMAIN by_name'}
  BY <1>3, <1>4, <1>5, <1>6
<1>8. QED
  BY <1>3, <1>7 DEF UsersAreCorrespondents, Distinct, Elements

-----------------------------------------------------------------------------
(* Every step.                                                             *)

\* register_mail keeps the lists in agreement.
LEMMA RegistrationKeeps ==
  ASSUME ListsAgree, NEW mail \in Mail, register_mail(mail), UNCHANGED now
  PROVE  ListsAgree'
<1>1. by_time' \in Seq(DOMAIN by_name') /\ SortedByTime'
  BY RegisteredByTime DEF ListsAgree
<1>2. users' \in Seq(User) /\ UsersAreCorrespondents'
  BY RegisteredUsers DEF ListsAgree
<1>3. by_name' \in Seq(Mail) /\ now' \in 0..MaxTime
  BY NameAppended DEF register_mail, ListsAgree, TypeOK
<1>4. QED
  BY <1>1, <1>2, <1>3 DEF ListsAgree, TypeOK

\* Empty lists agree.
LEMMA EmptyListsAgree ==
  ASSUME Init
  PROVE  ListsAgree
<1>1. by_name = <<>> /\ by_time = <<>> /\ users = <<>> /\ now \in 0..MaxTime
  BY DEF Init
<1>2. DOMAIN <<>> = {} /\ Len(<<>>) = 0 /\ \A S : <<>> \in Seq(S)
  BY EmptySeq
<1>3. TypeOK
  BY <1>1, <1>2 DEF TypeOK
<1>4. SortedByTime
  BY <1>1, <1>2 DEF SortedByTime
<1>5. UsersAreCorrespondents
  BY <1>1, <1>2 DEF UsersAreCorrespondents
<1>6. QED
  BY <1>3, <1>4, <1>5 DEF ListsAgree

\* The clock changes no list.
LEMMA ClockKeeps ==
  ASSUME ListsAgree, now' \in 0..MaxTime, UNCHANGED <<by_name, by_time, users>>
  PROVE  ListsAgree'
<1>1. by_name' = by_name /\ by_time' = by_time /\ users' = users
  OBVIOUS
<1>2. TypeOK'
  BY <1>1, Zenon DEF ListsAgree, TypeOK
<1>3. SortedByTime'
  BY <1>1, Zenon DEF ListsAgree, SortedByTime
<1>4. UsersAreCorrespondents'
  BY <1>1, Zenon DEF ListsAgree, UsersAreCorrespondents
<1>5. QED
  BY <1>2, <1>3, <1>4 DEF ListsAgree

\* Every step keeps the lists in agreement.
LEMMA StepKeeps ==
  ASSUME ListsAgree, [Next]_vars
  PROVE  ListsAgree'
<1>1. CASE MockMail
  BY <1>1, RegistrationKeeps DEF MockMail
<1>2. CASE Deliver
  BY <1>2, RegistrationKeeps DEF Deliver
<1>3. CASE Tick
  BY <1>3, ClockKeeps DEF Tick
<1>4. CASE UNCHANGED vars
  <2>1. now' \in 0..MaxTime
    BY <1>4 DEF vars, ListsAgree, TypeOK
  <2>2. QED
    BY <1>4, <2>1, ClockKeeps DEF vars
<1>5. QED
  BY <1>1, <1>2, <1>3, <1>4 DEF Next

\* The list by time holds exactly the registered mails, in order of time, and the users
\* XFROM accepts are exactly their correspondents, each once: after any registrations,
\* with the clock going any way between them (access_registry.c's register_mail).
THEOREM RegistryListsAgree == Spec => []ListsAgree
<1>1. Init => ListsAgree
  BY EmptyListsAgree
<1>2. ListsAgree /\ [Next]_vars => ListsAgree'
  BY StepKeeps
<1>3. QED
  BY <1>1, <1>2, PTL DEF Spec

\* Induction over 0..m, for a set: the library's theorem takes an operator.
LEMMA UpTo ==
  ASSUME NEW m \in Nat, NEW K, 0 \in K, \A k \in 1..m : k - 1 \in K => k \in K
  PROVE  \A k \in 0..m : k \in K
<1> DEFINE Bad == {k \in 0..m : k \notin K}
<1> SUFFICES ASSUME Bad # {} PROVE FALSE
  OBVIOUS
<1>1. Min(Bad) \in Bad /\ \A y \in Bad : Min(Bad) <= y
  BY MinOfPlaces
<1>2. PICK k \in Bad : \A y \in Bad : k <= y
  BY <1>1
<1>3. k # 0
  BY <1>2
<1>4. k \in 1..m /\ k - 1 \in 0..m /\ ~(k <= k - 1)
  BY <1>2, <1>3
<1>5. k - 1 \notin Bad
  BY <1>2, <1>4
<1>6. QED
  BY <1>4, <1>5

\* g is, up to n, what starts with v and goes on by the functions of G.
Follows(g, n, v, G) == \A k \in 0..n : g[k] = IF k = 0 THEN v ELSE G[k][g[k - 1]]

\* A function defined by recursion over 0..m exists.
LEMMA RecursionExists ==
  ASSUME NEW m \in Nat, NEW V, NEW v \in V, NEW G \in [1..m -> [V -> V]]
  PROVE  \E g \in [0..m -> V] : Follows(g, m, v, G)
<1> USE DEF Follows
<1> DEFINE Fits(g, n) == Follows(g, n, v, G)
           K == {n \in 0..m : \E g \in [0..n -> V] : Fits(g, n)}
<1>1. 0 \in K
  <2> DEFINE g == [k \in 0..0 |-> v]
  <2>1. g \in [0..0 -> V] /\ Fits(g, 0)
    OBVIOUS
  <2> HIDE DEF g, Follows
  <2>2. QED
    BY <2>1
<1>2. ASSUME NEW n \in 1..m, n - 1 \in K PROVE n \in K
  <2>1. n - 1 \in 0..m /\ n \in 0..m /\ n \in 1..m /\ 0..n - 1 \subseteq 0..n
    OBVIOUS
  <2>2. PICK g \in [0..n - 1 -> V] : Fits(g, n - 1)
    BY <1>2, <2>1
  <2> DEFINE f == [k \in 0..n |-> IF k = n THEN G[n][g[n - 1]] ELSE g[k]]
  <2>3. g[n - 1] \in V /\ G[n] \in [V -> V] /\ \A k \in 0..n : k = n \/ k \in 0..n - 1
    BY <2>1
  <2>4. f \in [0..n -> V]
    BY <2>3
  <2>5. ASSUME NEW k \in 0..n PROVE f[k] = IF k = 0 THEN v ELSE G[k][f[k - 1]]
    <3>1. k - 1 # n /\ (k # 0 => k - 1 \in 0..n)
      OBVIOUS
    <3>2. CASE k = n
      BY <2>1, <3>1, <3>2
    <3>3. CASE k # n
      <4>1. k \in 0..n - 1
        BY <3>3
      <4>2. g[k] = IF k = 0 THEN v ELSE G[k][g[k - 1]]
        BY <2>2, <4>1
      <4>3. QED
        BY <3>1, <3>3, <4>1, <4>2
    <3>4. QED
      BY <3>2, <3>3
  <2>6. Fits(f, n)
    BY <2>5
  <2> HIDE DEF f, Follows
  <2>7. QED
    BY <2>1, <2>4, <2>6
<1> HIDE DEF K
<1>3. \A n \in 0..m : n \in K
  BY <1>1, <1>2, UpTo
<1>4. m \in K
  BY <1>3
<1>5. QED
  BY <1>4 DEF K

-----------------------------------------------------------------------------
(* Sums of the first numbers of a function.                                *)

Sums(g, w, n) == g[0] = 0 /\ \A k \in 1..n : g[k] = g[k - 1] + w[k]

\* Numbers have sums.
LEMMA SumsExist ==
  ASSUME NEW n \in Nat, NEW w \in [1..n -> Nat]
  PROVE  \E g \in [0..n -> Nat] : Sums(g, w, n)
<1> DEFINE G == [k \in 1..n |-> [v \in Nat |-> v + w[k]]]
<1>1. G \in [1..n -> [Nat -> Nat]]
  OBVIOUS
<1>2. \A k \in 1..n, v \in Nat : G[k][v] = v + w[k]
  OBVIOUS
<1> HIDE DEF G
<1>3. PICK g \in [0..n -> Nat] : Follows(g, n, 0, G)
  BY <1>1, RecursionExists
<1>4. ASSUME NEW k \in 1..n PROVE g[k] = g[k - 1] + w[k]
  <2>1. k \in 0..n /\ k # 0 /\ k - 1 \in 0..n
    OBVIOUS
  <2>2. g[k - 1] \in Nat /\ g[k] = G[k][g[k - 1]]
    BY <1>3, <2>1 DEF Follows
  <2>3. QED
    BY <1>2, <2>2
<1>5. g[0] = 0
  BY <1>3 DEF Follows
<1>6. QED
  BY <1>4, <1>5 DEF Sums

\* Equal numbers have equal sums.
LEMMA SumsAgree ==
  ASSUME NEW n \in Nat, NEW w, NEW v, \A k \in 1..n : w[k] = v[k],
         NEW g, Sums(g, w, n), NEW h, Sums(h, v, n)
  PROVE  \A k \in 0..n : g[k] = h[k]
<1> DEFINE K == {k \in 0..n : g[k] = h[k]}
<1>1. 0 \in K
  BY DEF Sums
<1>2. ASSUME NEW k \in 1..n, k - 1 \in K PROVE k \in K
  BY <1>2 DEF Sums
<1> HIDE DEF K
<1>3. \A k \in 0..n : k \in K
  BY <1>1, <1>2, UpTo
<1>4. QED
  BY <1>3 DEF K

SumTo(w, n) == (CHOOSE g \in [0..n -> Nat] : Sums(g, w, n))[n]

\* Whatever has the equation of the sums is the sum.
LEMMA SumToIs ==
  ASSUME NEW n \in Nat, NEW w \in [1..n -> Nat]
  PROVE  /\ SumTo(w, n) \in Nat
         /\ \A g : Sums(g, w, n) => g[n] = SumTo(w, n)
<1> DEFINE h == CHOOSE g \in [0..n -> Nat] : Sums(g, w, n)
<1>1. h \in [0..n -> Nat] /\ Sums(h, w, n)
  BY SumsExist, Zenon
<1> HIDE DEF h
<1>2. n \in 0..n
  OBVIOUS
<1>3. ASSUME NEW g, Sums(g, w, n) PROVE g[n] = h[n]
  BY <1>1, <1>2, <1>3, SumsAgree
<1>4. QED
  BY <1>1, <1>2, <1>3 DEF SumTo, h

-----------------------------------------------------------------------------
(* The bytes of some entries.                                              *)

\* The entries of a list have sizes.
LEMMA SizesType ==
  ASSUME TypeOK, NEW places \in Seq(DOMAIN by_name)
  PROVE  /\ \A i \in DOMAIN by_name : by_name[i].size \in Nat /\ by_name[i].size >= 1
         /\ \A j \in 1..Len(places) : places[j] \in DOMAIN by_name
         /\ Len(places) \in Nat
<1>1. \A i \in DOMAIN by_name : by_name[i] \in Mail
  BY ElementOfSeq, LenProperties DEF TypeOK
<1>2. \A i \in DOMAIN by_name : by_name[i].size \in Size
  BY <1>1 DEF Mail
<1>3. \A i \in DOMAIN by_name : by_name[i].size \in Nat /\ by_name[i].size >= 1
  <2>1. \A x \in Size : x \in Nat /\ x >= 1
    <3>1. Size \subseteq Nat \ {0}
      BY RegistryAssumption
    <3>2. QED
      BY <3>1
  <2>2. QED
    BY <1>2, <2>1
<1>4. QED
  BY <1>3, ElementOfSeq, LenProperties

\* Length is a sum of sizes.
LEMMA LengthIs ==
  ASSUME TypeOK, NEW places \in Seq(DOMAIN by_name), NEW k \in 0..Len(places),
         NEW w, w = [j \in 1..k |-> by_name[places[j]].size]
  PROVE  w \in [1..k -> Nat] /\ Length(places, k) = SumTo(w, k)
<1> DEFINE bytes[j \in 0..k] == IF j = 0 THEN 0 ELSE bytes[j - 1] + by_name[places[j]].size
           Is(f) == f = [j \in 0..k |-> IF j = 0 THEN 0 ELSE f[j - 1] + by_name[places[j]].size]
<1>1. k \in Nat /\ \A j \in 1..k : by_name[places[j]].size \in Nat
  BY SizesType
<1>2. w \in [1..k -> Nat] /\ \A j \in 1..k : w[j] = by_name[places[j]].size
  BY <1>1
<1>3. PICK g \in [0..k -> Nat] : Sums(g, w, k)
  BY <1>1, <1>2, SumsExist
<1>4. Is(g)
  <2>1. \A j \in 0..k : g[j] = IF j = 0 THEN 0 ELSE g[j - 1] + by_name[places[j]].size
    BY <1>2, <1>3 DEF Sums
  <2>2. QED
    BY <1>3, <2>1
<1>5. Is(bytes)
  <2>1. bytes = CHOOSE f : Is(f)
    BY DEF bytes
  <2> HIDE DEF Is, bytes
  <2>2. QED
    BY <1>4, <2>1
<1>6. Length(places, k) = bytes[k]
  BY DEF Length, bytes
<1> HIDE DEF bytes
<1>7. Sums(bytes, w, k)
  BY <1>1, <1>2, <1>5 DEF Sums
<1>8. QED
  BY <1>1, <1>2, <1>6, <1>7, SumToIs

\* Each entry adds its size to the length.
LEMMA LengthGrows ==
  ASSUME TypeOK, NEW places \in Seq(DOMAIN by_name)
  PROVE  /\ Length(places, 0) = 0
         /\ \A k \in 0..Len(places) : Length(places, k) \in Nat
         /\ \A k \in 1..Len(places) : Length(places, k) = Length(places, k - 1) + by_name[places[k]].size
<1> DEFINE n == Len(places)
           w == [j \in 1..n |-> by_name[places[j]].size]
<1>1. n \in Nat /\ n \in 0..n
  BY SizesType
<1>2. w \in [1..n -> Nat]
  BY <1>1, LengthIs
<1>3. PICK g \in [0..n -> Nat] : Sums(g, w, n)
  BY <1>1, <1>2, SumsExist
<1>4. ASSUME NEW k \in 0..n PROVE Length(places, k) = g[k]
  <2> DEFINE v == [j \in 1..k |-> by_name[places[j]].size]
  <2>1. k \in Nat /\ \A j \in 1..k : j \in 1..n
    BY <1>1
  <2>2. v \in [1..k -> Nat] /\ Length(places, k) = SumTo(v, k)
    BY LengthIs
  <2>3. Sums(g, v, k)
    BY <1>3, <2>1 DEF Sums
  <2> HIDE DEF v
  <2>4. QED
    BY <2>1, <2>2, <2>3, SumToIs
<1>5. \A k \in 1..n : g[k] = g[k - 1] + by_name[places[k]].size
  BY <1>3 DEF Sums
<1>6. \A k \in 1..n : k - 1 \in 0..n /\ k \in 0..n
  BY <1>1
<1>7. g[0] = 0 /\ 0 \in 0..n
  BY <1>1, <1>3 DEF Sums
<1> HIDE DEF n
<1>8. QED
  BY <1>3, <1>4, <1>5, <1>6, <1>7 DEF n

\* The first entries decide.
LEMMA LengthOfPrefix ==
  ASSUME TypeOK, NEW p \in Seq(DOMAIN by_name), NEW q \in Seq(DOMAIN by_name),
         NEW k \in 0..Len(p), k <= Len(q), \A j \in 1..k : p[j] = q[j]
  PROVE  Length(p, k) = Length(q, k)
<1> DEFINE v == [j \in 1..k |-> by_name[p[j]].size]
           w == [j \in 1..k |-> by_name[q[j]].size]
<1>1. k \in 0..Len(q)
  BY SizesType
<1>2. Length(p, k) = SumTo(v, k) /\ Length(q, k) = SumTo(w, k)
  BY <1>1, LengthIs
<1>3. v = w
  OBVIOUS
<1> HIDE DEF v, w
<1>4. QED
  BY <1>2, <1>3

-----------------------------------------------------------------------------
(* Those of some places that are in a set.                                 *)

Choosing(g, places, S) ==
  /\ g[0] = <<>>
  /\ \A k \in 1..Len(places) : g[k] = IF places[k] \in S THEN Append(g[k - 1], places[k]) ELSE g[k - 1]

\* Select goes through the places one by one.
LEMMA SelectIs ==
  ASSUME NEW D, NEW places \in Seq(D), NEW S
  PROVE  \E g \in [0..Len(places) -> Seq(D)] : Choosing(g, places, S) /\ Select(places, S) = g[Len(places)]
<1> DEFINE n == Len(places)
           V == Seq(D)
           Next1(k, v) == IF places[k] \in S THEN Append(v, places[k]) ELSE v
           G == [k \in 1..n |-> [v \in V |-> Next1(k, v)]]
           chosen[k \in 0..n] ==
             CASE k = 0 -> <<>>
               [] k > 0 /\ places[k] \in S -> Append(chosen[k - 1], places[k])
               [] OTHER -> chosen[k - 1]
           Is(f) == f = [k \in 0..n |-> CASE k = 0 -> <<>>
                                          [] k > 0 /\ places[k] \in S -> Append(f[k - 1], places[k])
                                          [] OTHER -> f[k - 1]]
<1>1. n \in Nat /\ \A k \in 1..n : places[k] \in D
  BY ElementOfSeq, LenProperties
<1>2. <<>> \in V
  BY EmptySeq
<1>3. ASSUME NEW k \in 1..n, NEW v \in V PROVE Next1(k, v) \in V
  BY <1>1, AppendProperties
<1>4. G \in [1..n -> [V -> V]]
  BY <1>3
<1>5. \A k \in 1..n, v \in V : G[k][v] = Next1(k, v)
  OBVIOUS
<1> HIDE DEF G, V
<1>6. PICK g \in [0..n -> V] : Follows(g, n, <<>>, G)
  BY <1>1, <1>2, <1>4, RecursionExists
<1>7. ASSUME NEW k \in 1..n PROVE g[k] = Next1(k, g[k - 1])
  <2>1. k \in 0..n /\ k # 0 /\ k - 1 \in 0..n
    BY <1>1
  <2>2. g[k - 1] \in V /\ g[k] = G[k][g[k - 1]]
    BY <1>6, <2>1 DEF Follows
  <2>3. QED
    BY <1>5, <2>2
<1>8. g[0] = <<>>
  BY <1>1, <1>6 DEF Follows
<1>9. Is(g)
  <2>1. ASSUME NEW k \in 0..n
        PROVE  g[k] = CASE k = 0 -> <<>>
                        [] k > 0 /\ places[k] \in S -> Append(g[k - 1], places[k])
                        [] OTHER -> g[k - 1]
    <3>1. CASE k = 0
      BY <1>8, <3>1
    <3>2. CASE k # 0
      <4>1. k \in 1..n /\ k > 0
        BY <1>1, <3>2
      <4>2. g[k] = IF places[k] \in S THEN Append(g[k - 1], places[k]) ELSE g[k - 1]
        BY <1>7, <4>1
      <4>3. QED
        BY <3>2, <4>1, <4>2
    <3>3. QED
      BY <3>1, <3>2
  <2>2. QED
    BY <1>6, <2>1
<1>10. Is(chosen)
  <2>1. chosen = CHOOSE f : Is(f)
    BY DEF chosen
  <2> HIDE DEF Is, chosen
  <2>2. QED
    BY <1>9, <2>1
<1>11. Select(places, S) = chosen[n]
  BY DEF Select, chosen
<1> HIDE DEF chosen
<1>12. \A k \in 0..n : k = 0 => chosen[k] = <<>>
  BY <1>10
<1>13. ASSUME NEW k \in 1..n PROVE chosen[k] = Next1(k, chosen[k - 1])
  <2>1. k \in 0..n /\ k > 0 /\ k # 0
    BY <1>1
  <2>2. QED
    BY <1>10, <2>1
<1>14. chosen[0] = <<>>
  BY <1>1, <1>12
<1> HIDE DEF Is
<1> DEFINE K == {k \in 0..n : chosen[k] = g[k]}
<1>15. 0 \in K
  BY <1>1, <1>8, <1>14
<1>16. ASSUME NEW k \in 1..n, k - 1 \in K PROVE k \in K
  BY <1>1, <1>7, <1>13, <1>16
<1> HIDE DEF K
<1>17. \A k \in 0..n : k \in K
  BY <1>1, <1>15, <1>16, UpTo
<1>18. chosen[n] = g[n]
  BY <1>1, <1>17 DEF K
<1>19. Choosing(g, places, S)
  BY <1>7, <1>8 DEF Choosing
<1>20. QED
  BY <1>6, <1>11, <1>18, <1>19 DEF V

Increasing(s) == \A i, j \in 1..Len(s) : i < j => s[i] < s[j]

\* Select keeps what is in the set, and an increasing order.
LEMMA SelectElements ==
  ASSUME NEW D \in SUBSET Int, NEW places \in Seq(D), NEW S
  PROVE  /\ Select(places, S) \in Seq(D)
         /\ Elements(Select(places, S)) = Elements(places) \cap S
         /\ Increasing(places) => Increasing(Select(places, S))
<1> DEFINE n == Len(places)
           First(k) == {places[j] : j \in 1..k} \cap S
<1>1. n \in Nat /\ n \in 0..n /\ DOMAIN places = 1..n /\ \A k \in 1..n : places[k] \in D
  BY ElementOfSeq, LenProperties
<1>2. PICK g \in [0..n -> Seq(D)] : Choosing(g, places, S) /\ Select(places, S) = g[n]
  BY SelectIs
<1> DEFINE K == {k \in 0..n : Elements(g[k]) = First(k) /\ (Increasing(places) => Increasing(g[k]))}
<1>3. 0 \in K
  <2>1. g[0] = <<>> /\ Len(<<>>) = 0 /\ DOMAIN <<>> = {}
    BY <1>2, EmptySeq DEF Choosing
  <2>2. Elements(g[0]) = {} /\ First(0) = {}
    BY <2>1 DEF Elements
  <2>3. Increasing(g[0])
    BY <2>1 DEF Increasing
  <2>4. QED
    BY <1>1, <2>2, <2>3
<1>4. ASSUME NEW k \in 1..n, k - 1 \in K PROVE k \in K
  <2> DEFINE s == g[k - 1]
             e == places[k]
             t == Append(s, e)
  <2>1. k \in 0..n /\ k - 1 \in 0..n /\ e \in D
    BY <1>1
  <2>2. s \in Seq(D) /\ Elements(s) = First(k - 1) /\ (Increasing(places) => Increasing(s))
    BY <1>4, <2>1
  <2>3. g[k] = IF e \in S THEN t ELSE s
    BY <1>2 DEF Choosing
  <2>4. First(k) = IF e \in S THEN First(k - 1) \cup {e} ELSE First(k - 1)
    <3>1. \A j \in 1..k : j \in 1..k - 1 \/ j = k
      BY <1>1
    <3>2. \A j \in 1..k - 1 : j \in 1..k
      BY <1>1
    <3>3. k \in 1..k
      BY <1>1
    <3>4. {places[j] : j \in 1..k} = {places[j] : j \in 1..k - 1} \cup {e}
      BY <3>1, <3>2, <3>3
    <3>5. QED
      BY <3>4
  <2> HIDE DEF First
  <2>5. CASE e \notin S
    BY <2>1, <2>2, <2>3, <2>4, <2>5
  <2>6. CASE e \in S
    <3> DEFINE m == Len(s)
    <3>1. m \in Nat /\ DOMAIN s = 1..m /\ \A i \in 1..m : s[i] \in D
      BY <2>2, ElementOfSeq, LenProperties
    <3>2. t \in Seq(D) /\ Len(t) = m + 1 /\ t[m + 1] = e /\ \A i \in 1..m : t[i] = s[i]
      BY <2>1, <2>2, AppendProperties
    <3>3. DOMAIN t = 1..m + 1
      BY <3>2, LenProperties
    <3> HIDE DEF s, t, m, e
    <3>4. \A i \in 1..m + 1 : i \in 1..m \/ i = m + 1
      BY <3>1
    <3>5. \A i \in 1..m : i \in 1..m + 1
      BY <3>1
    <3>6. m + 1 \in 1..m + 1
      BY <3>1
    <3>7. Elements(t) = Elements(s) \cup {e}
      BY <3>1, <3>2, <3>3, <3>4, <3>5, <3>6 DEF Elements
    <3>8. ASSUME Increasing(places) PROVE Increasing(t)
      <4>1. \A i \in 1..m : s[i] < e
        <5>1. ASSUME NEW i \in 1..m PROVE s[i] < e
          <6>1. s[i] \in First(k - 1)
            BY <2>2, <3>1 DEF Elements
          <6>2. PICK j \in 1..k - 1 : s[i] = places[j]
            BY <6>1 DEF First
          <6>3. j \in 1..n /\ k \in 1..n /\ j < k
            BY <1>1
          <6>4. places[j] < places[k]
            BY <3>8, <6>3 DEF Increasing
          <6>5. QED
            BY <6>2, <6>4 DEF e
        <5>2. QED
          BY <5>1
      <4>2. \A i, j \in 1..m : i < j => s[i] < s[j]
        BY <2>2, <3>8 DEF Increasing, m
      <4>3. ASSUME NEW i \in 1..m + 1, NEW j \in 1..m + 1, i < j PROVE t[i] < t[j]
        <5>1. i \in 1..m
          BY <3>1, <4>3
        <5>2. CASE j \in 1..m
          BY <3>2, <4>2, <4>3, <5>1, <5>2
        <5>3. CASE j = m + 1
          BY <3>2, <4>1, <5>1, <5>3
        <5>4. QED
          BY <3>4, <5>2, <5>3
      <4>4. QED
        BY <3>2, <4>3 DEF Increasing
    <3>9. Elements(g[k]) = First(k) /\ (Increasing(places) => Increasing(g[k]))
      BY <2>2, <2>3, <2>4, <2>6, <3>7, <3>8
    <3>10. QED
      BY <2>1, <3>9
  <2>7. QED
    BY <2>5, <2>6
<1> HIDE DEF K
<1>5. n \in K
  BY <1>1, <1>3, <1>4, UpTo
<1>6. Elements(g[n]) = First(n) /\ (Increasing(places) => Increasing(g[n]))
  BY <1>5 DEF K
<1>7. First(n) = Elements(places) \cap S
  BY <1>1 DEF Elements
<1>8. QED
  BY <1>1, <1>2, <1>6, <1>7

\* The bytes of the mails at some places that are in a set.
Total(mails, places, S) ==
  SumTo([k \in 1..Len(places) |-> IF places[k] \in S THEN mails[places[k]].size ELSE 0], Len(places))

\* The length of a selection is the bytes of its mails.
LEMMA LengthOfSelect ==
  ASSUME TypeOK, NEW places \in Seq(DOMAIN by_name), NEW S
  PROVE  Length(Select(places, S), Len(Select(places, S))) = Total(by_name, places, S)
<1> DEFINE n == Len(places)
           D == DOMAIN by_name
           w == [k \in 1..n |-> IF places[k] \in S THEN by_name[places[k]].size ELSE 0]
<1>1. n \in Nat /\ n \in 0..n /\ \A k \in 1..n : places[k] \in D /\ by_name[places[k]].size \in Nat
  BY SizesType
<1>2. w \in [1..n -> Nat] /\ \A k \in 1..n : w[k] = IF places[k] \in S THEN by_name[places[k]].size ELSE 0
  BY <1>1
<1>3. Total(by_name, places, S) = SumTo(w, n)
  BY DEF Total
<1> HIDE DEF w
<1>4. PICK g \in [0..n -> Seq(D)] : Choosing(g, places, S) /\ Select(places, S) = g[n]
  BY SelectIs
<1>5. PICK h \in [0..n -> Nat] : Sums(h, w, n)
  BY <1>1, <1>2, SumsExist
<1> DEFINE K == {k \in 0..n : Length(g[k], Len(g[k])) = h[k]}
<1>6. 0 \in K
  <2>1. g[0] = <<>> /\ h[0] = 0
    BY <1>4, <1>5 DEF Choosing, Sums
  <2>2. <<>> \in Seq(D) /\ Len(<<>>) = 0
    BY EmptySeq
  <2>3. Length(<<>>, 0) = 0
    BY <2>2, LengthGrows
  <2>4. QED
    BY <1>1, <2>1, <2>2, <2>3
<1>7. ASSUME NEW k \in 1..n, k - 1 \in K PROVE k \in K
  <2> DEFINE s == g[k - 1]
             e == places[k]
             t == Append(s, e)
             m == Len(s)
  <2>1. k \in 0..n /\ k - 1 \in 0..n /\ e \in D /\ h[k - 1] \in Nat
    <3>1. k \in 0..n /\ k - 1 \in 0..n
      BY <1>1
    <3>2. h[k - 1] \in Nat
      BY <1>5, <3>1
    <3>3. e \in D
      BY <1>1
    <3>4. QED
      BY <3>1, <3>2, <3>3
  <2>2. s \in Seq(D) /\ Length(s, m) = h[k - 1]
    BY <1>7, <2>1
  <2>3. g[k] = IF e \in S THEN t ELSE s
    BY <1>4 DEF Choosing
  <2>4. h[k] = h[k - 1] + w[k]
    BY <1>5 DEF Sums
  <2>5. CASE e \notin S
    BY <1>2, <2>1, <2>2, <2>3, <2>4, <2>5
  <2>6. CASE e \in S
    <3>1. m \in Nat
      BY <2>2, LenProperties
    <3>2. t \in Seq(D) /\ Len(t) = m + 1 /\ t[m + 1] = e /\ \A i \in 1..m : t[i] = s[i]
      BY <2>1, <2>2, AppendProperties
    <3> HIDE DEF s, t, m, e, D
    <3>3. m + 1 \in 1..Len(t) /\ (m + 1) - 1 = m /\ m \in 0..Len(s) /\ m <= Len(t)
      BY <3>1, <3>2 DEF m
    <3>4. Length(t, m + 1) = Length(t, m) + by_name[e].size
      <4>1. t \in Seq(DOMAIN by_name)
        BY <3>2 DEF D
      <4>2. Length(t, m + 1) = Length(t, (m + 1) - 1) + by_name[t[m + 1]].size
        BY <3>3, <4>1, LengthGrows
      <4>3. QED
        BY <3>2, <3>3, <4>2
    <3>5. Length(s, m) = Length(t, m)
      <4>1. s \in Seq(DOMAIN by_name) /\ t \in Seq(DOMAIN by_name)
        BY <2>2, <3>2 DEF D
      <4>2. \A i \in 1..m : s[i] = t[i]
        BY <3>2
      <4>3. QED
        BY <3>3, <4>1, <4>2, LengthOfPrefix
    <3>6. w[k] = by_name[e].size
      BY <1>2, <2>6 DEF e
    <3>7. Length(g[k], Len(g[k])) = h[k]
      BY <2>2, <2>3, <2>4, <2>6, <3>2, <3>4, <3>5, <3>6
    <3>8. QED
      BY <2>1, <3>7
  <2>7. QED
    BY <2>5, <2>6
<1> HIDE DEF K
<1>8. n \in K
  BY <1>1, <1>6, <1>7, UpTo
<1>9. h[n] = SumTo(w, n)
  BY <1>1, <1>2, <1>5, SumToIs
<1>10. QED
  BY <1>3, <1>4, <1>8, <1>9 DEF K

-----------------------------------------------------------------------------
(* The listing of a sender.                                                *)

\* The order of arrival has every mail once.
LEMMA ArrivalOrder ==
  ASSUME TypeOK
  PROVE  /\ ByArrival \in Seq(DOMAIN by_name) /\ Len(ByArrival) = Len(by_name)
         /\ DOMAIN by_name = 1..Len(by_name) /\ Len(by_name) \in Nat
         /\ \A i \in DOMAIN by_name : ByArrival[i] = i
         /\ Elements(ByArrival) = DOMAIN by_name /\ Increasing(ByArrival)
<1> DEFINE n == Len(by_name)
<1>1. n \in Nat /\ DOMAIN by_name = 1..n
  BY LenProperties DEF TypeOK
<1>2. ByArrival \in [1..n -> DOMAIN by_name] /\ \A i \in 1..n : ByArrival[i] = i
  BY <1>1 DEF ByArrival
<1>3. ByArrival \in Seq(DOMAIN by_name) /\ Len(ByArrival) = n
  BY <1>1, <1>2, IsASeq, LenProperties
<1>4. Elements(ByArrival) = 1..n
  BY <1>1, <1>2 DEF Elements
<1>5. Increasing(ByArrival)
  BY <1>2, <1>3 DEF Increasing
<1>6. QED
  BY <1>1, <1>2, <1>3, <1>4, <1>5

\* There is a longest listing with room for its terminator.
LEMMA FitExists ==
  ASSUME TypeOK, NEW sent \in Seq(DOMAIN by_name)
  PROVE  \E k \in 0..Len(sent) : /\ Length(sent, k) < Room
                                 /\ k < Len(sent) => Length(sent, k + 1) >= Room
<1> DEFINE n == Len(sent)
           Full == {k \in 0..n : k < n => Length(sent, k + 1) >= Room}
<1>1. n \in Nat /\ Room \in Nat \ {0}
  BY SizesType, RegistryAssumption
<1>2. n \in Full /\ Full \in SUBSET Nat
  BY <1>1
<1>3. Min(Full) \in Full /\ \A y \in Full : Min(Full) <= y
  BY <1>2, MinOfPlaces
<1>4. PICK k \in Full : \A y \in Full : k <= y
  BY <1>3
<1>5. k \in 0..n /\ (k < n => Length(sent, k + 1) >= Room)
  BY <1>4
<1>6. Length(sent, k) < Room
  <2>1. CASE k = 0
    BY <1>1, <2>1, LengthGrows
  <2>2. CASE k # 0
    <3>1. k - 1 \in 0..n /\ k - 1 < n /\ (k - 1) + 1 = k /\ ~(k <= k - 1)
      BY <1>1, <1>5, <2>2
    <3>2. k - 1 \notin Full
      BY <1>4, <3>1
    <3>3. ~(Length(sent, k) >= Room)
      BY <3>1, <3>2
    <3>4. Length(sent, k) \in Nat
      BY <1>5, LengthGrows
    <3>5. QED
      BY <1>1, <3>3, <3>4
  <2>3. QED
    BY <2>1, <2>2
<1>7. QED
  BY <1>5, <1>6

\* The number of entries there is room for.
LEMMA FittingIs ==
  ASSUME TypeOK, NEW sent \in Seq(DOMAIN by_name), NEW fit, fit = Fitting(sent)
  PROVE  /\ fit \in 0..Len(sent) /\ Length(sent, fit) < Room
         /\ fit < Len(sent) => Length(sent, fit + 1) >= Room
BY FitExists DEF Fitting

\* More entries have no fewer bytes.
LEMMA LengthMonotone ==
  ASSUME TypeOK, NEW places \in Seq(DOMAIN by_name), NEW j \in 0..Len(places), NEW k \in j..Len(places)
  PROVE  Length(places, j) <= Length(places, k)
<1> DEFINE n == Len(places)
           Less == {i \in 0..n : i < j \/ Length(places, j) <= Length(places, i)}
<1>1. n \in Nat /\ \A i \in 1..n : places[i] \in DOMAIN by_name
  BY SizesType, LenProperties, ElementOfSeq
<1>2. /\ \A i \in 0..n : Length(places, i) \in Nat
      /\ \A i \in 1..n : Length(places, i) = Length(places, i - 1) + by_name[places[i]].size
  BY LengthGrows
<1>3. \A i \in 1..n : by_name[places[i]].size \in Nat
  BY <1>1, SizesType
<1> HIDE DEF n
<1>4. j \in 0..n /\ k \in j..n
  BY DEF n
<1>5. 0 \in Less
  BY <1>1, <1>2, <1>4
<1>6. \A i \in 1..n : i - 1 \in Less => i \in Less
  <2> SUFFICES ASSUME NEW i \in 1..n, i - 1 \in Less PROVE i \in Less
    OBVIOUS
  <2>1. i \in 0..n /\ i - 1 \in 0..n
    BY <1>1
  <2>2. Length(places, i - 1) <= Length(places, i)
    BY <1>2, <1>3, <2>1
  <2>3. CASE i < j
    BY <2>1, <2>3
  <2>4. CASE i = j
    BY <1>2, <2>1, <2>4
  <2>5. CASE i > j
    <3>1. Length(places, j) <= Length(places, i - 1)
      BY <1>4, <2>1, <2>5
    <3>2. QED
      BY <1>2, <1>4, <2>1, <2>2, <3>1
  <2>6. QED
    BY <1>4, <2>1, <2>3, <2>4, <2>5
<1> HIDE DEF Less
<1>7. \A i \in 0..n : i \in Less
  BY <1>1, <1>5, <1>6, UpTo
<1>8. k \in 0..n /\ ~(k < j)
  BY <1>1, <1>4
<1>9. QED
  BY <1>7, <1>8 DEF Less

\* print_mails shows the oldest mails of a sender.
LEMMA SenderListed ==
  ASSUME TypeOK, NEW user, NEW shown, shown = print_mails(user).shown
  PROVE  /\ {shown[k] : k \in DOMAIN shown} \subseteq From(user)
         /\ \A i, j \in From(user) : i < j /\ Contains(shown, j) => Contains(shown, i)
         /\ Length(shown, Len(shown)) < Room
         /\ \A i \in From(user) : (\A j \in From(user) : j < i => Contains(shown, j)) /\ ~Contains(shown, i)
              => Length(shown, Len(shown)) + by_name[i].size >= Room
<1> DEFINE sent == Select(ByArrival, From(user))
           n == Len(sent)
           fit == Fitting(sent)
           D == DOMAIN by_name
<1>1. D \in SUBSET Int /\ From(user) \subseteq D
  BY ArrivalOrder DEF From
<1>2. sent \in Seq(D) /\ Elements(sent) = From(user) /\ Increasing(sent)
  <2>1. /\ ByArrival \in Seq(D) /\ Elements(ByArrival) = D /\ Increasing(ByArrival)
    BY ArrivalOrder
  <2>2. /\ sent \in Seq(D) /\ Elements(sent) = Elements(ByArrival) \cap From(user)
        /\ Increasing(ByArrival) => Increasing(sent)
    BY <1>1, <2>1, SelectElements
  <2>3. QED
    BY <1>1, <2>1, <2>2
<1>3. shown = SubSeq(sent, 1, fit)
  BY DEF print_mails, Listing
<1> HIDE DEF sent
<1>4. n \in Nat /\ DOMAIN sent = 1..n /\ \A k \in 1..n : sent[k] \in D
  BY <1>2, SizesType, LenProperties
<1>5. fit \in 0..n /\ Length(sent, fit) < Room /\ (fit < n => Length(sent, fit + 1) >= Room)
  BY <1>2, FittingIs
<1> HIDE DEF fit
<1>6. shown \in Seq(D) /\ Len(shown) = fit /\ \A k \in 1..fit : shown[k] = sent[k]
  <2>1. \A k \in 1..fit : sent[k] \in D
    BY <1>4, <1>5
  <2>2. /\ shown \in Seq(D) /\ Len(shown) = IF 1 <= fit THEN fit - 1 + 1 ELSE 0
        /\ \A k \in 1..fit - 1 + 1 : shown[k] = sent[1 + k - 1]
    BY <1>3, <1>4, <1>5, <2>1, SubSeqProperties
  <2>3. fit - 1 + 1 = fit /\ \A k \in 1..fit : 1 + k - 1 = k
    BY <1>4, <1>5
  <2>4. QED
    BY <1>4, <1>5, <2>2, <2>3
<1>7. fit \in Nat /\ fit <= n /\ DOMAIN shown = 1..fit /\ \A k \in 1..fit : k \in 1..n
  BY <1>4, <1>5, <1>6, LenProperties
<1>8. Length(shown, Len(shown)) = Length(sent, fit) /\ Length(sent, fit) \in Nat
  <2>1. fit \in 0..Len(shown) /\ fit <= Len(sent)
    BY <1>6, <1>7
  <2>2. Length(shown, fit) = Length(sent, fit)
    BY <1>2, <1>6, <2>1, LengthOfPrefix
  <2>3. Length(sent, fit) \in Nat
    BY <1>2, <1>5, LengthGrows
  <2>4. QED
    BY <1>6, <2>2, <2>3
<1>9. ASSUME NEW i \in From(user) PROVE \E a \in 1..n : sent[a] = i
  BY <1>2, <1>4 DEF Elements
<1>10. ASSUME NEW i PROVE Contains(shown, i) <=> \E a \in 1..fit : sent[a] = i
  BY <1>6 DEF Contains
<1>11. \A a, b \in 1..n : a < b => sent[a] < sent[b]
  BY <1>2 DEF Increasing
<1>12. {shown[k] : k \in DOMAIN shown} \subseteq From(user)
  BY <1>2, <1>4, <1>6, <1>7 DEF Elements
<1>13. ASSUME NEW i \in From(user), NEW j \in From(user), i < j, Contains(shown, j) PROVE Contains(shown, i)
  <2>1. PICK b \in 1..fit : sent[b] = j
    BY <1>10, <1>13
  <2>2. PICK a \in 1..n : sent[a] = i
    BY <1>9
  <2>3. b \in 1..n /\ i \in Int /\ j \in Int
    BY <1>1, <1>7
  <2>4. ~(b < a) /\ a # b
    <3>1. b < a => j < i
      BY <1>11, <2>1, <2>2, <2>3
    <3>2. QED
      BY <1>13, <2>1, <2>2, <2>3, <3>1
  <2>5. a \in 1..fit
    BY <1>4, <1>7, <2>3, <2>4
  <2>6. QED
    BY <1>10, <2>2, <2>5
<1>14. ASSUME NEW i \in From(user), \A j \in From(user) : j < i => Contains(shown, j), ~Contains(shown, i)
       PROVE  Length(sent, fit) + by_name[i].size >= Room
  <2>1. PICK a \in 1..n : sent[a] = i
    BY <1>9
  <2>2. a > fit
    BY <1>4, <1>7, <1>10, <1>14, <2>1
  <2>3. a = fit + 1
    <3> SUFFICES ASSUME a > fit + 1 PROVE FALSE
      BY <1>4, <1>7, <2>2
    <3> DEFINE j == sent[fit + 1]
    <3>1. fit + 1 \in 1..n /\ fit + 1 < a
      BY <1>4, <1>7
    <3>2. j < i /\ j \in From(user)
      BY <1>2, <1>4, <1>11, <2>1, <3>1 DEF Elements
    <3>3. PICK c \in 1..fit : sent[c] = j
      BY <1>10, <1>14, <3>2
    <3>4. c \in 1..n /\ c < fit + 1
      BY <1>7
    <3>5. sent[c] < j
      BY <1>11, <3>1, <3>4
    <3>6. j \in Int
      BY <1>1, <1>4, <3>1
    <3> HIDE DEF j
    <3>7. QED
      BY <3>3, <3>5, <3>6
  <2>4. fit < n /\ fit + 1 \in 1..n /\ (fit + 1) - 1 = fit
    BY <1>4, <1>7, <2>1, <2>3
  <2>5. Length(sent, fit + 1) = Length(sent, fit) + by_name[i].size
    <3>1. Length(sent, fit + 1) = Length(sent, (fit + 1) - 1) + by_name[sent[fit + 1]].size
      BY <1>2, <2>4, LengthGrows
    <3>2. QED
      BY <2>1, <2>3, <2>4, <3>1
  <2>6. QED
    BY <1>5, <2>4, <2>5
<1>15. QED
  BY <1>5, <1>8, <1>12, <1>13, <1>14

\* XGET ALL shows, whole, the oldest mails of a sender, and leaves out the next only
\* because it does not fit (access_registry.c's print_mails).
THEOREM SendersAreListed == Spec => []ListingOfSender
<1>1. ListsAgree => ListingOfSender
  BY SenderListed, Zenon DEF ListsAgree, ListingOfSender
<1>2. QED
  BY <1>1, RegistryListsAgree, PTL

-----------------------------------------------------------------------------
(* The same mails have the same bytes in either list.                      *)

\* more has the mails at the places D, and one at e.
HasMore(more, mails, D, e) ==
  more[e].size \in Nat /\ \A i \in D : mails[i].size \in Nat /\ more[i] = mails[i]

\* The bytes it adds to those of S.
Added(more, e, S) == IF e \in S THEN more[e].size ELSE 0

\* One mail more adds its bytes, wherever it is put.
LEMMA TotalOfInserted ==
  ASSUME NEW D, NEW mails, NEW q \in Seq(D), NEW S, NEW more, NEW e, HasMore(more, mails, D, e),
         NEW E, NEW p \in 1..Len(q) + 1, NEW t, IsInserted(t, E, q, p, e)
  PROVE  Total(more, t, S) = Total(mails, q, S) + Added(more, e, S)
<1> DEFINE n == Len(q)
           w == [k \in 1..n |-> IF q[k] \in S THEN mails[q[k]].size ELSE 0]
           v == [k \in 1..n + 1 |-> IF t[k] \in S THEN more[t[k]].size ELSE 0]
           x == IF e \in S THEN more[e].size ELSE 0
<1>0. more[e].size \in Nat /\ \A i \in D : mails[i].size \in Nat /\ more[i] = mails[i]
  BY DEF HasMore
<1>1. n \in Nat /\ \A k \in 1..n : q[k] \in D
  BY ElementOfSeq, LenProperties
<1>2. x \in Nat /\ Len(t) = n + 1
      /\ \A k \in 1..n + 1 : t[k] = IF k < p THEN q[k] ELSE IF k = p THEN e ELSE q[k - 1]
  BY <1>0 DEF IsInserted
<1>3. w \in [1..n -> Nat] /\ \A k \in 1..n : w[k] = IF q[k] \in S THEN more[q[k]].size ELSE 0
  BY <1>0, <1>1
<1>4. Total(mails, q, S) = SumTo(w, n)
  BY DEF Total
<1>5. Total(more, t, S) = SumTo(v, n + 1)
  BY <1>2 DEF Total
<1>6. \A k \in 1..n + 1 : /\ k < p => k \in 1..n /\ v[k] = w[k]
                          /\ k = p => v[k] = x
                          /\ k > p => k - 1 \in 1..n /\ v[k] = w[k - 1]
  <2>1. ASSUME NEW k \in 1..n + 1, k < p PROVE k \in 1..n /\ v[k] = w[k]
    <3>1. k \in 1..n
      BY <1>1, <2>1
    <3>2. t[k] = q[k]
      BY <1>2, <2>1
    <3>3. QED
      BY <1>3, <3>1, <3>2
  <2>2. ASSUME NEW k \in 1..n + 1, k = p PROVE v[k] = x
    <3>1. t[k] = e
      BY <1>1, <1>2, <2>2
    <3>2. QED
      BY <3>1
  <2>3. ASSUME NEW k \in 1..n + 1, k > p PROVE k - 1 \in 1..n /\ v[k] = w[k - 1]
    <3>1. k - 1 \in 1..n
      BY <1>1, <2>3
    <3>2. t[k] = q[k - 1]
      BY <1>1, <1>2, <2>3
    <3>3. QED
      BY <1>3, <3>1, <3>2
  <2> HIDE DEF v, w, x
  <2>4. QED
    BY <2>1, <2>2, <2>3
<1>7. v \in [1..n + 1 -> Nat]
  <2> HIDE DEF w, x
  <2>1. ASSUME NEW k \in 1..n + 1 PROVE v[k] \in Nat
    <3>1. k < p \/ k = p \/ k > p
      BY <1>1
    <3> HIDE DEF v
    <3>2. QED
      BY <1>2, <1>3, <1>6, <3>1
  <2>2. QED
    BY <2>1
<1> HIDE DEF w, v, x
<1>8. PICK g \in [0..n -> Nat] : Sums(g, w, n)
  BY <1>1, <1>3, SumsExist
<1> DEFINE h == [k \in 0..n + 1 |-> IF k < p THEN g[k] ELSE g[k - 1] + x]
<1>9. g[0] = 0 /\ \A k \in 1..n : g[k] = g[k - 1] + w[k]
  BY <1>8 DEF Sums
<1>10. Sums(h, v, n + 1)
  <2>1. h[0] = 0
    BY <1>1, <1>9
  <2>2. ASSUME NEW k \in 1..n + 1 PROVE h[k] = h[k - 1] + v[k]
    <3>1. CASE k < p
      <4>1. k \in 1..n /\ v[k] = w[k] /\ k \in 0..n + 1 /\ k - 1 \in 0..n + 1 /\ k - 1 < p
        BY <1>1, <1>6, <3>1
      <4>2. h[k] = g[k] /\ h[k - 1] = g[k - 1]
        BY <3>1, <4>1
      <4> HIDE DEF h
      <4>3. QED
        BY <1>9, <4>1, <4>2
    <3>2. CASE k = p
      <4>1. v[k] = x /\ k \in 0..n + 1 /\ k - 1 \in 0..n + 1 /\ k - 1 < p /\ ~(k < p)
        BY <1>1, <1>6, <3>2
      <4>2. h[k] = g[k - 1] + x /\ h[k - 1] = g[k - 1]
        BY <4>1
      <4> HIDE DEF h
      <4>3. QED
        BY <4>1, <4>2
    <3>3. CASE k > p
      <4>1. /\ k - 1 \in 1..n /\ v[k] = w[k - 1] /\ k \in 0..n + 1 /\ k - 1 \in 0..n + 1
            /\ ~(k - 1 < p) /\ ~(k < p)
        BY <1>1, <1>6, <3>3
      <4>2. h[k] = g[k - 1] + x /\ h[k - 1] = g[(k - 1) - 1] + x
        BY <4>1
      <4>3. g[k - 1] = g[(k - 1) - 1] + w[k - 1]
        BY <1>9, <4>1
      <4>4. g[(k - 1) - 1] \in Nat /\ w[k - 1] \in Nat
        <5>1. (k - 1) - 1 \in 0..n
          BY <1>1, <4>1
        <5>2. QED
          BY <1>3, <1>8, <4>1, <5>1
      <4> HIDE DEF h
      <4>5. QED
        BY <1>2, <4>1, <4>2, <4>3, <4>4
    <3>4. QED
      BY <1>1, <3>1, <3>2, <3>3
  <2> HIDE DEF h
  <2>3. QED
    BY <2>1, <2>2 DEF Sums
<1>11. h[n + 1] = g[n] + x
  <2>1. n + 1 \in 0..n + 1 /\ ~(n + 1 < p) /\ (n + 1) - 1 = n
    BY <1>1
  <2>2. QED
    BY <2>1
<1> HIDE DEF h
<1>12. h[n + 1] = SumTo(v, n + 1)
  <2> DEFINE m == n + 1
  <2>1. m \in Nat
    BY <1>1
  <2>2. v \in [1..m -> Nat] /\ Sums(h, v, m)
    BY <1>7, <1>10
  <2> HIDE DEF m
  <2>3. h[m] = SumTo(v, m)
    BY <2>1, <2>2, SumToIs
  <2>4. QED
    BY <2>3 DEF m
<1>13. g[n] = SumTo(w, n)
  BY <1>1, <1>3, <1>8, SumToIs
<1>14. QED
  BY <1>4, <1>5, <1>11, <1>12, <1>13 DEF x, Added

\* Both lists have the same bytes of any set of mails.
TotalsAgree == \A S \in SUBSET Nat : Total(by_name, by_time, S) = Total(by_name, ByArrival, S)

\* register_mail adds the same bytes to both lists.
LEMMA RegistrationKeepsTotals ==
  ASSUME ListsAgree, TotalsAgree, NEW mail \in Mail, register_mail(mail), UNCHANGED now
  PROVE  TotalsAgree'
<1> DEFINE n == Len(by_name)
           D == DOMAIN by_name
           new == n + 1
           p == PlaceByTime(mail)
<1>1. TypeOK /\ SortedByTime /\ by_name' = Append(by_name, mail)
  BY DEF ListsAgree, register_mail
<1>2. /\ n \in Nat /\ D = 1..n /\ DOMAIN by_name' = 1..n + 1 /\ Len(by_name') = n + 1
      /\ \A i \in D : by_name'[i] = by_name[i]
      /\ by_name'[new] = mail
  BY <1>1, NameAppended
<1>3. /\ \A i \in D : by_name[i].size \in Nat
      /\ by_name'[new].size \in Nat
  <2>1. \A i \in D : by_name[i].size \in Nat
    <3>1. ByArrival \in Seq(D)
      BY <1>1, ArrivalOrder
    <3>2. QED
      BY <1>1, <3>1, SizesType
  <2>2. mail.size \in Nat
    <3>1. Size \subseteq Nat
      BY RegistryAssumption
    <3>2. QED
      BY <3>1 DEF Mail
  <2>3. QED
    BY <1>2, <2>1, <2>2
<1>4. new \in 1..n + 1 /\ 1..n \subseteq 1..n + 1
  BY <1>2
<1>5. by_time \in Seq(D) /\ ByArrival \in Seq(D) /\ Len(ByArrival) = n
  BY <1>1, ArrivalOrder DEF TypeOK
<1>6. by_time \in Seq(1..n + 1) /\ ByArrival \in Seq(1..n + 1)
  BY <1>2, <1>4, <1>5, SeqMonotonic
<1>7. p \in 1..Len(by_time) + 1
  BY <1>1, PlaceIsBetween
<1>8. by_time' = InsertAt(by_time, p, new)
  BY DEF register_mail
<1> HIDE DEF p
<1>9. IsInserted(by_time', 1..n + 1, by_time, p, new)
  BY <1>4, <1>6, <1>7, <1>8, InsertAtProperties
<1>10. IsInserted(ByArrival', 1..n + 1, ByArrival, n + 1, new)
  <2>1. ByArrival' = [i \in 1..n + 1 |-> i]
    BY <1>2 DEF ByArrival
  <2>2. ByArrival' \in Seq(1..n + 1) /\ Len(ByArrival') = n + 1
    <3>1. ByArrival' \in [1..n + 1 -> 1..n + 1]
      BY <2>1
    <3>2. n + 1 \in Nat
      BY <1>2
    <3>3. QED
      BY <3>1, <3>2, IsASeq, LenProperties
  <2>3. \A k \in 1..n + 1 : ByArrival'[k] = IF k < n + 1 THEN ByArrival[k] ELSE IF k = n + 1 THEN new ELSE ByArrival[k - 1]
    <3>1. ASSUME NEW k \in 1..n + 1 PROVE k = n + 1 \/ (k < n + 1 /\ k \in D)
      BY <1>2
    <3>2. \A k \in D : ByArrival[k] = k
      BY DEF ByArrival
    <3>3. QED
      BY <2>1, <3>1, <3>2
  <2>4. QED
    BY <1>5, <2>2, <2>3 DEF IsInserted
<1> HIDE DEF new, D
<1>11. HasMore(by_name', by_name, D, new)
  BY <1>2, <1>3 DEF HasMore
<1>12. ASSUME NEW S \in SUBSET Nat
       PROVE  Total(by_name', by_time', S) = Total(by_name', ByArrival', S)
  <2> DEFINE x == Added(by_name', new, S)
  <2>1. Total(by_name', by_time', S) = Total(by_name, by_time, S) + x
    BY <1>5, <1>7, <1>9, <1>11, TotalOfInserted
  <2>2. Total(by_name', ByArrival', S) = Total(by_name, ByArrival, S) + x
    <3>1. n + 1 \in 1..Len(ByArrival) + 1
      BY <1>4, <1>5 DEF new
    <3>2. QED
      BY <1>5, <1>10, <1>11, <3>1, TotalOfInserted
  <2>3. Total(by_name, by_time, S) = Total(by_name, ByArrival, S)
    BY DEF TotalsAgree
  <2>4. QED
    BY <2>1, <2>2, <2>3
<1>13. QED
  BY <1>12 DEF TotalsAgree

\* Empty lists have no bytes.
LEMMA EmptyTotalsAgree ==
  ASSUME Init
  PROVE  TotalsAgree
<1>1. by_name = <<>> /\ by_time = <<>> /\ TypeOK
  BY EmptyListsAgree DEF Init, ListsAgree
<1>2. ByArrival = <<>>
  <2>1. ByArrival \in Seq(DOMAIN by_name) /\ Len(ByArrival) = 0
    BY <1>1, ArrivalOrder, EmptySeq
  <2>2. QED
    BY <2>1, EmptySeq
<1>3. QED
  BY <1>1, <1>2 DEF TotalsAgree

\* The bytes of any mails are the same in the order of times and in that of arrival.
THEOREM EitherListHasTheBytes == Spec => []TotalsAgree
<1>1. Init => TotalsAgree
  BY EmptyTotalsAgree
<1>2. ListsAgree /\ TotalsAgree /\ [Next]_vars => TotalsAgree'
  <2> SUFFICES ASSUME ListsAgree, TotalsAgree, [Next]_vars PROVE TotalsAgree'
    OBVIOUS
  <2>1. CASE MockMail
    BY <2>1, RegistrationKeepsTotals DEF MockMail
  <2>2. CASE Deliver
    BY <2>2, RegistrationKeepsTotals DEF Deliver
  <2>3. CASE Tick \/ UNCHANGED vars
    <3>1. by_name' = by_name /\ by_time' = by_time
      BY <2>3 DEF Tick, vars
    <3>2. ByArrival' = ByArrival
      BY <3>1 DEF ByArrival
    <3>3. QED
      BY <3>1, <3>2 DEF TotalsAgree
  <2>4. QED
    BY <2>1, <2>2, <2>3 DEF Next
<1>3. QED
  BY <1>1, <1>2, RegistryListsAgree, PTL DEF Spec

-----------------------------------------------------------------------------
(* The calendar.                                                           *)

MonthStart(month, year) ==
  LET months == <<0, 31, 59, 90, 120, 151, 181, 212, 243, 273, 304, 334>>
  IN  months[month] + (IF month > 2 /\ is_leap_year(year) THEN 1 ELSE 0)

YearStart(year) == 365 * (year - 1) + (year - 1) \div 4 - (year - 1) \div 100 + (year - 1) \div 400

YearLength(year) == 365 + (IF is_leap_year(year) THEN 1 ELSE 0)

\* The months of a year follow one another.
LEMMA MonthsAre ==
  ASSUME NEW y \in Int
  PROVE  /\ MonthStart(1, y) = 0
         /\ \A m \in 1..12 : MonthStart(m, y) \in 0..335 /\ DaysOf(m, y) \in 28..31
         /\ \A m \in 1..11 : MonthStart(m + 1, y) = MonthStart(m, y) + DaysOf(m, y)
         /\ MonthStart(12, y) + DaysOf(12, y) = YearLength(y)
<1> DEFINE leap == IF is_leap_year(y) THEN 1 ELSE 0
<1>1. /\ MonthStart(1, y) = 0 /\ MonthStart(2, y) = 31
      /\ MonthStart(3, y) = 59 + leap /\ MonthStart(4, y) = 90 + leap /\ MonthStart(5, y) = 120 + leap
      /\ MonthStart(6, y) = 151 + leap /\ MonthStart(7, y) = 181 + leap /\ MonthStart(8, y) = 212 + leap
      /\ MonthStart(9, y) = 243 + leap /\ MonthStart(10, y) = 273 + leap /\ MonthStart(11, y) = 304 + leap
      /\ MonthStart(12, y) = 334 + leap
  BY DEF MonthStart
<1>2. /\ DaysOf(2, y) = 28 + leap
      /\ \A m \in {4, 6, 9, 11} : DaysOf(m, y) = 30
      /\ \A m \in {1, 3, 5, 7, 8, 10, 12} : DaysOf(m, y) = 31
  BY DEF DaysOf, is_leap_year
<1>3. leap \in 0..1 /\ YearLength(y) = 365 + leap
  BY DEF YearLength
<1> HIDE DEF leap
<1>4. \A m \in 1..12 : m = 1 \/ m = 2 \/ m = 3 \/ m = 4 \/ m = 5 \/ m = 6 \/ m = 7 \/ m = 8 \/ m = 9
                       \/ m = 10 \/ m = 11 \/ m = 12
  OBVIOUS
<1>5. ASSUME NEW m \in 1..12 PROVE MonthStart(m, y) \in 0..335 /\ DaysOf(m, y) \in 28..31
  BY <1>1, <1>2, <1>3, <1>4
<1>6. ASSUME NEW m \in 1..11 PROVE MonthStart(m + 1, y) = MonthStart(m, y) + DaysOf(m, y)
  BY <1>1, <1>2, <1>3, <1>4
<1>7. QED
  BY <1>1, <1>2, <1>3, <1>5, <1>6

\* So do the years.
LEMMA YearsFollow ==
  ASSUME NEW y \in Int
  PROVE  /\ YearStart(y) \in Int /\ YearLength(y) \in 365..366
         /\ YearStart(y + 1) = YearStart(y) + YearLength(y)
BY DEF YearStart, YearLength, is_leap_year

\* A later year starts later.
LEMMA YearsGrow ==
  ASSUME NEW x \in Int, NEW y \in Int, x <= y
  PROVE  YearStart(x) <= YearStart(y)
BY DEF YearStart

\* Years are numbers.
LEMMA YearsAre ==
  Years \subseteq Int /\ \A y \in Years : y + 1 \in Int
BY DEF Years

At(day, month, year) == [day |-> day, month |-> month, year |-> year]

\* mktime is the start of the year and of the month, and the day.
LEMMA MktimeIs ==
  ASSUME NEW day \in Int, NEW month \in 1..12, NEW year \in Int
  PROVE  /\ mktime(At(day, month, year)) = YearStart(year) + MonthStart(month, year) + day
         /\ mktime(At(day, month, year)) \in Int
<1> DEFINE d == At(day, month, year)
           a == <<0, 31, 59, 90, 120, 151, 181, 212, 243, 273, 304, 334>>[month]
           b == IF month > 2 /\ is_leap_year(year) THEN 1 ELSE 0
<1>1. d.day = day /\ d.month = month /\ d.year = year
  BY DEF At
<1> HIDE DEF d
<1>2. mktime(d) = YearStart(year) + a + b + day
  <2> DEFINE A(m) == <<0, 31, 59, 90, 120, 151, 181, 212, 243, 273, 304, 334>>[m]
             B(m, y) == IF m > 2 /\ is_leap_year(y) THEN 1 ELSE 0
  <2>1. mktime(d) = YearStart(d.year) + A(d.month) + B(d.month, d.year) + d.day
    BY Zenon DEF mktime, YearStart
  <2>2. a = A(month) /\ b = B(month, year)
    OBVIOUS
  <2> HIDE DEF a, b, A, B
  <2>3. QED
    BY <1>1, <2>1, <2>2
<1>3. MonthStart(month, year) = a + b
  BY Zenon DEF MonthStart
<1>4. a \in Int
  <2>1. \A m \in 1..12 : m = 1 \/ m = 2 \/ m = 3 \/ m = 4 \/ m = 5 \/ m = 6 \/ m = 7 \/ m = 8 \/ m = 9
                         \/ m = 10 \/ m = 11 \/ m = 12
    OBVIOUS
  <2>2. QED
    BY <2>1
<1>5. b \in Int
  OBVIOUS
<1>6. YearStart(year) \in Int
  BY YearsFollow
<1> HIDE DEF a, b
<1>7. QED
  BY <1>2, <1>3, <1>4, <1>5, <1>6 DEF d

\* The parts of a date.
LEMMA DateParts ==
  ASSUME NEW d \in Dates
  PROVE  /\ d.day \in 1..31 /\ d.month \in 1..12 /\ d.year \in Years
         /\ d.day <= DaysOf(d.month, d.year)
         /\ d = At(d.day, d.month, d.year)
<1>1. d \in [day : 1..31, month : 1..12, year : Years] /\ d.day <= DaysOf(d.month, d.year)
  BY DEF Dates
<1>2. QED
  BY <1>1 DEF At

\* What makes a date.
LEMMA IsDate ==
  ASSUME NEW day \in 1..31, NEW month \in 1..12, NEW year \in Years, day <= DaysOf(month, year)
  PROVE  At(day, month, year) \in Dates
<1> DEFINE d == At(day, month, year)
<1>1. d \in [day : 1..31, month : 1..12, year : Years] /\ d.day = day /\ d.month = month /\ d.year = year
  BY DEF At
<1> HIDE DEF d
<1>2. d \in Dates
  BY <1>1 DEF Dates
<1>3. QED
  BY <1>2 DEF d

\* The day after a date.
LEMMA TomorrowCases ==
  ASSUME NEW day \in Int, NEW month \in Int, NEW year \in Int, NEW last \in Int,
         last = DaysOf(month, year)
  PROVE  Tomorrow(At(day, month, year))
           = IF day < last THEN At(day + 1, month, year)
             ELSE IF month < 12 THEN At(1, month + 1, year) ELSE At(1, 1, year + 1)
<1> DEFINE d == At(day, month, year)
<1>1. d.day = day /\ d.month = month /\ d.year = year
  BY DEF At
<1>2. Tomorrow(d) = CASE day < last -> [d EXCEPT !.day = day + 1]
                      [] day >= last /\ month < 12 -> [d EXCEPT !.day = 1, !.month = month + 1]
                      [] OTHER -> At(1, 1, year + 1)
  <2> HIDE DEF d
  <2>1. QED
    BY <1>1, Zenon DEF Tomorrow, At
<1>3. CASE day < last
  BY <1>2, <1>3 DEF At
<1>4. CASE ~(day < last) /\ month < 12
  <2>1. day >= last
    BY <1>4
  <2>2. QED
    BY <1>2, <1>4, <2>1 DEF At
<1>5. CASE ~(day < last) /\ ~(month < 12)
  BY <1>2, <1>5
<1>6. QED
  BY <1>3, <1>4, <1>5

\* mktime counts the days of the calendar.
LEMMA TomorrowOf ==
  ASSUME NEW day \in 1..31, NEW m \in 1..12, NEW y \in Years, day <= DaysOf(m, y),
         NEW t, t = Tomorrow(At(day, m, y))
  PROVE  /\ t.year \in Years => t \in Dates
         /\ mktime(t) = mktime(At(day, m, y)) + 1
<1> DEFINE last == DaysOf(m, y)
<1>1. y \in Int /\ y + 1 \in Int /\ m \in Int /\ day \in Int
  BY YearsAre
<1>2. last \in 28..31 /\ MonthStart(m, y) \in Int /\ YearStart(y) \in Int
  <2>1. DaysOf(m, y) \in 28..31 /\ MonthStart(m, y) \in 0..335
    BY <1>1, MonthsAre
  <2>2. YearStart(y) \in Int
    BY <1>1, YearsFollow
  <2>3. QED
    BY <2>1, <2>2
<1>3. mktime(At(day, m, y)) = YearStart(y) + MonthStart(m, y) + day
  BY <1>1, MktimeIs
<1>4. t = IF day < last THEN At(day + 1, m, y) ELSE IF m < 12 THEN At(1, m + 1, y) ELSE At(1, 1, y + 1)
  <2>1. last \in Int /\ y \in Int
    BY <1>1, <1>2
  <2>2. QED
    BY <1>1, <2>1, TomorrowCases
<1>5. day <= last
  OBVIOUS
<1>6. CASE day < last
  <2> DEFINE next == day + 1
  <2>1. next \in 1..31 /\ next <= last /\ next \in Int
    BY <1>2, <1>6
  <2>2. t = At(next, m, y)
    BY <1>4, <1>6
  <2>3. next = day + 1
    OBVIOUS
  <2> HIDE DEF next
  <2>4. t \in Dates
    BY <2>1, <2>2, IsDate
  <2>5. mktime(t) = YearStart(y) + MonthStart(m, y) + next
    BY <1>1, <2>1, <2>2, MktimeIs
  <2> HIDE DEF last
  <2>6. QED
    BY <1>1, <1>2, <1>3, <2>3, <2>4, <2>5
<1>7. CASE ~(day < last) /\ m < 12
  <2> DEFINE next == m + 1
  <2>1. next \in 1..12 /\ m \in 1..11 /\ day = last
    BY <1>2, <1>5, <1>7
  <2>2. t = At(1, next, y)
    BY <1>4, <1>7
  <2>3. MonthStart(next, y) = MonthStart(m, y) + last
    BY <1>1, <2>1, MonthsAre
  <2> HIDE DEF next
  <2>4. DaysOf(next, y) \in 28..31
    BY <1>1, <2>1, MonthsAre
  <2>5. t \in Dates
    <3>1. 1 \in 1..31 /\ 1 <= DaysOf(next, y)
      BY <2>4
    <3>2. QED
      BY <2>1, <2>2, <3>1, IsDate
  <2>6. mktime(t) = YearStart(y) + MonthStart(next, y) + 1
    <3>1. 1 \in Int
      OBVIOUS
    <3>2. QED
      BY <1>1, <2>1, <2>2, <3>1, MktimeIs
  <2> HIDE DEF last
  <2>7. QED
    BY <1>1, <1>2, <1>3, <2>1, <2>3, <2>5, <2>6
<1>8. CASE ~(day < last) /\ ~(m < 12)
  <2> DEFINE next == y + 1
  <2>1. next \in Int /\ m = 12 /\ day = last
    BY <1>1, <1>2, <1>5, <1>8
  <2>2. t = At(1, 1, next)
    BY <1>4, <1>8
  <2>3. YearStart(next) = YearStart(y) + YearLength(y) /\ YearLength(y) \in Int
    BY <1>1, YearsFollow
  <2> HIDE DEF next
  <2>5. /\ MonthStart(1, next) = 0 /\ DaysOf(1, next) \in 28..31
        /\ MonthStart(12, y) + DaysOf(12, y) = YearLength(y)
    BY <1>1, <2>1, MonthsAre
  <2>6. next \in Years => t \in Dates
    <3>1. 1 \in 1..31 /\ 1 \in 1..12 /\ 1 <= DaysOf(1, next)
      BY <2>5
    <3>2. QED
      BY <2>2, <3>1, IsDate
  <2>7. t.year = next
    BY <2>2 DEF At
  <2>8. mktime(t) = YearStart(next) + MonthStart(1, next) + 1
    <3>1. 1 \in Int /\ 1 \in 1..12
      OBVIOUS
    <3>2. QED
      BY <2>1, <2>2, <3>1, MktimeIs
  <2>9. MonthStart(m, y) + last = YearLength(y)
    BY <2>1, <2>5
  <2> HIDE DEF last
  <2>10. mktime(t) = mktime(At(day, m, y)) + 1
    BY <1>1, <1>2, <1>3, <2>1, <2>3, <2>5, <2>8, <2>9
  <2>11. QED
    BY <2>6, <2>7, <2>10
<1>9. QED
  BY <1>6, <1>7, <1>8

\* Tomorrow has the next number, and is a date in the years of the registry.
LEMMA TomorrowIs ==
  ASSUME NEW d \in Dates
  PROVE  /\ Tomorrow(d).year \in Years => Tomorrow(d) \in Dates
         /\ mktime(Tomorrow(d)) = mktime(d) + 1
         /\ mktime(d) \in Int
<1> DEFINE t == Tomorrow(d)
<1>1. PICK day \in 1..31, m \in 1..12, y \in Years : day <= DaysOf(m, y) /\ d = At(day, m, y)
  BY DateParts
<1>2. t = Tomorrow(At(day, m, y))
  BY <1>1
<1> HIDE DEF t
<1>3. (t.year \in Years => t \in Dates) /\ mktime(t) = mktime(d) + 1
  BY <1>1, <1>2, TomorrowOf
<1>4. mktime(d) \in Int
  <2>1. day \in Int /\ y \in Int
    BY YearsAre
  <2>2. QED
    BY <1>1, <2>1, MktimeIs
<1>5. QED
  BY <1>3, <1>4 DEF t

Day == [day : Int, month : Int, year : Int]

\* Tomorrow of a day, of any year.
LEMMA TomorrowType ==
  ASSUME NEW d \in Day
  PROVE  Tomorrow(d) \in Day
<1>1. PICK day \in Int, month \in Int, year \in Int : d = At(day, month, year)
  BY DEF Day, At
<1> DEFINE last == DaysOf(month, year)
<1>2. last \in Int
  BY DEF DaysOf
<1> HIDE DEF last
<1>3. Tomorrow(d) = IF day < last THEN At(day + 1, month, year)
                    ELSE IF month < 12 THEN At(1, month + 1, year) ELSE At(1, 1, year + 1)
  BY <1>1, <1>2, TomorrowCases DEF last
<1>4. /\ At(day + 1, month, year) \in Day /\ At(1, month + 1, year) \in Day
      /\ At(1, 1, year + 1) \in Day
  BY DEF Day, At
<1>5. QED
  BY <1>3, <1>4

\* A date is a day.
LEMMA DateIsDay ==
  ASSUME NEW d \in Dates
  PROVE  d \in Day
<1>1. d.day \in 1..31 /\ d.month \in 1..12 /\ d.year \in Years /\ d = At(d.day, d.month, d.year)
  BY DateParts
<1>2. PICK day \in 1..31, month \in 1..12, year \in Years : d = At(day, month, year)
  BY <1>1
<1>3. QED
  BY <1>2, YearsAre DEF At, Day

LastDay == MaxTime \div DayLength

\* The calendar has a date for each day from the first, and mktime numbers them in turn.
LEMMA CalendarIs ==
  /\ LastDay \in Nat /\ DOMAIN Calendar = 0..LastDay
  /\ mktime(FirstDay) \in Int
  /\ \A n \in 0..LastDay : Calendar[n] \in Dates /\ mktime(Calendar[n]) = mktime(FirstDay) + n
<1> DEFINE G == [n \in 1..LastDay |-> [d \in Day |-> Tomorrow(d)]]
           date[n \in 0..LastDay] == IF n = 0 THEN FirstDay ELSE Tomorrow(date[n - 1])
           Is(f) == f = [n \in 0..LastDay |-> IF n = 0 THEN FirstDay ELSE Tomorrow(f[n - 1])]
<1>1. LastDay \in Nat
  BY RegistryAssumption DEF LastDay
<1>2. FirstDay \in Dates /\ FirstDay \in Day
  <2>1. FirstDay \in Dates
    BY CalendarAssumption
  <2>2. QED
    BY <2>1, DateIsDay
<1>3. G \in [1..LastDay -> [Day -> Day]] /\ \A n \in 1..LastDay, d \in Day : G[n][d] = Tomorrow(d)
  BY TomorrowType
<1> HIDE DEF G, Day
<1>4. PICK g \in [0..LastDay -> Day] : Follows(g, LastDay, FirstDay, G)
  BY <1>1, <1>2, <1>3, RecursionExists
<1>5. Is(g)
  <2>1. ASSUME NEW n \in 0..LastDay PROVE g[n] = IF n = 0 THEN FirstDay ELSE Tomorrow(g[n - 1])
    <3>1. CASE n = 0
      BY <1>4, <3>1 DEF Follows
    <3>2. CASE n # 0
      <4>1. n \in 1..LastDay /\ n - 1 \in 0..LastDay
        BY <1>1, <3>2
      <4>2. g[n - 1] \in Day /\ g[n] = G[n][g[n - 1]]
        BY <1>4, <3>2, <4>1 DEF Follows
      <4>3. QED
        BY <1>3, <3>2, <4>1, <4>2
    <3>3. QED
      BY <3>1, <3>2
  <2>2. QED
    BY <1>4, <2>1
<1>6. Is(date)
  <2>1. date = CHOOSE f : Is(f)
    BY DEF date
  <2> HIDE DEF Is, date
  <2>2. QED
    BY <1>5, <2>1
<1>7. Calendar = date
  BY DEF Calendar, date, LastDay
<1> HIDE DEF date
<1>8. /\ DOMAIN Calendar = 0..LastDay
      /\ \A n \in 0..LastDay : Calendar[n] = IF n = 0 THEN FirstDay ELSE Tomorrow(Calendar[n - 1])
  BY <1>6, <1>7
<1> HIDE DEF Is
<1>9. \A n \in 0..LastDay : Calendar[n].year \in Years
  BY <1>8, CalendarAssumption
<1> DEFINE K == {n \in 0..LastDay : Calendar[n] \in Dates /\ mktime(Calendar[n]) = mktime(FirstDay) + n}
<1>10. mktime(FirstDay) \in Int
  BY <1>2, TomorrowIs
<1>11. 0 \in K
  <2>1. 0 \in 0..LastDay
    BY <1>1
  <2>2. Calendar[0] = FirstDay
    BY <1>8, <2>1
  <2>3. QED
    BY <1>2, <1>10, <2>1, <2>2
<1>12. ASSUME NEW n \in 1..LastDay, n - 1 \in K PROVE n \in K
  <2> DEFINE d == Calendar[n - 1]
             t == Calendar[n]
  <2>1. n \in 0..LastDay /\ n # 0 /\ n \in Int
    BY <1>1
  <2>2. d \in Dates /\ mktime(d) = mktime(FirstDay) + (n - 1)
    BY <1>12
  <2>3. t = Tomorrow(d) /\ t.year \in Years
    BY <1>8, <1>9, <2>1
  <2> HIDE DEF d, t
  <2>4. t \in Dates /\ mktime(t) = mktime(d) + 1
    BY <2>2, <2>3, TomorrowIs
  <2>5. mktime(t) = mktime(FirstDay) + n
    BY <1>10, <2>1, <2>2, <2>4
  <2>6. QED
    BY <2>1, <2>4, <2>5 DEF t
<1> HIDE DEF K
<1>13. \A n \in 0..LastDay : n \in K
  BY <1>1, <1>11, <1>12, UpTo
<1>14. QED
  BY <1>1, <1>8, <1>10, <1>13 DEF K

\* The clock shows a day of the calendar.
LEMMA DayOfTime ==
  ASSUME NEW time \in 0..MaxTime
  PROVE  time \div DayLength \in 0..LastDay
<1>1. MaxTime \in Nat /\ DayLength \in Nat /\ DayLength > 0 /\ time \in Nat /\ time <= MaxTime
  BY RegistryAssumption
<1>2. QED
  BY <1>1 DEF LastDay

\* A listing runs over only when its entries do not fit.
LEMMA OverrunIsFull ==
  ASSUME TypeOK, NEW places \in Seq(DOMAIN by_name), Unbounded(places).kind = "overrun"
  PROVE  places # <<>> /\ Length(places, Len(places)) > Room
<1> DEFINE n == Len(places)
<1>1. places # <<>> /\ Length(places, n - 1) > Room
  <2>1. /\ Uninitialised.kind = "uninitialised"
        /\ \A s : Listing(s).kind = "listing"
    BY DEF Uninitialised, Listing
  <2>2. places # <<>>
    BY <2>1 DEF Unbounded
  <2>3. CASE ~(Length(places, n - 1) > Room)
    BY <2>1, <2>2, <2>3 DEF Unbounded
  <2>4. QED
    BY <2>2, <2>3
<1>2. n \in Nat /\ n # 0 /\ \A k \in 1..n : places[k] \in DOMAIN by_name
  BY <1>1, SizesType, EmptySeq
<1>3. n \in 1..n /\ n - 1 \in 0..n
  BY <1>2
<1>4. Length(places, n) = Length(places, n - 1) + by_name[places[n]].size /\ Length(places, n - 1) \in Nat
  BY <1>3, LengthGrows
<1>5. by_name[places[n]].size \in Nat
  BY <1>2, <1>3, SizesType
<1>6. Room \in Nat
  BY RegistryAssumption
<1> HIDE DEF n
<1>7. Length(places, n) > Room
  BY <1>1, <1>4, <1>5, <1>6
<1>8. QED
  BY <1>1, <1>7 DEF n

\* localtime numbers the days as the calendar does.
LEMMA LocaltimeIs ==
  ASSUME TypeOK, NEW i \in DOMAIN by_name
  PROVE  /\ by_name[i].time \div DayLength \in 0..LastDay
         /\ localtime(by_name[i].time) = mktime(FirstDay) + by_name[i].time \div DayLength
<1> DEFINE time == by_name[i].time
<1>1. time \in 0..MaxTime
  <2>1. by_name[i] \in Mail
    BY ElementOfSeq, LenProperties DEF TypeOK
  <2>2. QED
    BY <2>1 DEF Mail
<1> HIDE DEF time
<1>2. time \div DayLength \in 0..LastDay /\ localtime(time) = mktime(FirstDay) + time \div DayLength
  BY <1>1, DayOfTime DEF localtime
<1>3. QED
  BY <1>2 DEF time

\* An overrun is of a day of the calendar with more mails than there is room for.
LEMMA FullDay ==
  ASSUME ListsAgree, TotalsAgree, NEW user, NEW day,
         print_mails_by_day(day, user).kind = "overrun"
  PROVE  \E n \in DOMAIN Calendar :
           LET mails == Select(ByArrival, {i \in Of(user) : by_name[i].time \div DayLength = n})
           IN  Length(mails, Len(mails)) > Room
<1> DEFINE S == {i \in Of(user) : localtime(by_name[i].time) = day}
           D == DOMAIN by_name
           listed == Select(by_time, S)
<1>1. TypeOK /\ TotalsAgree /\ by_time \in Seq(D) /\ ByArrival \in Seq(D) /\ D \in SUBSET Int
  BY ArrivalOrder DEF ListsAgree, TypeOK
<1>2. S \in SUBSET Nat /\ S \subseteq D
  BY <1>1, ArrivalOrder DEF Of
<1>3. listed \in Seq(D) /\ Elements(listed) = Elements(by_time) \cap S
  BY <1>1, SelectElements
<1>4. listed # <<>> /\ Length(listed, Len(listed)) > Room
  <2>1. Unbounded(listed).kind = "overrun"
    BY DEF print_mails_by_day
  <2> HIDE DEF listed
  <2>2. QED
    BY <1>1, <1>3, <2>1, OverrunIsFull
<1>5. PICK i \in S : TRUE
  <2>1. Len(listed) \in Nat /\ Len(listed) # 0
    <3> HIDE DEF listed
    <3>1. QED
      BY <1>3, <1>4, EmptySeq, LenProperties
  <2>2. listed[1] \in Elements(listed)
    <3> HIDE DEF listed
    <3>1. DOMAIN listed = 1..Len(listed) /\ 1 \in 1..Len(listed)
      BY <1>3, <2>1, LenProperties
    <3>2. QED
      BY <3>1 DEF Elements
  <2>3. QED
    BY <1>3, <2>2
<1> DEFINE n == by_name[i].time \div DayLength
           T == {j \in Of(user) : by_name[j].time \div DayLength = n}
           mails == Select(ByArrival, T)
<1>6. n \in DOMAIN Calendar /\ mktime(FirstDay) \in Int /\ day = mktime(FirstDay) + n /\ n \in Int
  <2>1. i \in D /\ localtime(by_name[i].time) = day
    BY <1>2
  <2>2. n \in 0..LastDay /\ localtime(by_name[i].time) = mktime(FirstDay) + n
    BY <1>1, <2>1, LocaltimeIs
  <2> HIDE DEF n
  <2>3. QED
    BY <2>1, <2>2, CalendarIs
<1>7. S = T
  <2> HIDE DEF n
  <2>1. ASSUME NEW j \in D
        PROVE  localtime(by_name[j].time) = day <=> by_name[j].time \div DayLength = n
    <3> DEFINE m == by_name[j].time \div DayLength
    <3>1. m \in 0..LastDay /\ localtime(by_name[j].time) = mktime(FirstDay) + m
      <4>1. j \in DOMAIN by_name
        OBVIOUS
      <4>2. QED
        BY <1>1, <4>1, LocaltimeIs
    <3>2. LastDay \in Nat
      BY CalendarIs
    <3>3. m \in Int
      BY <3>1, <3>2
    <3> HIDE DEF m
    <3>4. localtime(by_name[j].time) = day <=> m = n
      <4> DEFINE f == mktime(FirstDay)
      <4>1. f \in Int /\ day = f + n /\ localtime(by_name[j].time) = f + m /\ n \in Int
        BY <1>6, <3>1
      <4> HIDE DEF f
      <4>2. QED
        BY <3>3, <4>1
    <3>5. QED
      BY <3>4 DEF m
  <2>2. Of(user) \subseteq D
    BY DEF Of
  <2>3. QED
    BY <2>1, <2>2
<1> HIDE DEF n, S, T
<1>8. Length(mails, Len(mails)) = Total(by_name, ByArrival, T)
  BY <1>1, LengthOfSelect
<1>9. Length(listed, Len(listed)) = Total(by_name, by_time, S)
  BY <1>1, LengthOfSelect
<1>10. Total(by_name, by_time, S) = Total(by_name, ByArrival, S)
  BY <1>2 DEF TotalsAgree
<1>11. Length(mails, Len(mails)) > Room
  BY <1>4, <1>7, <1>8, <1>9, <1>10
<1>12. QED
  BY <1>6, <1>11 DEF n, T

\* Nothing is written outside temp_buf by XGET with a date unless the mails of one day
\* need more than it has (access_registry.c's print_mails_by_day).
THEOREM OverrunsNeedFullDays == Spec => []OverrunNeedsFullDay
<1>1. ListsAgree /\ TotalsAgree => OverrunNeedsFullDay
  BY FullDay, Zenon DEF OverrunNeedsFullDay, xget
<1>2. QED
  BY <1>1, RegistryListsAgree, EitherListHasTheBytes, PTL

-----------------------------------------------------------------------------
(* What is read of an argument.                                            *)

Reads(g, arg, first, n) == g[0] = 0 /\ \A k \in 1..n : g[k] = 10 * g[k - 1] + arg[first + k - 1]

\* Number goes through the characters one by one.
LEMMA NumberIs ==
  ASSUME NEW n \in Nat, NEW first \in Int, NEW arg, \A k \in 1..n : arg[first + k - 1] \in Int
  PROVE  \E g \in [0..n -> Int] : Reads(g, arg, first, n) /\ Number(arg, first, n) = g[n]
<1> DEFINE Char(k) == arg[first + k - 1]
           G == [k \in 1..n |-> [v \in Int |-> 10 * v + Char(k)]]
           read[k \in 0..n] == IF k = 0 THEN 0 ELSE 10 * read[k - 1] + arg[first + k - 1]
           Is(f) == f = [k \in 0..n |-> IF k = 0 THEN 0 ELSE 10 * f[k - 1] + arg[first + k - 1]]
<1>1. G \in [1..n -> [Int -> Int]] /\ \A k \in 1..n, v \in Int : G[k][v] = 10 * v + Char(k)
  <2>1. \A k \in 1..n : Char(k) \in Int
    OBVIOUS
  <2> HIDE DEF Char
  <2>2. QED
    BY <2>1
<1> HIDE DEF G
<1>2. PICK g \in [0..n -> Int] : Follows(g, n, 0, G)
  <2> DEFINE V == Int
  <2>1. 0 \in V /\ G \in [1..n -> [V -> V]]
    BY <1>1
  <2> HIDE DEF V
  <2>2. \E g \in [0..n -> V] : Follows(g, n, 0, G)
    BY <2>1, RecursionExists
  <2>3. QED
    BY <2>2 DEF V
<1>3. ASSUME NEW k \in 1..n PROVE g[k] = 10 * g[k - 1] + Char(k)
  <2>1. k \in 0..n /\ k # 0 /\ k - 1 \in 0..n
    OBVIOUS
  <2>2. g[k - 1] \in Int /\ g[k] = G[k][g[k - 1]]
    BY <1>2, <2>1 DEF Follows
  <2>3. QED
    BY <1>1, <2>2
<1>4. g[0] = 0
  BY <1>2 DEF Follows
<1>5. Is(g)
  <2>1. \A k \in 0..n : g[k] = IF k = 0 THEN 0 ELSE 10 * g[k - 1] + arg[first + k - 1]
    BY <1>3, <1>4
  <2>2. QED
    BY <1>2, <2>1
<1>6. Is(read)
  <2>1. read = CHOOSE f : Is(f)
    BY DEF read
  <2> HIDE DEF Is, read
  <2>2. QED
    BY <1>5, <2>1
<1>7. Number(arg, first, n) = read[n]
  BY DEF Number, read
<1> HIDE DEF read
<1>8. \A k \in 0..n : read[k] = IF k = 0 THEN 0 ELSE 10 * read[k - 1] + arg[first + k - 1]
  BY <1>6
<1> HIDE DEF Is
<1> DEFINE K == {k \in 0..n : read[k] = g[k]}
<1>9. 0 \in K
  BY <1>4, <1>8
<1>10. ASSUME NEW k \in 1..n, k - 1 \in K PROVE k \in K
  <2>1. k \in 0..n /\ k # 0
    OBVIOUS
  <2>2. QED
    BY <1>3, <1>8, <1>10, <2>1
<1> HIDE DEF K
<1>11. n \in K
  <2>1. \A k \in 0..n : k \in K
    BY <1>9, <1>10, UpTo
  <2>2. QED
    BY <2>1
<1>12. Reads(g, arg, first, n)
  BY <1>3, <1>4 DEF Reads
<1>13. QED
  BY <1>7, <1>11, <1>12 DEF K

\* The number of one character.
LEMMA NumberOfOne ==
  ASSUME NEW arg, NEW first \in Int, arg[first] \in Int
  PROVE  Number(arg, first, 1) = arg[first]
<1>1. \A k \in 1..1 : first + k - 1 = first
  OBVIOUS
<1>2. PICK g \in [0..1 -> Int] : Reads(g, arg, first, 1) /\ Number(arg, first, 1) = g[1]
  BY <1>1, NumberIs
<1>3. g[0] = 0 /\ g[1] = 10 * g[0] + arg[first]
  BY <1>1, <1>2 DEF Reads
<1>4. QED
  BY <1>2, <1>3

\* The number of two characters.
LEMMA NumberOfTwo ==
  ASSUME NEW arg, NEW first \in Int, arg[first] \in Int, arg[first + 1] \in Int
  PROVE  Number(arg, first, 2) = 10 * arg[first] + arg[first + 1]
<1> DEFINE a == arg[first]
           b == arg[first + 1]
<1>1. \A k \in 1..2 : first + k - 1 = first \/ first + k - 1 = first + 1
  OBVIOUS
<1>2. PICK g \in [0..2 -> Int] : Reads(g, arg, first, 2) /\ Number(arg, first, 2) = g[2]
  BY <1>1, NumberIs
<1>3. g[0] = 0 /\ g[1] = 10 * g[0] + a /\ g[2] = 10 * g[1] + b
  <2>1. first + 1 - 1 = first /\ first + 2 - 1 = first + 1
    OBVIOUS
  <2>2. QED
    BY <1>2, <2>1 DEF Reads
<1>4. QED
  BY <1>2, <1>3

\* The number of three characters.
LEMMA NumberOfThree ==
  ASSUME NEW arg, NEW first \in Int, arg[first] \in Int, arg[first + 1] \in Int, arg[first + 2] \in Int
  PROVE  Number(arg, first, 3) = 100 * arg[first] + 10 * arg[first + 1] + arg[first + 2]
<1> DEFINE a == arg[first]
           b == arg[first + 1]
           c == arg[first + 2]
<1>1. ASSUME NEW k \in 1..3 PROVE arg[first + k - 1] \in Int
  <2>1. first + k - 1 = first \/ first + k - 1 = first + 1 \/ first + k - 1 = first + 2
    OBVIOUS
  <2>2. QED
    BY <2>1
<1>2. PICK g \in [0..3 -> Int] : Reads(g, arg, first, 3) /\ Number(arg, first, 3) = g[3]
  <2> DEFINE n == 3
  <2>1. n \in Nat /\ \A k \in 1..n : arg[first + k - 1] \in Int
    BY <1>1
  <2> HIDE DEF n
  <2>2. \E g \in [0..n -> Int] : Reads(g, arg, first, n) /\ Number(arg, first, n) = g[n]
    BY <2>1, NumberIs
  <2>3. QED
    BY <2>2 DEF n
<1>3. g[0] = 0 /\ g[1] = 10 * g[0] + a /\ g[2] = 10 * g[1] + b /\ g[3] = 10 * g[2] + c
  <2>1. first + 1 - 1 = first /\ first + 2 - 1 = first + 1 /\ first + 3 - 1 = first + 2
    OBVIOUS
  <2>2. QED
    BY <1>2, <2>1 DEF Reads
<1>4. QED
  BY <1>2, <1>3

\* The number of four characters.
LEMMA NumberOfFour ==
  ASSUME NEW arg, NEW first \in Int,
         arg[first] \in Int, arg[first + 1] \in Int, arg[first + 2] \in Int, arg[first + 3] \in Int
  PROVE  Number(arg, first, 4) = 1000 * arg[first] + 100 * arg[first + 1] + 10 * arg[first + 2] + arg[first + 3]
<1> DEFINE a == arg[first]
           b == arg[first + 1]
           c == arg[first + 2]
           d == arg[first + 3]
<1>1. ASSUME NEW k \in 1..4 PROVE arg[first + k - 1] \in Int
  <2>1. \/ first + k - 1 = first \/ first + k - 1 = first + 1
        \/ first + k - 1 = first + 2 \/ first + k - 1 = first + 3
    OBVIOUS
  <2>2. QED
    BY <2>1
<1>2. PICK g \in [0..4 -> Int] : Reads(g, arg, first, 4) /\ Number(arg, first, 4) = g[4]
  <2> DEFINE n == 4
  <2>1. n \in Nat /\ \A k \in 1..n : arg[first + k - 1] \in Int
    BY <1>1
  <2> HIDE DEF n
  <2>2. \E g \in [0..n -> Int] : Reads(g, arg, first, n) /\ Number(arg, first, n) = g[n]
    BY <2>1, NumberIs
  <2>3. QED
    BY <2>2 DEF n
<1>3. g[0] = 0 /\ g[1] = 10 * g[0] + a /\ g[2] = 10 * g[1] + b /\ g[3] = 10 * g[2] + c /\ g[4] = 10 * g[3] + d
  <2>1. first + 1 - 1 = first /\ first + 2 - 1 = first + 1 /\ first + 3 - 1 = first + 2 /\ first + 4 - 1 = first + 3
    OBVIOUS
  <2>2. QED
    BY <1>2, <2>1 DEF Reads
<1>4. QED
  BY <1>2, <1>3

\* The four digits of a year, and their value.
YearDigits(arg) == arg[7] \in 0..9 /\ arg[8] \in 0..9 /\ arg[9] \in 0..9 /\ arg[10] \in 0..9

YearValue(arg) == 1000 * arg[7] + 100 * arg[8] + 10 * arg[9] + arg[10]

\* The number is_valid_time reads for the year.
LEMMA NumberOfYear ==
  ASSUME NEW arg, YearDigits(arg)
  PROVE  Number(arg, 7, 4) = YearValue(arg)
<1> DEFINE first == 7
<1>1. first + 1 = 8 /\ first + 2 = 9 /\ first + 3 = 10
  OBVIOUS
<1>2. /\ first \in Int /\ arg[first] \in Int /\ arg[first + 1] \in Int /\ arg[first + 2] \in Int
      /\ arg[first + 3] \in Int
  BY <1>1 DEF YearDigits
<1> HIDE DEF first
<1>3. Number(arg, first, 4) = 1000 * arg[first] + 100 * arg[first + 1] + 10 * arg[first + 2] + arg[first + 3]
  BY <1>2, NumberOfFour
<1>4. QED
  BY <1>1, <1>3 DEF first, YearValue

\* Where the digits from a place on end.
EndsAt(arg, first, e) ==
  /\ \A i \in first..e - 1 : arg[i] \in 0..9
  /\ e = Len(arg) + 1 \/ arg[e] \notin 0..9

\* Digits end in one place.
LEMMA DigitsAre ==
  ASSUME NEW arg, Len(arg) \in Nat, NEW first \in 1..Len(arg),
         NEW e \in first..Len(arg) + 1, EndsAt(arg, first, e)
  PROVE  Digits(arg, first) = [count |-> e - first, value |-> Number(arg, first, e - first)]
<1> DEFINE f == CHOOSE x \in first..Len(arg) + 1 : EndsAt(arg, first, x)
<1>1. f \in first..Len(arg) + 1 /\ EndsAt(arg, first, f)
  OBVIOUS
<1>2. Digits(arg, first) = [count |-> f - first, value |-> Number(arg, first, f - first)]
  BY Zenon DEF Digits, EndsAt
<1> HIDE DEF f
<1>3. ~(f < e)
  <2>1. f < e => f \in first..e - 1 /\ f # Len(arg) + 1
    BY <1>1
  <2>2. QED
    BY <1>1, <2>1 DEF EndsAt
<1>4. ~(e < f)
  <2>1. e < f => e \in first..f - 1 /\ e # Len(arg) + 1
    BY <1>1
  <2>2. QED
    BY <1>1, <2>1 DEF EndsAt
<1>5. f = e
  BY <1>1, <1>3, <1>4
<1>6. QED
  BY <1>2, <1>5

\* Digits end somewhere.
LEMMA DigitsEnd ==
  ASSUME NEW arg, Len(arg) \in Nat, NEW first \in 1..Len(arg)
  PROVE  \E e \in first..Len(arg) + 1 : EndsAt(arg, first, e)
<1> DEFINE S == {e \in first..Len(arg) + 1 : e = Len(arg) + 1 \/ arg[e] \notin 0..9}
<1>1. Len(arg) + 1 \in S /\ S \in SUBSET Nat
  OBVIOUS
<1>2. Min(S) \in S /\ \A y \in S : Min(S) <= y
  BY <1>1, MinOfPlaces
<1>3. PICK e \in S : \A y \in S : e <= y
  BY <1>2
<1>4. e \in first..Len(arg) + 1 /\ (e = Len(arg) + 1 \/ arg[e] \notin 0..9)
  BY <1>3
<1>5. ASSUME NEW i \in first..e - 1 PROVE arg[i] \in 0..9
  <2>1. i \in first..Len(arg) + 1 /\ ~(e <= i)
    BY <1>4
  <2>2. i \notin S
    BY <1>3, <2>1
  <2>3. QED
    BY <2>1, <2>2
<1>6. QED
  BY <1>4, <1>5 DEF EndsAt

\* The field of two digits from a place on.
LEMMA FieldOfTwo ==
  ASSUME NEW arg \in Seq(Int), Len(arg) = 10, NEW first \in 1..4, Digits(arg, first).count = 2
  PROVE  /\ arg[first] \in 0..9 /\ arg[first + 1] \in 0..9
         /\ Digits(arg, first).value = Number(arg, first, 2)
<1>1. PICK e \in first..11 : EndsAt(arg, first, e)
  <2>1. Len(arg) \in Nat /\ first \in 1..Len(arg) /\ Len(arg) + 1 = 11
    OBVIOUS
  <2>2. QED
    BY <2>1, DigitsEnd
<1>2. Digits(arg, first) = [count |-> e - first, value |-> Number(arg, first, e - first)]
  <2>1. Len(arg) \in Nat /\ first \in 1..Len(arg) /\ e \in first..Len(arg) + 1
    OBVIOUS
  <2>2. QED
    BY <1>1, <2>1, DigitsAre
<1>3. e - first = 2
  BY <1>2
<1>4. first \in first..e - 1 /\ first + 1 \in first..e - 1
  BY <1>3
<1>5. QED
  BY <1>1, <1>2, <1>3, <1>4 DEF EndsAt

\* The years that have less than four digits.
FirstYears == 0..999

\* The field of the year: four digits, or a smaller number.
LEMMA FieldOfYear ==
  ASSUME NEW arg \in Seq(Int), Len(arg) = 10, Digits(arg, 7).count > 0
  PROVE  \/ YearDigits(arg) /\ Digits(arg, 7).value = Number(arg, 7, 4)
         \/ Digits(arg, 7).value \in FirstYears
<1> DEFINE first == 7
<1>0. Len(arg) \in Nat /\ first \in 1..Len(arg) /\ Len(arg) + 1 = 11
  OBVIOUS
<1>1. PICK e \in 7..11 : EndsAt(arg, 7, e)
  <2>1. \E e \in first..Len(arg) + 1 : EndsAt(arg, first, e)
    <3> HIDE DEF first
    <3>1. QED
      BY <1>0, DigitsEnd
  <2>2. QED
    BY <1>0, <2>1
<1>2. Digits(arg, 7) = [count |-> e - 7, value |-> Number(arg, 7, e - 7)]
  <2>1. e \in first..Len(arg) + 1
    BY <1>0
  <2>2. EndsAt(arg, first, e)
    BY <1>1
  <2> HIDE DEF first
  <2>3. Digits(arg, first) = [count |-> e - first, value |-> Number(arg, first, e - first)]
    BY <1>0, <2>1, <2>2, DigitsAre
  <2>4. QED
    BY <2>3 DEF first
<1>3. e > 7
  BY <1>2
<1>4. \A i \in 7..10 : i < e => arg[i] \in 0..9
  BY <1>1 DEF EndsAt
<1> DEFINE c == e - 7
<1>5. c = 1 \/ c = 2 \/ c = 3 \/ c = 4
  BY <1>3
<1>6. Digits(arg, 7).value = Number(arg, 7, c)
  BY <1>2
<1>7. ASSUME c = 4
      PROVE  YearDigits(arg) /\ Digits(arg, 7).value = Number(arg, 7, 4)
  <2>1. 7 < e /\ 8 < e /\ 9 < e /\ 10 < e
    BY <1>7
  <2>2. QED
    BY <1>4, <1>6, <1>7, <2>1 DEF YearDigits
<1>8. ASSUME c = 3 PROVE Digits(arg, 7).value \in FirstYears
  <2>0. Digits(arg, 7).value = Number(arg, first, 3)
    BY <1>6, <1>8
  <2>1. arg[7] \in 0..9 /\ arg[8] \in 0..9 /\ arg[9] \in 0..9
    BY <1>4, <1>8
  <2> DEFINE u == arg[7]
             v == arg[8]
             w == arg[9]
  <2>2. /\ arg[first] \in Int /\ arg[first + 1] \in Int /\ arg[first + 2] \in Int
        /\ arg[first] = u /\ arg[first + 1] = v /\ arg[first + 2] = w
    BY <2>1
  <2>3. first \in Int
    OBVIOUS
  <2>4. u \in 0..9 /\ v \in 0..9 /\ w \in 0..9
    BY <2>1
  <2> HIDE DEF first, u, v, w
  <2>5. Number(arg, first, 3) = 100 * u + 10 * v + w
    BY <2>2, <2>3, NumberOfThree
  <2>6. 100 * u + 10 * v + w \in FirstYears
    BY <2>4 DEF FirstYears
  <2>7. QED
    BY <2>0, <2>5, <2>6, Zenon
<1>9. ASSUME c = 2 PROVE Digits(arg, 7).value \in FirstYears
  <2>0. Digits(arg, 7).value = Number(arg, first, 2)
    BY <1>6, <1>9
  <2>1. arg[7] \in 0..9 /\ arg[8] \in 0..9
    BY <1>4, <1>9
  <2> DEFINE u == arg[7]
             v == arg[8]
  <2>2. arg[first] \in Int /\ arg[first + 1] \in Int /\ arg[first] = u /\ arg[first + 1] = v
    BY <2>1
  <2>3. first \in Int
    OBVIOUS
  <2>4. u \in 0..9 /\ v \in 0..9
    BY <2>1
  <2> HIDE DEF first, u, v
  <2>5. Number(arg, first, 2) = 10 * u + v
    BY <2>2, <2>3, NumberOfTwo
  <2>6. 10 * u + v \in FirstYears
    BY <2>4 DEF FirstYears
  <2>7. QED
    BY <2>0, <2>5, <2>6, Zenon
<1>10. ASSUME c = 1 PROVE Digits(arg, 7).value \in FirstYears
  <2>0. Digits(arg, 7).value = Number(arg, first, 1)
    BY <1>6, <1>10
  <2>1. arg[7] \in 0..9
    BY <1>4, <1>10
  <2>2. first \in Int /\ arg[first] \in Int
    BY <2>1
  <2>3. Number(arg, first, 1) = arg[first]
    <3> HIDE DEF first
    <3>1. QED
      BY <2>2, NumberOfOne
  <2>4. arg[first] \in FirstYears
    BY <2>1 DEF FirstYears
  <2> HIDE DEF first
  <2>5. QED
    BY <2>0, <2>3, <2>4, Zenon
<1> HIDE DEF c
<1>11. QED
  BY <1>5, <1>7, <1>8, <1>9, <1>10, Zenon

-----------------------------------------------------------------------------
(* A date and its writing.                                                 *)

\* The ten characters of a date.
IsWritten(arg, day, month, year) ==
  /\ DOMAIN arg = 1..10 /\ Len(arg) = 10 /\ arg \in Seq(Int)
  /\ arg[3] = Slash /\ arg[6] = Slash
  /\ \A i \in {1, 2, 4, 5, 7, 8, 9, 10} : arg[i] \in 0..9
  /\ 10 * arg[1] + arg[2] = day /\ 10 * arg[4] + arg[5] = month
  /\ 1000 * arg[7] + 100 * arg[8] + 10 * arg[9] + arg[10] = year

\* The decimal digits of a number.
LEMMA DigitsOf ==
  ASSUME NEW x \in Nat, x <= 9999
  PROVE  /\ x <= 99 => x \div 10 \in 0..9
         /\ x % 10 \in 0..9 /\ 10 * (x \div 10) + (x % 10) = x
         /\ x \div 1000 \in 0..9 /\ (x \div 100) % 10 \in 0..9 /\ (x \div 10) % 10 \in 0..9
         /\ 1000 * (x \div 1000) + 100 * ((x \div 100) % 10) + 10 * ((x \div 10) % 10) + (x % 10) = x
<1>1. x <= 99 => x \div 10 \in 0..9
  OBVIOUS
<1>2. x % 10 \in 0..9 /\ 10 * (x \div 10) + (x % 10) = x /\ x \div 10 \in Int
  OBVIOUS
<1>3. (x \div 10) \div 10 = x \div 100 /\ (x \div 100) \div 10 = x \div 1000
  OBVIOUS
<1>4. x \div 1000 \in 0..9 /\ x \div 100 \in Int
  OBVIOUS
<1>5. (x \div 10) % 10 \in 0..9 /\ 10 * (x \div 100) + ((x \div 10) % 10) = x \div 10
  <2> DEFINE p == x \div 10
  <2>1. p \in Int
    BY <1>2
  <2> HIDE DEF p
  <2>2. p % 10 \in 0..9 /\ 10 * (p \div 10) + (p % 10) = p
    BY <2>1
  <2>3. QED
    BY <1>3, <2>2 DEF p
<1>6. (x \div 100) % 10 \in 0..9 /\ 10 * (x \div 1000) + ((x \div 100) % 10) = x \div 100
  <2> DEFINE p == x \div 100
  <2>1. p \in Int
    BY <1>4
  <2> HIDE DEF p
  <2>2. p % 10 \in 0..9 /\ 10 * (p \div 10) + (p % 10) = p
    BY <2>1
  <2>3. QED
    BY <1>3, <2>2 DEF p
<1> DEFINE p == x \div 10
           q == x \div 100
           r == x \div 1000
           i == x % 10
           j == p % 10
           k == q % 10
<1>7. /\ p \in Int /\ q \in Int /\ r \in 0..9 /\ i \in 0..9 /\ j \in 0..9 /\ k \in 0..9
      /\ 10 * p + i = x /\ 10 * q + j = p /\ 10 * r + k = q
  BY <1>2, <1>4, <1>5, <1>6
<1>8. 1000 * r + 100 * k + 10 * j + i = x
  <2> HIDE DEF p, q, r, i, j, k
  <2>1. QED
    BY <1>7
<1>9. QED
  BY <1>1, <1>2, <1>4, <1>5, <1>6, <1>8

\* Years with the same value have the same digits.
LEMMA SameYear ==
  ASSUME NEW arg, NEW w,
         arg[7] \in 0..9, arg[8] \in 0..9, arg[9] \in 0..9, arg[10] \in 0..9,
         w[7] \in 0..9, w[8] \in 0..9, w[9] \in 0..9, w[10] \in 0..9,
         1000 * arg[7] + 100 * arg[8] + 10 * arg[9] + arg[10] = 1000 * w[7] + 100 * w[8] + 10 * w[9] + w[10]
  PROVE  arg[7] = w[7] /\ arg[8] = w[8] /\ arg[9] = w[9] /\ arg[10] = w[10]
<1> DEFINE a == arg[7]
           b == arg[8]
           c == arg[9]
           d == arg[10]
           p == w[7]
           q == w[8]
           r == w[9]
           s == w[10]
<1>1. /\ a \in 0..9 /\ b \in 0..9 /\ c \in 0..9 /\ d \in 0..9
      /\ p \in 0..9 /\ q \in 0..9 /\ r \in 0..9 /\ s \in 0..9
      /\ 1000 * a + 100 * b + 10 * c + d = 1000 * p + 100 * q + 10 * r + s
  OBVIOUS
<1>2. a = p /\ b = q /\ c = r /\ d = s
  <2> HIDE DEF a, b, c, d, p, q, r, s
  <2>1. a = p
    BY <1>1
  <2>2. b = q
    BY <1>1, <2>1
  <2>3. QED
    BY <1>1, <2>1, <2>2
<1>3. QED
  BY <1>2

\* How a date is written.
LEMMA WrittenIs ==
  ASSUME NEW day \in 1..31, NEW month \in 1..12, NEW year \in Years
  PROVE  IsWritten(Written(At(day, month, year)), day, month, year)
<1> DEFINE d == At(day, month, year)
           w == <<day \div 10, day % 10, Slash, month \div 10, month % 10, Slash,
                  year \div 1000, (year \div 100) % 10, (year \div 10) % 10, year % 10>>
<1>1. Written(d) = w
  <2>1. d.day = day /\ d.month = month /\ d.year = year
    BY DEF At
  <2> HIDE DEF d
  <2>2. Written(d) = <<d.day \div 10, d.day % 10, Slash, d.month \div 10, d.month % 10, Slash,
                       d.year \div 1000, (d.year \div 100) % 10, (d.year \div 10) % 10, d.year % 10>>
    BY DEF Written
  <2>3. QED
    BY <2>1, <2>2
<1>2. /\ year \in Nat /\ year <= 9999 /\ day \in Nat /\ day <= 99 /\ day <= 9999
      /\ month \in Nat /\ month <= 99 /\ month <= 9999
  BY DEF Years
<1>3. /\ day \div 10 \in 0..9 /\ day % 10 \in 0..9 /\ 10 * (day \div 10) + (day % 10) = day
      /\ month \div 10 \in 0..9 /\ month % 10 \in 0..9 /\ 10 * (month \div 10) + (month % 10) = month
  BY <1>2, DigitsOf
<1>4. /\ year \div 1000 \in 0..9 /\ (year \div 100) % 10 \in 0..9 /\ (year \div 10) % 10 \in 0..9 /\ year % 10 \in 0..9
      /\ 1000 * (year \div 1000) + 100 * ((year \div 100) % 10) + 10 * ((year \div 10) % 10) + (year % 10) = year
  BY <1>2, DigitsOf
<1>5. Slash \in Int
  BY DEF Slash
<1> HIDE DEF d
<1>6. IsWritten(w, day, month, year)
  BY <1>2, <1>3, <1>4, <1>5 DEF IsWritten
<1>7. QED
  BY <1>1, <1>6 DEF d

\* Two digits are those of one number.
LEMMA TwoDigits ==
  ASSUME NEW a \in 0..9, NEW b \in 0..9, NEW c \in 0..9, NEW d \in 0..9, 10 * a + b = 10 * c + d
  PROVE  a = c /\ b = d
<1>1. a \in Int /\ b \in Int /\ c \in Int /\ d \in Int /\ 0 <= b /\ b <= 9 /\ 0 <= d /\ d <= 9
  OBVIOUS
<1>2. QED
  BY <1>1

\* A date is written in one way.
LEMMA WrittenOnce ==
  ASSUME NEW day, NEW month, NEW year,
         NEW arg, IsWritten(arg, day, month, year), NEW w, IsWritten(w, day, month, year)
  PROVE  arg = w
<1>1. \A i \in 1..10 : arg[i] = w[i]
  <2>1. /\ arg[1] \in 0..9 /\ arg[2] \in 0..9 /\ w[1] \in 0..9 /\ w[2] \in 0..9
        /\ 10 * arg[1] + arg[2] = 10 * w[1] + w[2]
    BY DEF IsWritten
  <2>2. arg[1] = w[1] /\ arg[2] = w[2]
    <3> DEFINE a == arg[1]
               b == arg[2]
               c == w[1]
               d == w[2]
    <3>1. /\ a \in 0..9 /\ b \in 0..9 /\ c \in 0..9 /\ d \in 0..9
          /\ 10 * a + b = 10 * c + d
      BY <2>1
    <3> HIDE DEF a, b, c, d
    <3>2. a = c /\ b = d
      BY <3>1, TwoDigits
    <3>3. QED
      BY <3>2 DEF a, b, c, d
  <2>3. /\ arg[4] \in 0..9 /\ arg[5] \in 0..9 /\ w[4] \in 0..9 /\ w[5] \in 0..9
        /\ 10 * arg[4] + arg[5] = 10 * w[4] + w[5]
    BY DEF IsWritten
  <2>4. arg[4] = w[4] /\ arg[5] = w[5]
    <3> DEFINE a == arg[4]
               b == arg[5]
               c == w[4]
               d == w[5]
    <3>1. /\ a \in 0..9 /\ b \in 0..9 /\ c \in 0..9 /\ d \in 0..9
          /\ 10 * a + b = 10 * c + d
      BY <2>3
    <3> HIDE DEF a, b, c, d
    <3>2. a = c /\ b = d
      BY <3>1, TwoDigits
    <3>3. QED
      BY <3>2 DEF a, b, c, d
  <2>5. /\ arg[7] \in 0..9 /\ arg[8] \in 0..9 /\ arg[9] \in 0..9 /\ arg[10] \in 0..9
        /\ w[7] \in 0..9 /\ w[8] \in 0..9 /\ w[9] \in 0..9 /\ w[10] \in 0..9
        /\ 1000 * arg[7] + 100 * arg[8] + 10 * arg[9] + arg[10] = 1000 * w[7] + 100 * w[8] + 10 * w[9] + w[10]
    BY DEF IsWritten
  <2>6. arg[7] = w[7] /\ arg[8] = w[8] /\ arg[9] = w[9] /\ arg[10] = w[10]
    BY <2>5, SameYear
  <2>7. arg[3] = w[3] /\ arg[6] = w[6]
    BY DEF IsWritten
  <2>8. \A i \in 1..10 : i = 1 \/ i = 2 \/ i = 3 \/ i = 4 \/ i = 5 \/ i = 6 \/ i = 7 \/ i = 8 \/ i = 9 \/ i = 10
    OBVIOUS
  <2>9. QED
    BY <2>2, <2>4, <2>6, <2>7, <2>8
<1>2. arg \in [1..10 -> Int] /\ w \in [1..10 -> Int]
  <2>1. arg \in Seq(Int) /\ w \in Seq(Int) /\ Len(arg) = 10 /\ Len(w) = 10
    BY DEF IsWritten
  <2>2. arg \in [1..Len(arg) -> Int] /\ w \in [1..Len(w) -> Int]
    BY <2>1, LenProperties
  <2>3. QED
    BY <2>1, <2>2
<1>3. QED
  BY <1>1, <1>2

IsDay(day, month, year) == day \in 1..31 /\ month \in 1..12 /\ year \in Years /\ day <= DaysOf(month, year)

\* A later month starts after the last day of an earlier one.
LEMMA MonthsGrow ==
  ASSUME NEW y \in Int, NEW a \in 1..12
  PROVE  \A b \in 1..12 : a < b => MonthStart(a, y) + DaysOf(a, y) <= MonthStart(b, y)
<1> DEFINE start(m) == MonthStart(m, y)
           days(m) == DaysOf(m, y)
           K == {b \in 0..12 : a < b => start(a) + days(a) <= start(b)}
<1>1. \A m \in 1..12 : start(m) \in Int /\ days(m) \in 28..31
  <2>1. \A m \in 1..12 : start(m) \in 0..335 /\ days(m) \in 28..31
    BY MonthsAre
  <2>2. QED
    BY <2>1
<1>2. \A m \in 1..11 : start(m + 1) = start(m) + days(m)
  BY MonthsAre
<1> HIDE DEF start, days
<1>3. 0 \in K
  OBVIOUS
<1>4. ASSUME NEW b \in 1..12, b - 1 \in K PROVE b \in K
  <2> SUFFICES ASSUME a < b PROVE start(a) + days(a) <= start(b)
    OBVIOUS
  <2>1. b - 1 \in 1..11 /\ (b - 1) + 1 = b /\ b - 1 \in 1..12
    OBVIOUS
  <2>2. start(b) = start(b - 1) + days(b - 1)
    BY <1>2, <2>1
  <2>3. CASE a = b - 1
    BY <1>1, <2>2, <2>3
  <2>4. CASE a < b - 1
    <3>1. start(a) + days(a) <= start(b - 1)
      BY <1>4, <2>4
    <3> DEFINE x == start(a) + days(a)
               p == start(b - 1)
               q == days(b - 1)
    <3>2. x \in Int /\ p \in Int /\ q \in 28..31 /\ x <= p /\ start(b) = p + q
      BY <1>1, <2>1, <2>2, <3>1
    <3> HIDE DEF x, p, q
    <3>3. x <= start(b)
      BY <3>2
    <3>4. QED
      BY <3>3 DEF x
  <2>5. QED
    BY <2>3, <2>4
<1>5. \A b \in 0..12 : b \in K
  <2> HIDE DEF K
  <2>1. 12 \in Nat
    OBVIOUS
  <2>2. QED
    BY <1>3, <1>4, <2>1, UpTo
<1>6. ASSUME NEW b \in 1..12 PROVE a < b => start(a) + days(a) <= start(b)
  BY <1>5
<1>7. QED
  BY <1>6 DEF start, days

\* A day of a year comes within it.
LEMMA WithinYear ==
  ASSUME NEW day, NEW m, NEW y, IsDay(day, m, y)
  PROVE  /\ mktime(At(day, m, y)) \in Int /\ YearStart(y) \in Int
         /\ mktime(At(day, m, y)) > YearStart(y)
         /\ mktime(At(day, m, y)) <= YearStart(y + 1)
<1>1. day \in 1..31 /\ m \in 1..12 /\ y \in Years /\ y \in Int /\ day <= DaysOf(m, y) /\ day \in Int
  BY YearsAre DEF IsDay
<1>2. mktime(At(day, m, y)) = YearStart(y) + MonthStart(m, y) + day /\ mktime(At(day, m, y)) \in Int
  BY <1>1, MktimeIs
<1>3. YearStart(y) \in Int /\ YearStart(y + 1) = YearStart(y) + YearLength(y) /\ YearLength(y) \in 365..366
  BY <1>1, YearsFollow
<1>4. MonthStart(m, y) \in 0..335 /\ DaysOf(m, y) \in 28..31
  BY <1>1, MonthsAre
<1>5. MonthStart(12, y) + DaysOf(12, y) = YearLength(y) /\ MonthStart(12, y) \in Int /\ DaysOf(12, y) \in Nat
  <2>1. MonthStart(12, y) \in 0..335 /\ DaysOf(12, y) \in 28..31
    BY <1>1, MonthsAre
  <2>2. MonthStart(12, y) + DaysOf(12, y) = YearLength(y)
    BY <1>1, MonthsAre
  <2>3. QED
    BY <2>1, <2>2
<1>6. MonthStart(m, y) + DaysOf(m, y) <= YearLength(y)
  <2>1. CASE m = 12
    BY <1>3, <1>5, <2>1
  <2>2. CASE m < 12
    <3>1. 12 \in 1..12
      OBVIOUS
    <3>2. MonthStart(m, y) + DaysOf(m, y) <= MonthStart(12, y)
      BY <1>1, <2>2, <3>1, MonthsGrow
    <3>3. QED
      BY <1>4, <1>5, <3>2
  <2>3. QED
    BY <1>1, <2>1, <2>2
<1>7. QED
  BY <1>1, <1>2, <1>3, <1>4, <1>6

\* The days of an earlier year, and of an earlier month, come first.
LEMMA YearBefore ==
  ASSUME NEW d1, NEW m1, NEW y1, IsDay(d1, m1, y1), NEW d2, NEW m2, NEW y2, IsDay(d2, m2, y2), y1 < y2
  PROVE  mktime(At(d1, m1, y1)) < mktime(At(d2, m2, y2))
<1>1. y1 \in Int /\ y2 \in Int /\ y1 + 1 \in Int /\ y1 + 1 <= y2
  BY YearsAre DEF IsDay
<1>2. mktime(At(d1, m1, y1)) \in Int /\ mktime(At(d1, m1, y1)) <= YearStart(y1 + 1)
  BY WithinYear
<1>3. mktime(At(d2, m2, y2)) \in Int /\ YearStart(y2) \in Int /\ mktime(At(d2, m2, y2)) > YearStart(y2)
  BY WithinYear
<1>4. YearStart(y1 + 1) <= YearStart(y2) /\ YearStart(y1 + 1) \in Int
  <2> DEFINE next == y1 + 1
  <2>1. next \in Int /\ next <= y2
    BY <1>1
  <2> HIDE DEF next
  <2>2. YearStart(next) <= YearStart(y2) /\ YearStart(next) \in Int
    BY <1>1, <2>1, YearsGrow, YearsFollow
  <2>3. QED
    BY <2>2 DEF next
<1>5. QED
  BY <1>2, <1>3, <1>4

\* A day of an earlier month comes first.
LEMMA MonthBefore ==
  ASSUME NEW d1, NEW m1, NEW y, IsDay(d1, m1, y), NEW d2, NEW m2, IsDay(d2, m2, y), m1 < m2
  PROVE  mktime(At(d1, m1, y)) < mktime(At(d2, m2, y))
<1>1. /\ d1 \in 1..31 /\ d1 \in Int /\ m1 \in 1..12 /\ d1 <= DaysOf(m1, y)
      /\ d2 \in 1..31 /\ d2 \in Int /\ m2 \in 1..12 /\ y \in Int
  BY YearsAre DEF IsDay
<1>2. mktime(At(d1, m1, y)) = YearStart(y) + MonthStart(m1, y) + d1
  BY <1>1, MktimeIs
<1>3. mktime(At(d2, m2, y)) = YearStart(y) + MonthStart(m2, y) + d2
  BY <1>1, MktimeIs
<1>4. MonthStart(m1, y) + DaysOf(m1, y) <= MonthStart(m2, y)
  BY <1>1, MonthsGrow
<1>5. YearStart(y) \in Int
  BY <1>1, YearsFollow
<1>6. MonthStart(m1, y) \in 0..335 /\ DaysOf(m1, y) \in 28..31 /\ MonthStart(m2, y) \in 0..335
  BY <1>1, MonthsAre
<1> DEFINE s == YearStart(y)
           p == MonthStart(m1, y)
           q == MonthStart(m2, y)
           n == DaysOf(m1, y)
<1>7. /\ s \in Int /\ p \in 0..335 /\ q \in 0..335 /\ n \in 28..31 /\ p + n <= q
      /\ d1 <= n /\ d1 \in Int /\ d2 \in 1..31
  BY <1>1, <1>4, <1>5, <1>6
<1>8. mktime(At(d1, m1, y)) = s + p + d1 /\ mktime(At(d2, m2, y)) = s + q + d2
  BY <1>2, <1>3
<1> HIDE DEF s, p, q, n
<1>9. s + p + d1 < s + q + d2
  BY <1>7
<1>10. QED
  BY <1>8, <1>9

\* Two dates have not the same number.
LEMMA SameDay ==
  ASSUME NEW d1, NEW m1, NEW y1, IsDay(d1, m1, y1), NEW d2, NEW m2, NEW y2, IsDay(d2, m2, y2),
         mktime(At(d1, m1, y1)) = mktime(At(d2, m2, y2))
  PROVE  d1 = d2 /\ m1 = m2 /\ y1 = y2
<1>1. mktime(At(d1, m1, y1)) \in Int /\ mktime(At(d2, m2, y2)) \in Int
  BY WithinYear
<1>2. /\ d1 \in Int /\ m1 \in 1..12 /\ y1 \in Int /\ d2 \in Int /\ m2 \in 1..12 /\ y2 \in Int
  BY YearsAre DEF IsDay
<1>3. y1 = y2
  <2>1. ~(y1 < y2)
    BY <1>1, YearBefore
  <2>2. ~(y2 < y1)
    BY <1>1, YearBefore
  <2>3. QED
    BY <1>2, <2>1, <2>2
<1>4. m1 = m2
  <2>1. ~(m1 < m2)
    BY <1>1, <1>3, MonthBefore
  <2>2. ~(m2 < m1)
    BY <1>1, <1>3, MonthBefore
  <2>3. QED
    BY <1>2, <2>1, <2>2
<1>5. d1 = d2
  <2>1. mktime(At(d1, m1, y1)) = YearStart(y1) + MonthStart(m1, y1) + d1
    BY <1>2, MktimeIs
  <2>2. mktime(At(d2, m1, y1)) = YearStart(y1) + MonthStart(m1, y1) + d2
    BY <1>2, MktimeIs
  <2>3. YearStart(y1) \in Int
    BY <1>2, YearsFollow
  <2>4. MonthStart(m1, y1) \in 0..335
    BY <1>2, MonthsAre
  <2>5. QED
    BY <1>2, <1>3, <1>4, <2>1, <2>2, <2>3, <2>4
<1>6. QED
  BY <1>3, <1>4, <1>5

\* A date of the first thousand years comes before them all.
LEMMA LongAgo ==
  ASSUME NEW d1 \in 1..31, NEW m1 \in 1..12, NEW y1 \in FirstYears, NEW d2, NEW m2, NEW y2, IsDay(d2, m2, y2)
  PROVE  mktime(At(d1, m1, y1)) < mktime(At(d2, m2, y2))
<1>1. mktime(At(d2, m2, y2)) \in Int /\ mktime(At(d2, m2, y2)) > YearStart(y2) /\ YearStart(y2) \in Int
  BY WithinYear
<1>2. y2 \in Int /\ 1001 <= y2
  BY DEF IsDay, Years
<1>3. y1 \in Int /\ d1 \in Int /\ y1 + 1 <= 1000
  BY DEF FirstYears
<1>4. YearStart(1001) <= YearStart(y2) /\ YearStart(1001) \in Int
  <2> DEFINE x == 1001
  <2>1. x \in Int /\ x <= y2
    BY <1>2
  <2> HIDE DEF x
  <2>2. YearStart(x) <= YearStart(y2) /\ YearStart(x) \in Int
    BY <1>2, <2>1, YearsGrow, YearsFollow
  <2>3. QED
    BY <2>2 DEF x
<1>5. mktime(At(d1, m1, y1)) = YearStart(y1) + MonthStart(m1, y1) + d1
  BY <1>3, MktimeIs, Zenon
<1>6. MonthStart(m1, y1) \in 0..335 /\ YearStart(y1) \in Int
  <2>1. MonthStart(m1, y1) \in 0..335
    BY <1>3, MonthsAre
  <2>2. YearStart(y1) \in Int
    BY <1>3, YearsFollow
  <2>3. QED
    BY <2>1, <2>2
<1>7. YearStart(y1) + 366 <= YearStart(1001)
  BY <1>3 DEF YearStart
<1>8. QED
  BY <1>1, <1>3, <1>4, <1>5, <1>6, <1>7

\* is_valid_time knows the calendar.
LEMMA ValidDays ==
  ASSUME NEW day \in 1..31, NEW m \in 1..12, NEW y \in Int
  PROVE  day <= DaysOf(m, y) <=> /\ m = 2 => day <= (IF is_leap_year(y) THEN 29 ELSE 28)
                                 /\ m \in {4, 6, 9, 11} => day <= 30
<1>1. CASE m = 2
  BY <1>1 DEF DaysOf, is_leap_year
<1>2. CASE m \in {4, 6, 9, 11}
  BY <1>2 DEF DaysOf
<1>3. CASE m # 2 /\ m \notin {4, 6, 9, 11}
  BY <1>3 DEF DaysOf
<1>4. QED
  BY <1>1, <1>2, <1>3

\* XGET takes a written date for that date.
LEMMA WrittenIsTaken ==
  ASSUME NEW day, NEW m, NEW y, IsDay(day, m, y), NEW arg, IsWritten(arg, day, m, y)
  PROVE  convert_and_validate_date(arg) = {mktime(At(day, m, y))}
<1>1. /\ day \in 1..31 /\ m \in 1..12 /\ y \in Years /\ y \in Int /\ day <= DaysOf(m, y)
  BY YearsAre DEF IsDay
<1>2. /\ arg \in Seq(Int) /\ Len(arg) = 10 /\ arg[3] = Slash /\ arg[6] = Slash /\ Slash = -1
      /\ arg[1] \in 0..9 /\ arg[2] \in 0..9 /\ arg[4] \in 0..9 /\ arg[5] \in 0..9
      /\ arg[7] \in 0..9 /\ arg[8] \in 0..9 /\ arg[9] \in 0..9 /\ arg[10] \in 0..9
      /\ 10 * arg[1] + arg[2] = day /\ 10 * arg[4] + arg[5] = m
  BY DEF IsWritten, Slash
<1>3. Number(arg, 1, 2) = day
  <2> DEFINE first == 1
  <2>1. first \in Int /\ arg[first] \in Int /\ arg[first + 1] \in Int /\ 10 * arg[first] + arg[first + 1] = day
    BY <1>2
  <2> HIDE DEF first
  <2>2. Number(arg, first, 2) = 10 * arg[first] + arg[first + 1]
    BY <2>1, NumberOfTwo
  <2>3. QED
    BY <2>1, <2>2 DEF first
<1>4. Number(arg, 4, 2) = m
  <2> DEFINE first == 4
  <2>1. first \in Int /\ arg[first] \in Int /\ arg[first + 1] \in Int /\ 10 * arg[first] + arg[first + 1] = m
    BY <1>2
  <2> HIDE DEF first
  <2>2. Number(arg, first, 2) = 10 * arg[first] + arg[first + 1]
    BY <2>1, NumberOfTwo
  <2>3. QED
    BY <2>1, <2>2 DEF first
<1>5. Number(arg, 7, 4) = y
  <2>1. YearDigits(arg) /\ YearValue(arg) = y
    BY DEF IsWritten, YearDigits, YearValue
  <2>2. QED
    BY <2>1, NumberOfYear
<1>6. Digits(arg, 1) = [count |-> 2, value |-> day]
  <2> DEFINE first == 1
             e == 3
  <2>1. Len(arg) \in Nat /\ first \in 1..Len(arg) /\ e \in first..Len(arg) + 1 /\ e - first = 2
    BY <1>2
  <2>2. EndsAt(arg, first, e)
    <3>1. \A i \in first..e - 1 : i = 1 \/ i = 2
      OBVIOUS
    <3>2. arg[e] \notin 0..9
      BY <1>2
    <3>3. QED
      BY <1>2, <3>1, <3>2 DEF EndsAt
  <2> HIDE DEF first, e
  <2>3. Digits(arg, first) = [count |-> e - first, value |-> Number(arg, first, e - first)]
    BY <2>1, <2>2, DigitsAre
  <2>4. QED
    BY <1>3, <2>1, <2>3 DEF first
<1>7. Digits(arg, 4) = [count |-> 2, value |-> m]
  <2> DEFINE first == 4
             e == 6
  <2>1. Len(arg) \in Nat /\ first \in 1..Len(arg) /\ e \in first..Len(arg) + 1 /\ e - first = 2
    BY <1>2
  <2>2. EndsAt(arg, first, e)
    <3>1. \A i \in first..e - 1 : i = 4 \/ i = 5
      OBVIOUS
    <3>2. arg[e] \notin 0..9
      BY <1>2
    <3>3. QED
      BY <1>2, <3>1, <3>2 DEF EndsAt
  <2> HIDE DEF first, e
  <2>3. Digits(arg, first) = [count |-> e - first, value |-> Number(arg, first, e - first)]
    BY <2>1, <2>2, DigitsAre
  <2>4. QED
    BY <1>4, <2>1, <2>3 DEF first
<1>8. Digits(arg, 7) = [count |-> 4, value |-> y]
  <2> DEFINE first == 7
             e == 11
  <2>1. Len(arg) \in Nat /\ first \in 1..Len(arg) /\ e \in first..Len(arg) + 1 /\ e - first = 4
    BY <1>2
  <2>2. EndsAt(arg, first, e)
    <3>1. \A i \in first..e - 1 : i = 7 \/ i = 8 \/ i = 9 \/ i = 10
      OBVIOUS
    <3>2. e = Len(arg) + 1
      BY <1>2
    <3>3. QED
      BY <1>2, <3>1, <3>2 DEF EndsAt
  <2> HIDE DEF first, e
  <2>3. Digits(arg, first) = [count |-> e - first, value |-> Number(arg, first, e - first)]
    BY <2>1, <2>2, DigitsAre
  <2>4. QED
    BY <1>5, <2>1, <2>3 DEF first
<1>9. is_valid_time(arg)
  <2>1. /\ m = 2 => day <= (IF is_leap_year(y) THEN 29 ELSE 28)
        /\ m \in {4, 6, 9, 11} => day <= 30
    BY <1>1, ValidDays
  <2>2. QED
    BY <1>1, <1>2, <1>3, <1>4, <1>5, <2>1 DEF is_valid_time
<1>10. Scanned(arg)
  BY <1>6, <1>7, <1>8 DEF Scanned
<1>11. convert_and_validate_date(arg) = {mktime(At(day, m, y))}
  <2>1. convert_and_validate_date(arg)
          = {mktime(At(Digits(arg, 1).value, Digits(arg, 4).value, Digits(arg, 7).value))}
    BY <1>9, <1>10 DEF convert_and_validate_date, At
  <2>2. Digits(arg, 1).value = day /\ Digits(arg, 4).value = m /\ Digits(arg, 7).value = y
    BY <1>6, <1>7, <1>8
  <2>3. QED
    BY <2>1, <2>2
<1>12. QED
  BY <1>11

\* What XGET takes for a day of the calendar is that day, written.
LEMMA TakenIsWritten ==
  ASSUME NEW arg \in Seq(Int), NEW number \in convert_and_validate_date(arg),
         NEW day, NEW m, NEW y, IsDay(day, m, y), number = mktime(At(day, m, y))
  PROVE  IsWritten(arg, day, m, y)
<1> DEFINE d1 == Digits(arg, 1).value
           m1 == Digits(arg, 4).value
           y1 == Digits(arg, 7).value
<1>1. is_valid_time(arg) /\ Scanned(arg) /\ number = mktime(At(d1, m1, y1))
  BY DEF convert_and_validate_date, At
<1>2. /\ Len(arg) = 10 /\ arg[3] = Slash /\ arg[6] = Slash
      /\ Digits(arg, 1).count = 2 /\ Digits(arg, 4).count = 2 /\ Digits(arg, 7).count > 0
  BY <1>1 DEF is_valid_time, Scanned
<1>3. arg[1] \in 0..9 /\ arg[2] \in 0..9 /\ d1 = Number(arg, 1, 2) /\ d1 = 10 * arg[1] + arg[2]
  <2> DEFINE first == 1
  <2>1. first \in 1..4 /\ first \in Int
    OBVIOUS
  <2>2. Digits(arg, first).count = 2
    BY <1>2
  <2> HIDE DEF first
  <2>3. /\ arg[first] \in 0..9 /\ arg[first + 1] \in 0..9
        /\ Digits(arg, first).value = Number(arg, first, 2)
    BY <1>2, <2>1, <2>2, FieldOfTwo
  <2>4. Number(arg, first, 2) = 10 * arg[first] + arg[first + 1]
    BY <2>1, <2>3, NumberOfTwo
  <2>5. QED
    BY <2>3, <2>4 DEF first
<1>4. arg[4] \in 0..9 /\ arg[5] \in 0..9 /\ m1 = Number(arg, 4, 2) /\ m1 = 10 * arg[4] + arg[5]
  <2> DEFINE first == 4
  <2>1. first \in 1..4 /\ first \in Int
    OBVIOUS
  <2>2. Digits(arg, first).count = 2
    BY <1>2
  <2> HIDE DEF first
  <2>3. /\ arg[first] \in 0..9 /\ arg[first + 1] \in 0..9
        /\ Digits(arg, first).value = Number(arg, first, 2)
    BY <1>2, <2>1, <2>2, FieldOfTwo
  <2>4. Number(arg, first, 2) = 10 * arg[first] + arg[first + 1]
    BY <2>1, <2>3, NumberOfTwo
  <2>5. QED
    BY <2>3, <2>4 DEF first
<1> HIDE DEF d1, m1, y1
<1>5. d1 \in 1..31 /\ m1 \in 1..12
  BY <1>1, <1>3, <1>4 DEF is_valid_time
<1>6. y1 \notin FirstYears
  <2>1. CASE y1 \in FirstYears
    <3>1. mktime(At(d1, m1, y1)) < mktime(At(day, m, y))
      <4>1. IsDay(day, m, y)
        OBVIOUS
      <4>2. QED
        BY ONLY <1>5, <2>1, <4>1, LongAgo, Zenon
    <3>2. mktime(At(day, m, y)) \in Int
      BY WithinYear
    <3>3. QED
      BY <1>1, <3>1, <3>2
  <2>2. QED
    BY <2>1
<1>7. YearDigits(arg) /\ y1 = Number(arg, 7, 4)
  BY <1>2, <1>6, FieldOfYear, Zenon DEF y1
<1>8. y1 = YearValue(arg)
  BY <1>7, NumberOfYear
<1>9. IsDay(d1, m1, y1)
  <2>1. /\ y1 \in Years
        /\ m1 = 2 => d1 <= (IF is_leap_year(y1) THEN 29 ELSE 28)
        /\ m1 \in {4, 6, 9, 11} => d1 <= 30
    BY <1>1, <1>3, <1>4, <1>7 DEF is_valid_time
  <2>2. y1 \in Int
    BY <2>1, YearsAre
  <2>3. d1 <= DaysOf(m1, y1)
    BY <1>5, <2>1, <2>2, ValidDays
  <2>4. QED
    BY <1>5, <2>1, <2>3 DEF IsDay
<1>10. d1 = day /\ m1 = m /\ y1 = y
  <2>1. mktime(At(d1, m1, y1)) = mktime(At(day, m, y)) /\ IsDay(day, m, y)
    BY <1>1
  <2>2. QED
    BY <1>9, <2>1, SameDay
<1>11. IsWritten(arg, d1, m1, y1)
  <2>1. DOMAIN arg = 1..10
    BY <1>2, LenProperties
  <2>2. QED
    BY <1>2, <1>3, <1>4, <1>7, <1>8, <2>1 DEF IsWritten, YearDigits, YearValue
<1>12. QED
  BY <1>10, <1>11

\* The first k of a sequence, and what they begin.
LEMMA FirstOf ==
  ASSUME NEW D, NEW s \in Seq(D), NEW k \in 0..Len(s)
  PROVE  /\ SubSeq(s, 1, k) \in Seq(D) /\ Len(SubSeq(s, 1, k)) = k
         /\ \A i \in 1..k : SubSeq(s, 1, k)[i] = s[i]
<1>1. Len(s) \in Nat /\ \A i \in 1..Len(s) : s[i] \in D
  BY ElementOfSeq, LenProperties
<1>2. \A i \in 1..k : s[i] \in D
  BY <1>1
<1>3. /\ SubSeq(s, 1, k) \in Seq(D) /\ Len(SubSeq(s, 1, k)) = IF 1 <= k THEN k - 1 + 1 ELSE 0
      /\ \A i \in 1..k - 1 + 1 : SubSeq(s, 1, k)[i] = s[1 + i - 1]
  <2>1. k \in Int /\ 1 \in Int
    OBVIOUS
  <2>2. QED
    BY <1>2, <2>1, SubSeqProperties
<1>4. k - 1 + 1 = k /\ \A i \in 1..k : 1 + i - 1 = i
  OBVIOUS
<1>5. QED
  BY <1>1, <1>3, <1>4

\* Sequences with the same elements are the same.
LEMMA SameSequence ==
  ASSUME NEW D, NEW s \in Seq(D), NEW t \in Seq(D), Len(s) = Len(t), \A i \in 1..Len(s) : s[i] = t[i]
  PROVE  s = t
BY SeqEqual

\* The first elements of a sequence are a prefix of it.
LEMMA FirstIsPrefix ==
  ASSUME NEW D, NEW s \in Seq(D), NEW k \in 0..Len(s)
  PROVE  IsPrefix(SubSeq(s, 1, k), s)
<1> DEFINE t == SubSeq(s, 1, k)
<1>0. Len(s) \in Nat
  BY LenProperties
<1>1. t \in Seq(D) /\ Len(t) = k /\ \A i \in 1..k : t[i] = s[i]
  BY FirstOf
<1> HIDE DEF t
<1>2. SubSeq(t, 1, k) = t
  <2>1. k \in 0..Len(t)
    BY <1>0, <1>1
  <2>2. /\ SubSeq(t, 1, k) \in Seq(D) /\ Len(SubSeq(t, 1, k)) = k
        /\ \A i \in 1..k : SubSeq(t, 1, k)[i] = t[i]
    BY <1>1, <2>1, FirstOf
  <2> DEFINE u == SubSeq(t, 1, k)
  <2> HIDE DEF u
  <2>3. u \in Seq(D) /\ Len(u) = k /\ \A i \in 1..k : u[i] = t[i]
    BY <2>2 DEF u
  <2>4. u = t
    BY <1>1, <2>3, SameSequence
  <2>5. QED
    BY <2>4 DEF u
<1>3. SubSeq(s, 1, k) = t
  BY DEF t
<1>4. IsPrefix(t, s)
  BY <1>0, <1>1, <1>2, <1>3 DEF IsPrefix
<1>5. QED
  BY <1>4 DEF t

\* What an unbounded listing shows.
LEMMA UnboundedShows ==
  ASSUME TypeOK, NEW places \in Seq(DOMAIN by_name), NEW reply, reply = Unbounded(places)
  PROVE  /\ IsPrefix(reply.shown, places)
         /\ reply.kind = "uninitialised" <=> places = <<>>
         /\ reply.kind = "listing" =>
              \A k \in 0..Len(places) : k <= Len(reply.shown) <=> Length(places, k) < Room
<1> DEFINE n == Len(places)
           fit == Fitting(places)
           shown == SubSeq(places, 1, fit)
<1>1. n \in Nat /\ (places = <<>> <=> n = 0)
  BY LenProperties, EmptySeq
<1>2. \A k \in 0..n : IsPrefix(SubSeq(places, 1, k), places)
  BY FirstIsPrefix
<1>3. IsPrefix(<<>>, places)
  <2>1. 0 \in 0..n
    BY <1>1
  <2>2. SubSeq(places, 1, 0) = <<>>
    <3>1. SubSeq(places, 1, 0) \in Seq(DOMAIN by_name) /\ Len(SubSeq(places, 1, 0)) = 0
      BY <2>1, FirstOf
    <3>2. QED
      BY <3>1, EmptySeq
  <2>3. QED
    BY <1>2, <2>1, <2>2
<1>4. CASE places = <<>>
  <2>1. reply = Uninitialised
    BY <1>4 DEF Unbounded
  <2>2. reply.kind = "uninitialised" /\ reply.shown = <<>>
    BY <2>1 DEF Uninitialised
  <2>3. QED
    BY <1>3, <1>4, <2>2
<1>5. CASE places # <<>> /\ Length(places, n - 1) > Room
  <2>1. reply = Overrun
    BY <1>5 DEF Unbounded
  <2>2. reply.kind = "overrun" /\ reply.shown = <<>>
    BY <2>1 DEF Overrun
  <2>3. QED
    BY <1>3, <1>5, <2>2
<1>6. CASE places # <<>> /\ ~(Length(places, n - 1) > Room)
  <2>1. reply = Listing(shown)
    BY <1>6, Zenon DEF Unbounded
  <2>2. reply.kind = "listing" /\ reply.shown = shown
    <3>1. \A s : Listing(s).kind = "listing" /\ Listing(s).shown = s
      BY DEF Listing
    <3>2. QED
      BY <2>1, <3>1, Zenon
  <2>3. fit \in 0..n /\ Length(places, fit) < Room /\ (fit < n => Length(places, fit + 1) >= Room)
    BY FittingIs
  <2>4. Len(shown) = fit
    BY <2>3, FirstOf
  <2>5. IsPrefix(shown, places)
    BY <1>2, <2>3
  <2> HIDE DEF shown, fit
  <2>6. ASSUME NEW k \in 0..n PROVE k <= fit <=> Length(places, k) < Room
    <3>1. Room \in Nat /\ \A i \in 0..n : Length(places, i) \in Nat
      BY RegistryAssumption, LengthGrows
    <3>2. CASE k <= fit
      <4>1. fit \in k..n
        BY <1>1, <2>3, <2>6, <3>2
      <4>2. Length(places, k) <= Length(places, fit)
        BY <2>6, <4>1, LengthMonotone
      <4>3. QED
        BY <2>3, <2>6, <3>1, <3>2, <4>2
    <3>3. CASE ~(k <= fit)
      <4>1. fit < n /\ fit + 1 \in 0..n /\ k \in fit + 1..n
        BY <1>1, <2>3, <2>6, <3>3
      <4>2. Length(places, fit + 1) <= Length(places, k)
        BY <4>1, LengthMonotone
      <4>3. QED
        BY <2>3, <2>6, <3>1, <3>3, <4>1, <4>2
    <3>4. QED
      BY <3>2, <3>3
  <2>7. QED
    BY <1>6, <2>2, <2>4, <2>5, <2>6
<1>7. QED
  BY <1>4, <1>5, <1>6

-----------------------------------------------------------------------------
(* The listing of a day.                                                   *)

DaysWritten(arg) == {n \in DOMAIN Calendar : Written(Calendar[n]) = arg}

\* The calendar's days are days.
LEMMA CalendarDays ==
  ASSUME NEW n \in DOMAIN Calendar
  PROVE  \E day, m, y : /\ IsDay(day, m, y) /\ Calendar[n] = At(day, m, y)
                        /\ mktime(FirstDay) \in Int /\ n \in Int
                        /\ mktime(At(day, m, y)) = mktime(FirstDay) + n
                        /\ IsWritten(Written(Calendar[n]), day, m, y)
<1>1. /\ n \in 0..LastDay /\ LastDay \in Nat /\ mktime(FirstDay) \in Int
      /\ Calendar[n] \in Dates /\ mktime(Calendar[n]) = mktime(FirstDay) + n
  BY CalendarIs
<1>2. PICK day \in 1..31, m \in 1..12, y \in Years : day <= DaysOf(m, y) /\ Calendar[n] = At(day, m, y)
  BY <1>1, DateParts
<1>3. IsDay(day, m, y)
  BY <1>2 DEF IsDay
<1>4. IsWritten(Written(Calendar[n]), day, m, y)
  BY <1>2, WrittenIs
<1>5. n \in Int
  BY <1>1
<1>6. mktime(At(day, m, y)) = mktime(FirstDay) + n
  BY <1>1, <1>2
<1>7. QED
  BY <1>1, <1>2, <1>3, <1>4, <1>5, <1>6

\* The days XGET takes an argument for are those of the calendar written so.
LEMMA TakenDays ==
  ASSUME NEW arg \in Seq(Int), NEW number \in convert_and_validate_date(arg), NEW n \in DOMAIN Calendar
  PROVE  number = mktime(FirstDay) + n <=> n \in DaysWritten(arg)
<1>1. PICK day, m, y : /\ IsDay(day, m, y) /\ Calendar[n] = At(day, m, y)
                       /\ mktime(FirstDay) \in Int /\ n \in Int
                       /\ mktime(At(day, m, y)) = mktime(FirstDay) + n
                       /\ IsWritten(Written(Calendar[n]), day, m, y)
  BY CalendarDays
<1>2. ASSUME number = mktime(FirstDay) + n PROVE n \in DaysWritten(arg)
  <2>1. number = mktime(At(day, m, y))
    BY <1>1, <1>2
  <2>2. IsWritten(arg, day, m, y)
    BY <1>1, <2>1, TakenIsWritten
  <2>3. Written(Calendar[n]) = arg
    BY <1>1, <2>2, WrittenOnce
  <2>4. QED
    BY <2>3 DEF DaysWritten
<1>3. ASSUME n \in DaysWritten(arg) PROVE number = mktime(FirstDay) + n
  <2>1. IsWritten(arg, day, m, y)
    BY <1>1, <1>3 DEF DaysWritten
  <2>2. convert_and_validate_date(arg) = {mktime(At(day, m, y))}
    BY <1>1, <2>1, WrittenIsTaken
  <2>3. QED
    BY <1>1, <2>2
<1>4. QED
  BY <1>2, <1>3

\* XGET takes an argument that is written like a day of the calendar.
LEMMA DaysAreTaken ==
  ASSUME NEW arg, DaysWritten(arg) # {}
  PROVE  convert_and_validate_date(arg) # {}
<1>1. PICK n \in DOMAIN Calendar : Written(Calendar[n]) = arg
  BY DEF DaysWritten
<1>2. PICK day, m, y : IsDay(day, m, y) /\ IsWritten(Written(Calendar[n]), day, m, y)
  BY CalendarDays
<1>3. IsWritten(arg, day, m, y)
  BY <1>1, <1>2
<1>4. convert_and_validate_date(arg) = {mktime(At(day, m, y))}
  BY <1>2, <1>3, WrittenIsTaken
<1>5. QED
  BY <1>4

\* print_mails_by_day lists the mails of the days written as the argument.
LEMMA DayListed ==
  ASSUME TypeOK, NEW user, NEW arg \in Seq(Int), NEW number \in convert_and_validate_date(arg)
  PROVE  LET mails == Select(by_time, {i \in Of(user) : by_name[i].time \div DayLength \in DaysWritten(arg)})
             reply == print_mails_by_day(number, user)
         IN  /\ IsPrefix(reply.shown, mails)
             /\ reply.kind = "uninitialised" <=> mails = <<>>
             /\ reply.kind = "listing" =>
                  \A k \in 0..Len(mails) : k <= Len(reply.shown) <=> Length(mails, k) < Room
<1> DEFINE D == DOMAIN by_name
           S == {i \in Of(user) : localtime(by_name[i].time) = number}
           T == {i \in Of(user) : by_name[i].time \div DayLength \in DaysWritten(arg)}
           reply == print_mails_by_day(number, user)
           mails == Select(by_time, T)
<1>1. ASSUME NEW i \in D
      PROVE  localtime(by_name[i].time) = number <=> by_name[i].time \div DayLength \in DaysWritten(arg)
  <2> DEFINE n == by_name[i].time \div DayLength
  <2>1. n \in DOMAIN Calendar
    BY LocaltimeIs, CalendarIs
  <2>2. localtime(by_name[i].time) = mktime(FirstDay) + n
    BY LocaltimeIs
  <2> HIDE DEF n
  <2>3. number = mktime(FirstDay) + n <=> n \in DaysWritten(arg)
    BY <2>1, TakenDays
  <2>4. QED
    BY <2>2, <2>3 DEF n
<1>2. Of(user) \subseteq D
  BY DEF Of
<1>3. S = T
  BY <1>1, <1>2
<1>4. reply = Unbounded(Select(by_time, S))
  BY DEF print_mails_by_day
<1>5. by_time \in Seq(D) /\ D \in SUBSET Int
  BY ArrivalOrder DEF TypeOK
<1> HIDE DEF S, T, reply
<1>6. mails \in Seq(D) /\ reply = Unbounded(mails)
  BY <1>3, <1>4, <1>5, SelectElements
<1> HIDE DEF mails
<1>7. /\ IsPrefix(reply.shown, mails)
      /\ reply.kind = "uninitialised" <=> mails = <<>>
      /\ reply.kind = "listing" =>
           \A k \in 0..Len(mails) : k <= Len(reply.shown) <=> Length(mails, k) < Room
  BY <1>6, UnboundedShows
<1>8. QED
  BY <1>7, Zenon DEF reply, mails, T

\* XGET with a date is answered for every day of the calendar, with that day's mails of
\* the user in order of time, all that fit (access_registry.c's convert_and_validate_date and
\* print_mails_by_day).
THEOREM DaysAreListed == Spec => []ListingOfDay
<1>1. ASSUME TypeOK PROVE ListingOfDay
  <2> SUFFICES ASSUME NEW user \in User, NEW arg \in DateArg
               PROVE  LET days  == {n \in DOMAIN Calendar : Written(Calendar[n]) = arg}
                          mails == Select(by_time, {i \in Of(user) : by_name[i].time \div DayLength \in days})
                      IN  /\ days # {} => xget(arg, user) # {}
                          /\ \A reply \in xget(arg, user) :
                               /\ IsPrefix(reply.shown, mails)
                               /\ reply.kind = "uninitialised" <=> mails = <<>>
                               /\ reply.kind = "listing" =>
                                    \A k \in 0..Len(mails) : k <= Len(reply.shown) <=> Length(mails, k) < Room
    BY Zenon DEF ListingOfDay
  <2> DEFINE mails == Select(by_time, {i \in Of(user) : by_name[i].time \div DayLength \in DaysWritten(arg)})
             Good(reply) == /\ IsPrefix(reply.shown, mails)
                            /\ reply.kind = "uninitialised" <=> mails = <<>>
                            /\ reply.kind = "listing" =>
                                 \A k \in 0..Len(mails) : k <= Len(reply.shown) <=> Length(mails, k) < Room
  <2>1. arg \in Seq(Int)
    BY CalendarAssumption
  <2>2. \A number \in convert_and_validate_date(arg) : Good(print_mails_by_day(number, user))
    BY <1>1, <2>1, DayListed, Zenon
  <2>3. DaysWritten(arg) # {} => xget(arg, user) # {}
    BY DaysAreTaken DEF xget
  <2> HIDE DEF Good
  <2>4. \A reply \in xget(arg, user) : Good(reply)
    BY <2>2, Zenon DEF xget
  <2>5. QED
    BY <2>3, <2>4, Zenon DEF DaysWritten, Good
<1>2. ListsAgree => ListingOfDay
  BY <1>1 DEF ListsAgree
<1>3. QED
  BY <1>2, RegistryListsAgree, PTL
=============================================================================
