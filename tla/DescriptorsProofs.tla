-------------------------- MODULE DescriptorsProofs --------------------------
(***************************************************************************)
(* The selector's table and the process's descriptors agree, from the      *)
(* first socket to the exit, for any number of items, descriptors and      *)
(* servers.  CleanTable and Becomes say what the selector's functions do   *)
(* to the table; Running is what the handlers keep (one lemma for each);   *)
(* Inv adds what main has done wherever it is.                             *)
(***************************************************************************)
EXTENDS Lifecycle, TLAPS, WellFoundedInduction

-----------------------------------------------------------------------------
(* Least and greatest numbers, induction and recursion up to a number.     *)

\* A set of naturals has a least element, which Min names.
LEMMA LeastExists ==
  ASSUME NEW S \in SUBSET Nat, S # {}
  PROVE  Min(S) \in S /\ \A y \in S : Min(S) <= y
<1> DEFINE R == {ss \in Nat \X Nat : ss[1] < ss[2]}
<1>1. IsWellFoundedOn(R, Nat)
  BY NatLessThanWellFounded, Zenon DEF OpToRel
<1>2. PICK x \in S : \A y \in S : <<y, x>> \notin R
  BY <1>1, WFMin, Zenon
<1>3. ASSUME NEW y \in S PROVE x <= y
  <2>1. y < x => <<y, x>> \in R
    OBVIOUS
  <2>2. QED
    BY <2>1, <1>2
<1>4. QED
  BY <1>3 DEF Min

\* A bounded set of naturals has a greatest element, which Max names.
LEMMA GreatestExists ==
  ASSUME NEW n \in Nat, NEW S \in SUBSET (0..n), S # {}
  PROVE  Max(S) \in S /\ \A y \in S : y <= Max(S)
<1> DEFINE U == {u \in Nat : \A x \in S : x <= u}
           m == Min(U)
<1>1. n \in U
  OBVIOUS
<1>2. m \in U /\ \A u \in U : m <= u
  BY <1>1, LeastExists
<1> HIDE DEF m
<1>3. m \in S
  <2> SUFFICES ASSUME m \notin S PROVE FALSE
    OBVIOUS
  <2>1. \A x \in S : x <= m - 1
    BY <1>2
  <2>2. m \in Nat /\ m # 0
    <3>1. PICK x : x \in S
      OBVIOUS
    <3>2. m \in Nat /\ x <= m - 1
      BY <1>2, <2>1, <3>1
    <3>3. x \in 0..n
      BY <3>1
    <3>4. QED
      BY <3>2, <3>3
  <2>3. m - 1 \in U
    BY <2>1, <2>2
  <2>4. QED
    BY <1>2, <2>2, <2>3
<1>4. QED
  BY <1>2, <1>3 DEF Max

\* Induction over 0..m, for a set: the library's theorem takes an operator.
LEMMA UpTo ==
  ASSUME NEW m \in Nat, NEW K, 0 \in K, \A k \in 1..m : k - 1 \in K => k \in K
  PROVE  \A k \in 0..m : k \in K
<1> DEFINE Bad == {k \in 0..m : k \notin K}
<1> SUFFICES ASSUME Bad # {} PROVE FALSE
  OBVIOUS
<1>1. Min(Bad) \in Bad /\ \A y \in Bad : Min(Bad) <= y
  BY LeastExists
<1>2. PICK k \in Bad : \A y \in Bad : k <= y
  BY <1>1
<1>3. k # 0
  BY <1>2
<1>4. k \in 1..m /\ k - 1 \in 0..m /\ ~(k <= k - 1)
  BY <1>2, <1>3
<1>5. k - 1 \notin Bad
  BY <1>2, <1>4
<1>6. QED
  BY <1>4, <1>5

\* g is, up to n, what starts with v and goes on by the functions of G.
Follows(g, n, v, G) == \A k \in 0..n : g[k] = IF k = 0 THEN v ELSE G[k][g[k - 1]]

\* A function defined by recursion over 0..m exists.
LEMMA RecursionExists ==
  ASSUME NEW m \in Nat, NEW V, NEW v \in V, NEW G \in [1..m -> [V -> V]]
  PROVE  \E g \in [0..m -> V] : Follows(g, m, v, G)
<1> USE DEF Follows
<1> DEFINE Fits(g, n) == Follows(g, n, v, G)
           K == {n \in 0..m : \E g \in [0..n -> V] : Fits(g, n)}
<1>1. 0 \in K
  <2> DEFINE g == [k \in 0..0 |-> v]
  <2>1. g \in [0..0 -> V] /\ Fits(g, 0)
    OBVIOUS
  <2> HIDE DEF g, Follows
  <2>2. QED
    BY <2>1
<1>2. ASSUME NEW n \in 1..m, n - 1 \in K PROVE n \in K
  <2>1. n - 1 \in 0..m /\ n \in 0..m /\ n \in 1..m /\ 0..n - 1 \subseteq 0..n
    OBVIOUS
  <2>2. PICK g \in [0..n - 1 -> V] : Fits(g, n - 1)
    BY <1>2, <2>1
  <2> DEFINE f == [k \in 0..n |-> IF k = n THEN G[n][g[n - 1]] ELSE g[k]]
  <2>3. g[n - 1] \in V /\ G[n] \in [V -> V] /\ \A k \in 0..n : k = n \/ k \in 0..n - 1
    BY <2>1
  <2>4. f \in [0..n -> V]
    BY <2>3
  <2>5. ASSUME NEW k \in 0..n PROVE f[k] = IF k = 0 THEN v ELSE G[k][f[k - 1]]
    <3>1. k - 1 # n /\ (k # 0 => k - 1 \in 0..n)
      OBVIOUS
    <3>2. CASE k = n
      BY <2>1, <3>1, <3>2
    <3>3. CASE k # n
      <4>1. k \in 0..n - 1
        BY <3>3
      <4>2. g[k] = IF k = 0 THEN v ELSE G[k][g[k - 1]]
        BY <2>2, <4>1
      <4>3. QED
        BY <3>1, <3>3, <4>1, <4>2
    <3>4. QED
      BY <3>2, <3>3
  <2>6. Fits(f, n)
    BY <2>5
  <2> HIDE DEF f, Follows
  <2>7. QED
    BY <2>1, <2>4, <2>6
<1> HIDE DEF K
<1>3. \A n \in 0..m : n \in K
  BY <1>1, <1>2, UpTo
<1>4. m \in K
  BY <1>3
<1>5. QED
  BY <1>4 DEF K

\* The power of two next_capacity looks for exists; the array gets ItemsMax + 1 items.
LEMMA CapacitySuffices == next_capacity(ItemsMax) = ItemsMax + 1
<1> DEFINE n == ItemsMax
           m == n + 1
           shifted == CHOOSE h : h = [bits \in 0..m |-> IF bits = 0 THEN 1 ELSE 2 * h[bits - 1]]
           powers == {shifted[bits] : bits \in {b \in 0..n + 1 : shifted[b] > n}}
<1>1. n \in Nat
  BY DescriptorsAssumption
<1>2. next_capacity(n) = Min({Min(powers), n}) + 1
  BY DEF next_capacity
<1>3. shifted = [bits \in 0..m |-> IF bits = 0 THEN 1 ELSE 2 * shifted[bits - 1]]
  <2> DEFINE G == [bits \in 1..m |-> [x \in Nat |-> 2 * x]]
  <2>1. G \in [1..m -> [Nat -> Nat]] /\ m \in Nat
    BY <1>1
  <2>2. PICK g \in [0..m -> Nat] : Follows(g, m, 1, G)
    <3> HIDE DEF G, m
    <3>1. QED
      BY <2>1, RecursionExists
  <2>3. ASSUME NEW k \in 0..m PROVE g[k] = IF k = 0 THEN 1 ELSE 2 * g[k - 1]
    <3>1. g[k] = IF k = 0 THEN 1 ELSE G[k][g[k - 1]]
      BY <2>2 DEF Follows
    <3>2. k # 0 => k \in 1..m /\ k - 1 \in 0..m /\ g[k - 1] \in Nat
      BY <2>1
    <3>3. QED
      BY <3>1, <3>2
  <2> HIDE DEF m
  <2>4. g = [bits \in 0..m |-> IF bits = 0 THEN 1 ELSE 2 * g[bits - 1]]
    BY <2>3
  <2>5. QED
    BY <2>4
<1> HIDE DEF shifted
<1> DEFINE K == {k \in 0..n + 1 : shifted[k] \in Nat /\ shifted[k] > k}
<1>4. 0 \in K
  BY <1>1, <1>3
<1>5. ASSUME NEW k \in 1..n + 1, k - 1 \in K PROVE k \in K
  <2>1. shifted[k] = 2 * shifted[k - 1]
    BY <1>1, <1>3
  <2>2. QED
    BY <1>1, <1>5, <2>1
<1>6. \A k \in 0..n + 1 : k \in K
  <2>1. n + 1 \in Nat
    BY <1>1
  <2> HIDE DEF K, n
  <2>2. QED
    BY <1>4, <1>5, <2>1, UpTo
<1>7. powers \in SUBSET Nat /\ powers # {} /\ \A y \in powers : y > n
  <2>1. n + 1 \in 0..n + 1 /\ shifted[n + 1] > n
    BY <1>1, <1>6
  <2>2. QED
    BY <1>6, <2>1
<1> HIDE DEF powers
<1>8. Min(powers) \in Nat /\ Min(powers) > n
  BY <1>7, LeastExists
<1>9. Min({Min(powers), n}) = n
  <2>1. {Min(powers), n} \in SUBSET Nat /\ {Min(powers), n} # {}
    BY <1>1, <1>8
  <2>2. Min({Min(powers), n}) \in {Min(powers), n} /\ \A y \in {Min(powers), n} : Min({Min(powers), n}) <= y
    BY <2>1, LeastExists
  <2>3. QED
    BY <1>1, <1>8, <2>2
<1>10. QED
  BY <1>2, <1>9

-----------------------------------------------------------------------------
(* The table.                                                              *)

\* What is not registered has no trace in the table.
CleanTable(s) ==
  /\ s \in FdSelector /\ Consistent(s)
  /\ \A fd \in Fd \ UsedFds(s) : s.fds[fd] = UnusedItem

\* What an operation of the selector leaves of s: a clean table t with the items fds.
Becomes(t, fds, used) == CleanTable(t) /\ t.fds = fds /\ UsedFds(t) = used

\* What a clean table is made of.
LEMMA TableType ==
  ASSUME NEW s, CleanTable(s)
  PROVE  /\ s \in FdSelector /\ s.fds \in [Fd -> Item] /\ s.max_fd \in Fd
         /\ UsedFds(s) \subseteq Fd /\ \A fd \in Fd : fd < s.fd_size /\ ~(fd > s.fd_size)
         /\ Fd \subseteq Nat /\ 0 \in Fd /\ FD_UNUSED \notin Fd
         /\ \A fd \in Fd : fd \in UsedFds(s) <=> s.fds[fd].fd = fd
BY DescriptorsAssumption DEF CleanTable, FdSelector, Consistent, UsedFds, ITEM_USED, FD_UNUSED, Fd

\* items_max_fd finds the highest descriptor in use, up to the old one.
LEMMA HighestOf ==
  ASSUME NEW s, s.max_fd \in Fd
  PROVE  LET m == items_max_fd(s) IN
         /\ m \in Fd /\ (m = 0 \/ m \in UsedFds(s))
         /\ \A fd \in UsedFds(s) : fd <= s.max_fd => fd <= m
<1> DEFINE S == {0} \cup {fd \in UsedFds(s) : fd <= s.max_fd}
<1>1. S \in SUBSET (0..ItemsMax - 1) /\ S # {} /\ ItemsMax - 1 \in Nat
  BY DescriptorsAssumption DEF UsedFds, Fd
<1>2. Max(S) \in S /\ \A y \in S : y <= Max(S)
  BY <1>1, GreatestExists
<1>3. QED
  BY <1>1, <1>2 DEF items_max_fd, Fd

\* selector_new gives a clean table with no item in use.
LEMMA EmptyTable == Becomes(selector_new(InitialItems), [fd \in Fd |-> UnusedItem], {})
<1> DEFINE e == [fds |-> [fd \in Fd |-> UnusedItem], fd_size |-> 0, max_fd |-> 0,
                 master_r |-> {}, master_w |-> {}]
           t == [e EXCEPT !.fd_size = ItemsMax + 1]
<1>1. InitialItems = ItemsMax /\ ItemsMax \in Nat \ {0}
  BY DescriptorsAssumption, LifecycleAssumption
<1>2. selector_new(InitialItems) = t
  BY <1>1, CapacitySuffices DEF selector_new, ensure_capacity
<1>3. UnusedItem \in Item /\ UnusedItem.fd = FD_UNUSED
  BY DEF UnusedItem, Item
<1>4. t.fds = [fd \in Fd |-> UnusedItem] /\ t.fd_size = ItemsMax + 1 /\ t.max_fd = 0
      /\ t.master_r = {} /\ t.master_w = {}
  OBVIOUS
<1>5. t \in FdSelector
  <2>1. t = [fds |-> [fd \in Fd |-> UnusedItem], fd_size |-> ItemsMax + 1, max_fd |-> 0,
             master_r |-> {}, master_w |-> {}]
    OBVIOUS
  <2>2. [fd \in Fd |-> UnusedItem] \in [Fd -> Item] /\ ItemsMax + 1 \in Nat /\ 0 \in Fd
    BY <1>1, <1>3 DEF Fd
  <2> HIDE DEF t
  <2>3. QED
    BY <2>1, <2>2 DEF FdSelector
<1> HIDE DEF t
<1>6. UsedFds(t) = {}
  BY <1>3, <1>4 DEF UsedFds, ITEM_USED
<1>7. CleanTable(t)
  BY <1>1, <1>3, <1>4, <1>5, <1>6 DEF CleanTable, Consistent, Fd
<1>8. QED
  BY <1>2, <1>4, <1>6, <1>7 DEF Becomes

\* selector_set_interest of a registered descriptor changes that interest alone.
LEMMA InterestSet ==
  ASSUME NEW s, CleanTable(s), NEW fd \in UsedFds(s), NEW interest \in SUBSET Op
  PROVE  LET r == selector_set_interest(s, fd, interest) IN
         /\ r.status = "SUCCESS"
         /\ Becomes(r.s, [s.fds EXCEPT ![fd].interest = interest], UsedFds(s))
<1> DEFINE a == [s EXCEPT !.fds[fd].interest = interest]
           t == items_update_fdset_for_fd(a, fd, interest)
<1>1. fd \in Fd /\ ITEM_USED(s.fds[fd])
  BY DEF UsedFds
<1>2. selector_set_interest(s, fd, interest) = [s |-> t, status |-> "SUCCESS"]
  BY <1>1 DEF selector_set_interest, INVALID_FD
<1>3. s \in FdSelector
  BY DEF CleanTable
<1>4. a \in FdSelector /\ a.fds = [s.fds EXCEPT ![fd].interest = interest]
      /\ a.fd_size = s.fd_size /\ a.max_fd = s.max_fd /\ a.master_r = s.master_r /\ a.master_w = s.master_w
  BY <1>1, <1>3 DEF FdSelector, Item
<1> HIDE DEF a
<1>5. t \in FdSelector /\ t.fds = a.fds /\ t.fd_size = a.fd_size /\ t.max_fd = a.max_fd
      /\ t.master_r = (a.master_r \ {fd}) \cup {f \in {fd} : "READ" \in interest}
      /\ t.master_w = (a.master_w \ {fd}) \cup {f \in {fd} : "WRITE" \in interest}
  BY <1>1, <1>4 DEF FdSelector, items_update_fdset_for_fd
<1> HIDE DEF t
<1>6. /\ \A x \in Fd : t.fds[x].fd = s.fds[x].fd
      /\ \A x \in Fd \ {fd} : t.fds[x] = s.fds[x]
      /\ t.fds[fd].interest = interest
  BY <1>1, <1>3, <1>4, <1>5 DEF FdSelector, Item
<1>7. UsedFds(t) = UsedFds(s)
  BY <1>6 DEF UsedFds, ITEM_USED
<1>8. CleanTable(t)
  BY <1>1, <1>4, <1>5, <1>6, <1>7 DEF CleanTable, Consistent
<1>9. QED
  BY <1>2, <1>4, <1>5, <1>7, <1>8 DEF Becomes

\* selector_set_interest refuses what is not registered, and changes nothing.
LEMMA InterestRefused ==
  ASSUME NEW s, NEW fd, NEW interest, fd \notin UsedFds(s)
  PROVE  selector_set_interest(s, fd, interest) = [s |-> s, status |-> "IARGS"]
BY DEF selector_set_interest, INVALID_FD, UsedFds

\* selector_register of a valid descriptor not in use succeeds and adds its item.
LEMMA Registered ==
  ASSUME NEW s, CleanTable(s), NEW fd \in Fd \ UsedFds(s), NEW interest \in SUBSET Op,
         NEW handler \in {"passive", "udp", "smtp", "file", "log"}, NEW data \in Int
  PROVE  LET r == selector_register(s, fd, handler, interest, data)
             item == [fd |-> fd, interest |-> interest, handler |-> handler, data |-> data]
         IN  /\ r.status = "SUCCESS"
             /\ Becomes(r.s, [s.fds EXCEPT ![fd] = item], UsedFds(s) \cup {fd})
<1> DEFINE item == [fd |-> fd, interest |-> interest, handler |-> handler, data |-> data]
           m == IF fd > s.max_fd THEN fd ELSE s.max_fd
           a == [s EXCEPT !.fds[fd] = item, !.max_fd = m]
           t == items_update_fdset_for_fd(a, fd, interest)
<1>1. fd \in Fd /\ ~ITEM_USED(s.fds[fd]) /\ ~(fd > s.fd_size)
  BY TableType DEF UsedFds
<1>2. selector_register(s, fd, handler, interest, data) = [s |-> t, status |-> "SUCCESS"]
  BY <1>1 DEF selector_register, INVALID_FD
<1>3. s \in FdSelector /\ item \in Item /\ m \in Fd
  BY <1>1 DEF CleanTable, FdSelector, Item
<1>4. a \in FdSelector /\ a.fds = [s.fds EXCEPT ![fd] = item]
      /\ a.fd_size = s.fd_size /\ a.max_fd = m /\ a.master_r = s.master_r /\ a.master_w = s.master_w
  BY <1>1, <1>3 DEF FdSelector
<1> HIDE DEF a
<1>5. t \in FdSelector /\ t.fds = a.fds /\ t.fd_size = a.fd_size /\ t.max_fd = a.max_fd
      /\ t.master_r = (a.master_r \ {fd}) \cup {f \in {fd} : "READ" \in interest}
      /\ t.master_w = (a.master_w \ {fd}) \cup {f \in {fd} : "WRITE" \in interest}
  BY <1>1, <1>4 DEF FdSelector, items_update_fdset_for_fd
<1> HIDE DEF t
<1>6. /\ \A x \in Fd \ {fd} : t.fds[x] = s.fds[x]
      /\ t.fds[fd].fd = fd /\ t.fds[fd].interest = interest
  BY <1>1, <1>3, <1>4, <1>5 DEF FdSelector
<1>7. UsedFds(t) = UsedFds(s) \cup {fd}
  <2>1. fd # FD_UNUSED
    BY TableType
  <2>2. QED
    BY <1>1, <1>6, <2>1 DEF UsedFds, ITEM_USED
<1>8. CleanTable(t)
  <2>1. Consistent(s) /\ \A x \in Fd \ UsedFds(s) : s.fds[x] = UnusedItem
    BY DEF CleanTable
  <2>2. t.master_r = {x \in UsedFds(t) : "READ" \in t.fds[x].interest}
        /\ t.master_w = {x \in UsedFds(t) : "WRITE" \in t.fds[x].interest}
    BY <1>1, <1>4, <1>5, <1>6, <1>7, <2>1 DEF Consistent, UsedFds
  <2>3. \A x \in UsedFds(t) : x <= t.max_fd
    BY <1>1, <1>3, <1>4, <1>5, <1>7, <2>1 DEF Consistent, FdSelector, Fd, UsedFds
  <2>4. t.max_fd = 0 \/ t.max_fd \in UsedFds(t)
    BY <1>3, <1>4, <1>5, <1>7, <2>1 DEF Consistent
  <2>5. QED
    BY <1>1, <1>4, <1>5, <1>6, <1>7, <2>1, <2>2, <2>3, <2>4 DEF CleanTable, Consistent
<1>9. QED
  BY <1>2, <1>4, <1>5, <1>7, <1>8 DEF Becomes

\* The array never has to grow.
LEMMA RegisterRefused ==
  ASSUME NEW s, CleanTable(s), NEW fd \in Nat, NEW interest, NEW handler, NEW data,
         fd \in UsedFds(s) \/ fd \notin Fd
  PROVE  LET r == selector_register(s, fd, handler, interest, data)
         IN  r.s = s /\ r.status # "SUCCESS"
<1>1. CASE fd \notin Fd
  BY <1>1 DEF selector_register, INVALID_FD
<1>2. CASE fd \in UsedFds(s)
  <2>1. fd \in Fd /\ ITEM_USED(s.fds[fd]) /\ ~(fd > s.fd_size)
    BY <1>2, TableType DEF UsedFds
  <2>2. QED
    BY <2>1 DEF selector_register, INVALID_FD
<1>3. QED
  BY <1>1, <1>2

\* selector_unregister_fd takes one item away, with its bits.
LEMMA UnregisteredOne ==
  ASSUME NEW s, CleanTable(s), NEW fd \in UsedFds(s)
  PROVE  Becomes(selector_unregister_fd(s, fd), [s.fds EXCEPT ![fd] = UnusedItem], UsedFds(s) \ {fd})
<1> DEFINE a == items_update_fdset_for_fd(s, fd, {})
           b == [a EXCEPT !.fds[fd] = UnusedItem]
           t == [b EXCEPT !.max_fd = items_max_fd(b)]
<1>1. fd \in Fd /\ ITEM_USED(s.fds[fd])
  BY DEF UsedFds
<1>2. selector_unregister_fd(s, fd) = t
  BY <1>1 DEF selector_unregister_fd, INVALID_FD
<1>3. s \in FdSelector /\ UnusedItem \in Item /\ UnusedItem.fd = FD_UNUSED
  BY DEF CleanTable, UnusedItem, Item
<1>4. a \in FdSelector /\ a.fds = s.fds /\ a.fd_size = s.fd_size /\ a.max_fd = s.max_fd
      /\ a.master_r = s.master_r \ {fd} /\ a.master_w = s.master_w \ {fd}
  BY <1>1, <1>3 DEF FdSelector, items_update_fdset_for_fd
<1> HIDE DEF a
<1>5. b \in FdSelector /\ b.fds = [s.fds EXCEPT ![fd] = UnusedItem] /\ b.fd_size = s.fd_size
      /\ b.max_fd = s.max_fd /\ b.master_r = s.master_r \ {fd} /\ b.master_w = s.master_w \ {fd}
  BY <1>1, <1>3, <1>4 DEF FdSelector
<1> HIDE DEF b
<1>6. UsedFds(b) = UsedFds(s) \ {fd}
  BY <1>1, <1>3, <1>5 DEF FdSelector, UsedFds, ITEM_USED
<1> DEFINE m == items_max_fd(b)
<1>7. /\ m \in Fd /\ (m = 0 \/ m \in UsedFds(b))
      /\ \A x \in UsedFds(b) : x <= b.max_fd => x <= m
  BY <1>5, HighestOf DEF FdSelector
<1> HIDE DEF m
<1>8. t \in FdSelector /\ t.fds = b.fds /\ t.fd_size = s.fd_size /\ t.max_fd = m
      /\ t.master_r = b.master_r /\ t.master_w = b.master_w
  BY <1>5, <1>7 DEF FdSelector, m
<1> HIDE DEF t
<1>9. UsedFds(t) = UsedFds(b)
  BY <1>8 DEF UsedFds
<1>10. \A x \in Fd \ {fd} : t.fds[x] = s.fds[x]
  BY <1>1, <1>3, <1>5, <1>8 DEF FdSelector
<1>11. t.fds[fd] = UnusedItem
  BY <1>1, <1>3, <1>5, <1>8 DEF FdSelector
<1>12. CleanTable(t)
  <2>1. Consistent(s) /\ \A x \in Fd \ UsedFds(s) : s.fds[x] = UnusedItem
    BY DEF CleanTable
  <2>2. t.master_r = {x \in UsedFds(t) : "READ" \in t.fds[x].interest}
        /\ t.master_w = {x \in UsedFds(t) : "WRITE" \in t.fds[x].interest}
    BY <1>1, <1>5, <1>6, <1>8, <1>9, <1>10, <2>1 DEF Consistent, UsedFds
  <2>3. \A x \in UsedFds(t) : x <= t.max_fd
    BY <1>5, <1>6, <1>7, <1>8, <1>9, <2>1 DEF Consistent
  <2>4. QED
    BY <1>3, <1>6, <1>7, <1>8, <1>9, <1>10, <1>11, <2>1, <2>2, <2>3 DEF CleanTable, Consistent
<1>13. QED
  BY <1>2, <1>5, <1>6, <1>8, <1>9, <1>12 DEF Becomes

\* selector_destroy leaves no item in use.
LEMMA AllUnregistered ==
  ASSUME NEW s, CleanTable(s)
  PROVE  Becomes(selector_destroy(s), [fd \in Fd |-> UnusedItem], {})
<1> DEFINE fds == {fd \in UsedFds(s) : fd < s.fd_size}
           a == [s EXCEPT !.fds = [fd \in Fd |-> IF fd \in fds THEN UnusedItem ELSE @[fd]],
                          !.master_r = @ \ fds, !.master_w = @ \ fds]
           t == [a EXCEPT !.max_fd = items_max_fd(a)]
<1>1. fds = UsedFds(s)
  BY TableType DEF UsedFds
<1>2. selector_destroy(s) = t
  BY DEF selector_destroy, Unregistered
<1>3. s \in FdSelector /\ UnusedItem \in Item /\ UnusedItem.fd = FD_UNUSED
      /\ \A x \in Fd \ UsedFds(s) : s.fds[x] = UnusedItem
  BY DEF CleanTable, UnusedItem, Item
<1>4. s.master_r \subseteq UsedFds(s) /\ s.master_w \subseteq UsedFds(s)
  BY DEF CleanTable, Consistent
<1>5. a.fds = [fd \in Fd |-> UnusedItem] /\ a.fd_size = s.fd_size
      /\ a.max_fd = s.max_fd /\ a.master_r = {} /\ a.master_w = {}
  BY <1>1, <1>3, <1>4 DEF FdSelector
<1>6. a \in FdSelector
  BY <1>1, <1>3 DEF FdSelector
<1> HIDE DEF a
<1>7. UsedFds(a) = {}
  BY <1>3, <1>5 DEF UsedFds, ITEM_USED
<1> DEFINE m == items_max_fd(a)
<1>8. m \in Fd /\ m = 0
  BY <1>6, <1>7, HighestOf DEF FdSelector
<1> HIDE DEF m
<1>9. t \in FdSelector /\ t.fds = a.fds /\ t.fd_size = s.fd_size /\ t.max_fd = m
      /\ t.master_r = a.master_r /\ t.master_w = a.master_w
  BY <1>5, <1>6, <1>8 DEF FdSelector, m
<1> HIDE DEF t
<1>10. UsedFds(t) = {}
  BY <1>7, <1>9 DEF UsedFds
<1>11. CleanTable(t)
  BY <1>3, <1>5, <1>8, <1>9, <1>10 DEF CleanTable, Consistent
<1>12. QED
  BY <1>2, <1>5, <1>9, <1>10, <1>11 DEF Becomes

-----------------------------------------------------------------------------
(* The invariant.                                                          *)

IsA(w, fd, handler) == fd \in UsedFds(w.sel) /\ w.sel.fds[fd].handler = handler

\* The interest of a session's socket says whose turn it is.
InterestOf(turn) ==
  CASE turn \in {"reply", "go ahead"} -> {"WRITE"}
    [] turn \in {"command", "body"}   -> {"READ"}
    [] OTHER                          -> {}

ServerOK(w, fd) == w.open[fd] = "socket" /\ w.sel.fds[fd].interest = {"READ"}

SessionOK(w, fd) ==
  /\ fd \in KernelFd \ Servers /\ w.open[fd] = "socket"
  /\ w.sess[fd].turn \notin {"none", "gone"}
  /\ w.sel.fds[fd].interest = InterestOf(w.sess[fd].turn)
  /\ w.sess[fd].turn = "body" /\ w.sess[fd].output \in Fd =>
       IsA(w, w.sess[fd].output, "file") /\ w.sel.fds[w.sess[fd].output].data = fd

FileOK(w, f) ==
  LET fd == w.sel.fds[f].data
  IN  /\ f \in KernelFd \ Servers /\ w.open[f] = "file"
      /\ w.sel.fds[f].interest \in {{}, {"WRITE"}}
      /\ w.sel.fds[f].interest = {"WRITE"} =>
           IsA(w, fd, "smtp") /\ w.sess[fd].output = f /\ w.sess[fd].turn \in {"disk", "error"}

NoClients(w) == \A fd : ~IsA(w, fd, "smtp") /\ ~IsA(w, fd, "file")

\* The log's descriptor, while it is the log's; when there was no memory for a buffer
\* it is free until the first client to come gets it, and a leaked socket from then on.
LogOK(w, l, fd) ==
  /\ fd \in KernelFd \ Servers /\ w.sel.fds[fd].interest = {}
  /\ \/ fd = l /\ w.open[fd] = "file"
     \/ fd # l /\ w.open[fd] = "socket"
     \/ fd # l /\ w.open[fd] = "free" /\ fd = Lowest(w) /\ NoClients(w)

ItemOK(w, l, fd) ==
  \/ IsA(w, fd, "passive") /\ fd \in Passive /\ ServerOK(w, fd)
  \/ IsA(w, fd, "udp")     /\ fd \in Udp     /\ ServerOK(w, fd)
  \/ IsA(w, fd, "smtp")    /\ SessionOK(w, fd)
  \/ IsA(w, fd, "file")    /\ FileOK(w, fd)
  \/ IsA(w, fd, "log")     /\ LogOK(w, l, fd)

WorldOK(w, l) ==
  /\ w \in World /\ CleanTable(w.sel)
  /\ \A fd \in UsedFds(w.sel) : ItemOK(w, l, fd)

\* While the loop runs.
Running(w, l) ==
  /\ WorldOK(w, l)
  /\ \A fd \in Servers : w.open[fd] = "socket"
  /\ l # -1 => l \in KernelFd /\ IsA(w, l, "log") /\ w.open[l] = "file"

-----------------------------------------------------------------------------
(* Steps of a session, of its file, and of the table under both.           *)

\* No output file of fd's is armed.
Unarmed(w, fd) == \A f : IsA(w, f, "file") /\ w.sel.fds[f].data = fd => w.sel.fds[f].interest = {}

\* Listening sockets stay registered.
Listening(w, u) == \A p \in Passive : p \in UsedFds(w.sel) => p \in UsedFds(u.sel)

\* The same items are registered.
Alike(w, u) == \A x, h : IsA(u, x, h) <=> IsA(w, x, h)

\* What a world is made of.
LEMMA WorldType ==
  ASSUME NEW w, w \in World
  PROVE  /\ w.sel \in FdSelector /\ w.sess \in [KernelFd -> Session]
         /\ w.open \in [KernelFd -> {"free", "socket", "file", "leaked"}]
         /\ \A fd \in KernelFd : w.sess[fd].turn \in Turn /\ w.sess[fd].output \in -1..FdLimit - 1
         /\ KernelFd \subseteq Nat /\ Fd \subseteq Nat /\ Servers \subseteq Fd \cap KernelFd
         /\ UsedFds(w.sel) \subseteq Fd /\ w.sel.fds \in [Fd -> Item]
         /\ w = [sel |-> w.sel, open |-> w.open, sess |-> w.sess]
BY DescriptorsAssumption DEF World, Session, KernelFd, Fd, Servers, UsedFds, FdSelector

\* u is w with the turn and the output of a session changed.
Moved(w, u, fd, turn, out) ==
  /\ u \in World
  /\ Becomes(u.sel, [w.sel.fds EXCEPT ![fd].interest = InterestOf(turn)], UsedFds(w.sel))
  /\ u.open = w.open /\ u.sess = [w.sess EXCEPT ![fd] = [turn |-> turn, output |-> out]]

\* A session that has no armed file takes any turn, with the interest that goes with it.
LEMMA SessionMoves ==
  ASSUME NEW w, NEW l, Running(w, l), NEW fd, IsA(w, fd, "smtp"), Unarmed(w, fd),
         NEW turn \in Turn \ {"none", "gone"}, NEW out \in -1..FdLimit - 1,
         turn = "body" /\ out \in Fd => IsA(w, out, "file") /\ w.sel.fds[out].data = fd,
         NEW u, Moved(w, u, fd, turn, out)
  PROVE  /\ Running(u, l) /\ Listening(w, u) /\ Unarmed(u, fd) /\ Alike(w, u)
<1> USE DEF Moved
<1>1. w \in World /\ CleanTable(w.sel) /\ CleanTable(u.sel) /\ UsedFds(u.sel) = UsedFds(w.sel)
      /\ \A x \in UsedFds(w.sel) : ItemOK(w, l, x)
  BY DEF Running, WorldOK, Becomes
<1>2. fd \in UsedFds(w.sel) /\ fd \in Fd /\ fd \in KernelFd
  BY <1>1, WorldType DEF IsA, ItemOK, SessionOK
<1>3. /\ \A x \in Fd \ {fd} : u.sel.fds[x] = w.sel.fds[x]
      /\ \A x \in Fd : u.sel.fds[x].handler = w.sel.fds[x].handler /\ u.sel.fds[x].data = w.sel.fds[x].data
      /\ u.sel.fds[fd].interest = InterestOf(turn)
  BY <1>1, <1>2, WorldType DEF Becomes, Item
<1>4. /\ \A x \in KernelFd \ {fd} : u.sess[x] = w.sess[x]
      /\ u.sess[fd].turn = turn /\ u.sess[fd].output = out
  BY <1>1, <1>2, WorldType
<1>5. \A x, h : IsA(u, x, h) <=> IsA(w, x, h)
  BY <1>1, <1>3, WorldType DEF IsA
<1>6. SessionOK(u, fd)
  <2>1. SessionOK(w, fd)
    BY <1>1, <1>2 DEF ItemOK, IsA
  <2>2. QED
    BY <1>2, <1>3, <1>4, <1>5, <2>1 DEF SessionOK
<1>7. ASSUME NEW x \in UsedFds(u.sel), x # fd PROVE ItemOK(u, l, x)
  <2>1. ItemOK(w, l, x) /\ x \in Fd /\ u.sel.fds[x] = w.sel.fds[x]
    BY <1>1, <1>3, <1>7, WorldType
  <2>2. CASE IsA(w, x, "passive") \/ IsA(w, x, "udp")
    BY <1>5, <2>1, <2>2 DEF ItemOK, IsA, ServerOK
  <2>3. CASE IsA(w, x, "smtp")
    <3>1. SessionOK(w, x)
      BY <2>1, <2>3 DEF ItemOK, IsA
    <3>2. u.sess[x] = w.sess[x]
      BY <1>4, <1>7, <3>1 DEF SessionOK
    <3>3. w.sess[x].output \in Fd => u.sel.fds[w.sess[x].output].data = w.sel.fds[w.sess[x].output].data
      BY <1>3
    <3>4. SessionOK(u, x)
      BY <1>5, <2>1, <3>1, <3>2, <3>3 DEF SessionOK
    <3>5. QED
      BY <1>5, <2>3, <3>4 DEF ItemOK
  <2>4. CASE IsA(w, x, "file")
    <3>1. FileOK(w, x)
      BY <2>1, <2>4 DEF ItemOK, IsA
    <3>2. w.sel.fds[x].interest = {"WRITE"} =>
            w.sel.fds[x].data # fd /\ w.sel.fds[x].data \in KernelFd
      <4>1. w.sel.fds[x].interest = {"WRITE"} => ItemOK(w, l, w.sel.fds[x].data) /\ IsA(w, w.sel.fds[x].data, "smtp")
        BY <1>1, <3>1 DEF FileOK, IsA
      <4>2. QED
        BY <2>4, <4>1 DEF Unarmed, ItemOK, IsA, SessionOK
    <3>3. FileOK(u, x)
      BY <1>4, <1>5, <2>1, <3>1, <3>2 DEF FileOK
    <3>4. QED
      BY <1>5, <2>4, <3>3 DEF ItemOK
  <2>5. CASE IsA(w, x, "log")
    <3>1. LogOK(w, l, x)
      BY <2>1, <2>5 DEF ItemOK, IsA
    <3>2. ~NoClients(w)
      BY DEF NoClients
    <3>3. LogOK(u, l, x)
      BY <2>1, <3>1, <3>2 DEF LogOK
    <3>4. QED
      BY <1>5, <2>5, <3>3 DEF ItemOK
  <2>6. QED
    BY <2>1, <2>2, <2>3, <2>4, <2>5 DEF ItemOK
<1>8. \A x \in UsedFds(u.sel) : ItemOK(u, l, x)
  BY <1>5, <1>6, <1>7 DEF ItemOK
<1>9. Running(u, l)
  BY <1>1, <1>5, <1>8 DEF Running, WorldOK
<1>10. Unarmed(u, fd)
  <2>1. ASSUME NEW f, IsA(u, f, "file"), u.sel.fds[f].data = fd PROVE u.sel.fds[f].interest = {}
    <3>1. IsA(w, f, "file") /\ f # fd /\ f \in Fd
      BY ZenonT(60), <1>1, <1>5, <2>1, WorldType DEF IsA
    <3>2. QED
      BY <1>3, <2>1, <3>1 DEF Unarmed
  <2>2. QED
    BY <2>1 DEF Unarmed
<1>11. QED
  BY <1>1, <1>5, <1>9, <1>10 DEF Listening, Alike

\* Only a session whose turn is the disk's has an armed file.
LEMMA OnlyDisksAreArmed ==
  ASSUME NEW w, NEW l, Running(w, l), NEW fd,
         IsA(w, fd, "smtp") => w.sess[fd].turn \notin {"disk", "error"}
  PROVE  Unarmed(w, fd)
<1>1. ASSUME NEW f, IsA(w, f, "file"), w.sel.fds[f].data = fd PROVE w.sel.fds[f].interest = {}
  <2>1. FileOK(w, f)
    BY <1>1 DEF Running, WorldOK, ItemOK, IsA
  <2>2. QED
    BY <1>1, <2>1 DEF FileOK
<1>2. QED
  BY <1>1 DEF Unarmed

\* The session of an armed file has no other.
LEMMA ArmedSession ==
  ASSUME NEW w, NEW l, Running(w, l), NEW f, IsA(w, f, "file"), "WRITE" \in w.sel.fds[f].interest
  PROVE  LET fd == w.sel.fds[f].data
         IN  /\ IsA(w, fd, "smtp") /\ w.sess[fd].output = f /\ w.sess[fd].turn \in {"disk", "error"}
             /\ fd \in KernelFd /\ f \in KernelFd /\ w.open[f] = "file"
             /\ \A g : IsA(w, g, "file") /\ w.sel.fds[g].data = fd => g = f \/ w.sel.fds[g].interest = {}
<1> DEFINE fd == w.sel.fds[f].data
<1>1. \A g : IsA(w, g, "file") => FileOK(w, g)
  BY DEF Running, WorldOK, ItemOK, IsA
<1>2. FileOK(w, f) /\ w.sel.fds[f].interest = {"WRITE"}
  BY <1>1 DEF FileOK
<1>3. IsA(w, fd, "smtp") /\ SessionOK(w, fd)
  BY <1>2 DEF FileOK, Running, WorldOK, ItemOK, IsA
<1>4. w.sess[fd].output = f /\ w.sess[fd].turn \in {"disk", "error"} /\ fd \in KernelFd
      /\ f \in KernelFd /\ w.open[f] = "file"
  BY <1>2, <1>3 DEF FileOK, SessionOK
<1>5. ASSUME NEW g, IsA(w, g, "file"), w.sel.fds[g].data = fd, w.sel.fds[g].interest # {} PROVE g = f
  <2>1. FileOK(w, g)
    BY <1>1, <1>5
  <2>2. w.sess[fd].output = g
    BY <1>5, <2>1 DEF FileOK
  <2>3. QED
    BY <1>4, <2>2
<1> HIDE DEF fd
<1>6. QED
  BY <1>3, <1>4, <1>5, Zenon DEF fd

\* u is w with another interest of a file.
Rearmed(w, u, f, interest) ==
  /\ u \in World /\ u.open = w.open /\ u.sess = w.sess
  /\ Becomes(u.sel, [w.sel.fds EXCEPT ![f].interest = interest], UsedFds(w.sel))

\* A file is armed for the session it is the output of, when it is the disk's turn.
LEMMA FileInterest ==
  ASSUME NEW w, NEW l, Running(w, l), NEW f, IsA(w, f, "file"),
         NEW interest \in {{}, {"WRITE"}}, NEW fd, fd = w.sel.fds[f].data,
         interest # {} => IsA(w, fd, "smtp") /\ w.sess[fd].output = f /\ w.sess[fd].turn = "disk",
         NEW u, Rearmed(w, u, f, interest)
  PROVE  Running(u, l) /\ Listening(w, u) /\ Alike(w, u)
<1> USE DEF Rearmed
<1>1. w \in World /\ CleanTable(w.sel) /\ CleanTable(u.sel) /\ UsedFds(u.sel) = UsedFds(w.sel)
      /\ \A x \in UsedFds(w.sel) : ItemOK(w, l, x)
  BY DEF Running, WorldOK, Becomes
<1>2. f \in UsedFds(w.sel) /\ f \in Fd
  BY <1>1, WorldType DEF IsA
<1>3. /\ \A x \in Fd \ {f} : u.sel.fds[x] = w.sel.fds[x]
      /\ \A x \in Fd : u.sel.fds[x].handler = w.sel.fds[x].handler /\ u.sel.fds[x].data = w.sel.fds[x].data
      /\ u.sel.fds[f].interest = interest
  BY <1>1, <1>2, WorldType DEF Becomes, Item
<1>4. \A x, h : IsA(u, x, h) <=> IsA(w, x, h)
  BY <1>1, <1>3, WorldType DEF IsA
<1>5. ItemOK(u, l, f)
  <2>1. FileOK(w, f)
    BY <1>1, <1>2 DEF ItemOK, IsA
  <2>2. FileOK(u, f)
    BY <1>2, <1>3, <1>4, <2>1 DEF FileOK
  <2>3. QED
    BY <1>4, <2>2 DEF ItemOK
<1>6. ASSUME NEW x \in UsedFds(u.sel), x # f PROVE ItemOK(u, l, x)
  <2>1. ItemOK(w, l, x) /\ x \in Fd /\ u.sel.fds[x] = w.sel.fds[x]
    BY <1>1, <1>3, <1>6, WorldType
  <2>2. CASE IsA(w, x, "passive") \/ IsA(w, x, "udp")
    BY <1>4, <2>1, <2>2 DEF ItemOK, IsA, ServerOK
  <2>3. CASE IsA(w, x, "smtp")
    <3>1. SessionOK(w, x)
      BY <2>1, <2>3 DEF ItemOK, IsA
    <3>2. w.sess[x].output \in Fd => u.sel.fds[w.sess[x].output].data = w.sel.fds[w.sess[x].output].data
      BY <1>3
    <3>3. SessionOK(u, x)
      BY <1>4, <2>1, <3>1, <3>2 DEF SessionOK
    <3>4. QED
      BY <1>4, <2>3, <3>3 DEF ItemOK
  <2>4. CASE IsA(w, x, "file")
    <3>1. FileOK(w, x)
      BY <2>1, <2>4 DEF ItemOK, IsA
    <3>2. FileOK(u, x)
      BY <1>4, <2>1, <3>1 DEF FileOK
    <3>3. QED
      BY <1>4, <2>4, <3>2 DEF ItemOK
  <2>5. CASE IsA(w, x, "log")
    <3>1. LogOK(w, l, x)
      BY <2>1, <2>5 DEF ItemOK, IsA
    <3>2. ~NoClients(w)
      BY DEF NoClients
    <3>3. LogOK(u, l, x)
      BY <2>1, <3>1, <3>2 DEF LogOK
    <3>4. QED
      BY <1>4, <2>5, <3>3 DEF ItemOK
  <2>6. QED
    BY <2>1, <2>2, <2>3, <2>4, <2>5 DEF ItemOK
<1>7. Running(u, l)
  BY <1>1, <1>4, <1>5, <1>6 DEF Running, WorldOK
<1>8. QED
  BY <1>1, <1>4, <1>7 DEF Listening, Alike

\* u is w but for the turn of one session, whose file could not be written.
FailedWrite(w, fd, u) == u.sess = [w.sess EXCEPT ![fd].turn = "error"]

\* The write() of an armed file fails.
LEMMA SessionFails ==
  ASSUME NEW w, NEW l, Running(w, l), NEW f, IsA(w, f, "file"), "WRITE" \in w.sel.fds[f].interest,
         NEW fd, fd = w.sel.fds[f].data, NEW u \in World, u.sel = w.sel, u.open = w.open,
         FailedWrite(w, fd, u)
  PROVE  Running(u, l) /\ Listening(w, u)
<1>1. w \in World /\ CleanTable(w.sel) /\ \A x \in UsedFds(w.sel) : ItemOK(w, l, x)
  BY DEF Running, WorldOK
<1>2. IsA(w, fd, "smtp") /\ w.sess[fd].output = f /\ w.sess[fd].turn \in {"disk", "error"} /\ fd \in KernelFd
  BY ArmedSession
<1>3. /\ \A x \in KernelFd \ {fd} : u.sess[x] = w.sess[x]
      /\ u.sess[fd].turn = "error" /\ u.sess[fd].output = f
  <2>1. w.sess \in [KernelFd -> Session] /\ w.sess[fd] \in Session
    BY SMTT(30), <1>1, <1>2, WorldType
  <2>2. u.sess[fd] = [w.sess[fd] EXCEPT !.turn = "error"] /\ \A x \in KernelFd \ {fd} : u.sess[x] = w.sess[x]
    BY <1>2, <2>1 DEF FailedWrite
  <2>3. QED
    BY <1>2, <2>1, <2>2 DEF Session
<1>4. \A x, h : IsA(u, x, h) <=> IsA(w, x, h)
  BY DEF IsA
<1>5. ASSUME NEW x \in UsedFds(u.sel) PROVE ItemOK(u, l, x)
  <2>1. ItemOK(w, l, x)
    BY <1>1, <1>5
  <2>2. CASE IsA(w, x, "passive") \/ IsA(w, x, "udp")
    BY <1>4, <2>1, <2>2 DEF ItemOK, IsA, ServerOK
  <2>3. CASE IsA(w, x, "smtp")
    <3>1. SessionOK(w, x)
      BY <2>1, <2>3 DEF ItemOK, IsA
    <3>2. SessionOK(u, x)
      <4>1. CASE x = fd
        BY <1>2, <1>3, <1>4, <3>1, <4>1 DEF SessionOK, InterestOf
      <4>2. CASE x # fd
        BY <1>3, <1>4, <3>1, <4>2 DEF SessionOK
      <4>3. QED
        BY <4>1, <4>2
    <3>3. QED
      BY <1>4, <2>3, <3>2 DEF ItemOK
  <2>4. CASE IsA(w, x, "file")
    <3>1. FileOK(w, x)
      BY <2>1, <2>4 DEF ItemOK, IsA
    <3>2. IsA(w, w.sel.fds[x].data, "smtp") => w.sel.fds[x].data \in KernelFd
      BY <1>1 DEF IsA, ItemOK, SessionOK
    <3>3. FileOK(u, x)
      <4> DEFINE g == w.sel.fds[x].data
      <4>1. u.sel.fds[x] = w.sel.fds[x] /\ u.open[x] = w.open[x]
        OBVIOUS
      <4>2. ASSUME w.sel.fds[x].interest = {"WRITE"}
            PROVE  /\ IsA(u, g, "smtp") /\ u.sess[g].output = x
                   /\ u.sess[g].turn \in {"disk", "error"}
        <5>1. /\ IsA(w, g, "smtp") /\ w.sess[g].output = x
              /\ w.sess[g].turn \in {"disk", "error"}
          BY <3>1, <4>2 DEF FileOK
        <5> HIDE DEF g
        <5>2. CASE g = fd
          BY <1>2, <1>3, <1>4, <5>1, <5>2
        <5>3. CASE g # fd
          <6>1. g \in KernelFd \ {fd}
            BY <3>2, <5>1, <5>3 DEF g
          <6>2. QED
            BY <1>3, <1>4, <5>1, <6>1
        <5>4. QED
          BY <5>2, <5>3
      <4>3. QED
        BY <3>1, <4>1, <4>2 DEF FileOK
    <3>4. QED
      BY <1>4, <2>4, <3>3 DEF ItemOK
  <2>5. CASE IsA(w, x, "log")
    <3>1. LogOK(w, l, x)
      BY <2>1, <2>5 DEF ItemOK, IsA
    <3>2. ~NoClients(w)
      BY <1>2 DEF NoClients
    <3>3. LogOK(u, l, x)
      BY <2>1, <3>1, <3>2 DEF LogOK
    <3>4. QED
      BY <1>4, <2>5, <3>3 DEF ItemOK
  <2>6. QED
    BY <2>1, <2>2, <2>3, <2>4, <2>5 DEF ItemOK
<1>6. QED
  BY <1>1, <1>4, <1>5 DEF Running, WorldOK, Listening

\* u is w without an item and what it is the descriptor of.
Removed(w, u, x) ==
  /\ u \in World
  /\ Becomes(u.sel, [w.sel.fds EXCEPT ![x] = UnusedItem], UsedFds(w.sel) \ {x})
  /\ \A y \in KernelFd \ {x} : u.open[y] = w.open[y] /\ u.sess[y] = w.sess[y]
  /\ u.open = w.open \/ IsA(w, x, "file")

\* An item that nothing refers to is unregistered, and closed if it is a file.
LEMMA ItemGone ==
  ASSUME NEW w, NEW l, Running(w, l), NEW x \in UsedFds(w.sel), ~IsA(w, x, "log"), Unarmed(w, x),
         \A s : IsA(w, s, "smtp") /\ w.sess[s].turn = "body" => w.sess[s].output # x,
         NEW u, Removed(w, u, x)
  PROVE  Running(u, l) /\ (IsA(w, x, "passive") \/ Listening(w, u))
<1> USE DEF Removed
<1>1. w \in World /\ CleanTable(w.sel) /\ CleanTable(u.sel) /\ UsedFds(u.sel) = UsedFds(w.sel) \ {x}
      /\ \A y \in UsedFds(w.sel) : ItemOK(w, l, y)
  BY DEF Running, WorldOK, Becomes
<1>2. x \in Fd /\ \A y \in Fd \ {x} : u.sel.fds[y] = w.sel.fds[y]
  BY <1>1, WorldType DEF Becomes
<1>3. \A y, h : IsA(u, y, h) <=> IsA(w, y, h) /\ y # x
  BY <1>1, <1>2, WorldType DEF IsA
<1>4. ASSUME NEW y \in UsedFds(u.sel) PROVE ItemOK(u, l, y)
  <2>1. ItemOK(w, l, y) /\ y # x /\ y \in Fd /\ u.sel.fds[y] = w.sel.fds[y]
    BY <1>1, <1>2, <1>4, WorldType
  <2>2. CASE IsA(w, y, "passive") \/ IsA(w, y, "udp")
    <3>1. y \in KernelFd
      BY <2>1, <2>2, DescriptorsAssumption DEF ItemOK, IsA
    <3>2. QED
      BY <1>3, <2>1, <2>2, <3>1 DEF ItemOK, IsA, ServerOK
  <2>3. CASE IsA(w, y, "smtp")
    <3>1. SessionOK(w, y)
      BY <2>1, <2>3 DEF ItemOK, IsA
    <3>2. u.open[y] = w.open[y] /\ u.sess[y] = w.sess[y]
      BY <2>1, <3>1 DEF SessionOK
    <3>3. w.sess[y].turn = "body" /\ w.sess[y].output \in Fd =>
            w.sess[y].output # x /\ u.sel.fds[w.sess[y].output] = w.sel.fds[w.sess[y].output]
      BY <1>2, <2>3
    <3>4. SessionOK(u, y)
      BY <1>3, <2>1, <3>1, <3>2, <3>3 DEF SessionOK
    <3>5. QED
      BY <1>3, <2>1, <2>3, <3>4 DEF ItemOK
  <2>4. CASE IsA(w, y, "file")
    <3>1. FileOK(w, y)
      BY <2>1, <2>4 DEF ItemOK, IsA
    <3>2. w.sel.fds[y].interest = {"WRITE"} => w.sel.fds[y].data # x /\ w.sel.fds[y].data \in KernelFd
      <4>1. w.sel.fds[y].interest = {"WRITE"} => ItemOK(w, l, w.sel.fds[y].data) /\ IsA(w, w.sel.fds[y].data, "smtp")
        BY <1>1, <3>1 DEF FileOK, IsA
      <4>2. QED
        BY <2>4, <4>1 DEF Unarmed, ItemOK, IsA, SessionOK
    <3>3. FileOK(u, y)
      BY <1>3, <2>1, <3>1, <3>2 DEF FileOK
    <3>4. QED
      BY <1>3, <2>1, <2>4, <3>3 DEF ItemOK
  <2>5. CASE IsA(w, y, "log")
    <3>1. LogOK(w, l, y)
      BY <2>1, <2>5 DEF ItemOK, IsA
    <3>2. u.open[y] = w.open[y]
      BY <2>1, <3>1 DEF LogOK
    <3>3. NoClients(w) => NoClients(u) /\ Lowest(u) = Lowest(w)
      BY <1>3 DEF NoClients, Lowest
    <3>4. LogOK(u, l, y)
      BY <2>1, <3>1, <3>2, <3>3 DEF LogOK
    <3>5. QED
      BY <1>3, <2>1, <2>5, <3>4 DEF ItemOK
  <2>6. QED
    BY <2>1, <2>2, <2>3, <2>4, <2>5 DEF ItemOK
<1>5. \A fd \in Servers : u.open[fd] = "socket"
  <2>1. \A fd \in Servers : w.open[fd] = "socket" /\ fd \in KernelFd
    BY <1>1, WorldType DEF Running
  <2>2. IsA(w, x, "file") => x \notin Servers
    BY <1>1 DEF ItemOK, IsA, FileOK
  <2>3. QED
    BY <2>1, <2>2
<1>6. l # -1 => l \in KernelFd /\ IsA(u, l, "log") /\ u.open[l] = "file"
  <2>1. l # -1 => l \in KernelFd /\ IsA(w, l, "log") /\ w.open[l] = "file" /\ l # x
    BY DEF Running
  <2>2. QED
    BY <1>3, <2>1
<1>7. Running(u, l)
  BY <1>1, <1>4, <1>5, <1>6 DEF Running, WorldOK
<1>8. IsA(w, x, "passive") \/ Listening(w, u)
  <2>1. x \in Passive => IsA(w, x, "passive")
    <3>1. ItemOK(w, l, x) /\ (x \in Passive => x \in Servers /\ x \notin Udp)
      BY <1>1, DescriptorsAssumption DEF Servers
    <3>2. QED
      BY <3>1 DEF ItemOK, SessionOK, FileOK, LogOK
  <2>2. QED
    BY <1>1, <2>1 DEF Listening
<1>9. QED
  BY <1>7, <1>8

\* Lowest is the lowest free descriptor, or FdLimit when there is none.
LEMMA LowestFree ==
  ASSUME NEW w
  PROVE  /\ Lowest(w) \in Nat
         /\ Lowest(w) # FdLimit => Lowest(w) \in KernelFd /\ w.open[Lowest(w)] = "free"
         /\ \A fd \in KernelFd : fd < Lowest(w) => w.open[fd] # "free"
<1> DEFINE S == {fd \in KernelFd : w.open[fd] = "free"} \cup {FdLimit}
<1>1. S \in SUBSET Nat /\ S # {}
  BY DescriptorsAssumption DEF KernelFd
<1>2. Lowest(w) \in S /\ \A y \in S : Lowest(w) <= y
  BY <1>1, LeastExists DEF Lowest
<1>3. QED
  BY <1>1, <1>2 DEF KernelFd

\* Descriptors that were free are opened: any, once there are clients; the lowest, for
\* a client's socket.
LEMMA MoreOpen ==
  ASSUME NEW w, NEW l, Running(w, l), NEW u \in World, u.sel = w.sel, u.sess = w.sess,
         \A fd \in KernelFd : w.open[fd] # "free" => u.open[fd] = w.open[fd],
         NoClients(w) /\ Lowest(w) # FdLimit => u.open[Lowest(w)] = "socket"
  PROVE  Running(u, l) /\ Listening(w, u)
<1>1. w \in World /\ CleanTable(w.sel) /\ \A x \in UsedFds(w.sel) : ItemOK(w, l, x)
  BY DEF Running, WorldOK
<1>2. \A x, h : IsA(u, x, h) <=> IsA(w, x, h)
  BY DEF IsA
<1>3. ASSUME NEW x \in UsedFds(u.sel) PROVE ItemOK(u, l, x)
  <2>1. ItemOK(w, l, x)
    BY <1>1, <1>3
  <2>2. CASE IsA(w, x, "passive") \/ IsA(w, x, "udp")
    <3>1. x \in KernelFd
      BY <2>1, <2>2, DescriptorsAssumption DEF ItemOK, IsA
    <3>2. QED
      BY <1>2, <2>1, <2>2, <3>1 DEF ItemOK, IsA, ServerOK
  <2>3. CASE IsA(w, x, "smtp")
    <3>1. SessionOK(w, x)
      BY <2>1, <2>3 DEF ItemOK, IsA
    <3>2. SessionOK(u, x)
      BY <1>2, <3>1 DEF SessionOK
    <3>3. QED
      BY <1>2, <2>3, <3>2 DEF ItemOK
  <2>4. CASE IsA(w, x, "file")
    <3>1. FileOK(w, x)
      BY <2>1, <2>4 DEF ItemOK, IsA
    <3>2. FileOK(u, x)
      BY <1>2, <3>1 DEF FileOK
    <3>3. QED
      BY <1>2, <2>4, <3>2 DEF ItemOK
  <2>5. CASE IsA(w, x, "log")
    <3>1. LogOK(w, l, x)
      BY <2>1, <2>5 DEF ItemOK, IsA
    <3>2. CASE w.open[x] = "free"
      <4>1. x = Lowest(w) /\ NoClients(w) /\ x # l /\ x \in KernelFd
        BY <3>1, <3>2 DEF LogOK
      <4>2. x # FdLimit
        BY <4>1, DescriptorsAssumption DEF KernelFd
      <4>3. u.open[x] = "socket"
        BY <4>1, <4>2
      <4>4. QED
        BY <1>2, <2>5, <3>1, <4>1, <4>3 DEF ItemOK, LogOK
    <3>3. CASE w.open[x] # "free"
      BY <1>2, <2>5, <3>1, <3>3 DEF ItemOK, LogOK
    <3>4. QED
      BY <3>2, <3>3
  <2>6. QED
    BY <2>1, <2>2, <2>3, <2>4, <2>5 DEF ItemOK
<1>4. \A fd \in Servers : u.open[fd] = "socket"
  BY <1>1, WorldType DEF Running
<1>5. l # -1 => l \in KernelFd /\ IsA(u, l, "log") /\ u.open[l] = "file"
  BY <1>2 DEF Running
<1>6. QED
  BY <1>1, <1>3, <1>4, <1>5 DEF Running, WorldOK, Listening

\* Is a listening socket's loss excused? Every descriptor of the selector is open, or
\* one of a log closed for want of memory is registered.
Full(w, l) ==
  \/ \A fd \in Fd \cap KernelFd : w.open[fd] # "free"
  \/ \E fd \in UsedFds(w.sel) : w.sel.fds[fd].handler = "log" /\ fd # l

\* u is w with one more item, and what is known of its session.
Added(w, u, f, handler, interest, data) ==
  /\ u \in World
  /\ Becomes(u.sel, [w.sel.fds EXCEPT ![f] = [fd |-> f, interest |-> interest,
                                               handler |-> handler, data |-> data]],
             UsedFds(w.sel) \cup {f})
  /\ u.open = w.open /\ \A x \in KernelFd \ {f} : u.sess[x] = w.sess[x]

\* The lowest descriptor, just opened, is registered: a client's socket, or an output
\* file of a session that is not of the disk.
LEMMA ItemComes ==
  ASSUME NEW w, NEW l, Running(w, l), NEW f \in Fd \cap KernelFd, f \notin UsedFds(w.sel), f \notin Servers,
         \A x \in UsedFds(w.sel) : w.open[x] # "free",
         NEW handler \in {"smtp", "file"}, NEW interest \in SUBSET Op, NEW data \in Int,
         NEW u, Added(w, u, f, handler, interest, data),
         handler = "smtp" => /\ interest = {"WRITE"} /\ w.open[f] = "socket" /\ u.sess[f].turn = "reply",
         handler = "file" => interest = {} /\ w.open[f] = "file"
  PROVE  /\ Running(u, l) /\ Listening(w, u) /\ IsA(u, f, handler) /\ u.sel.fds[f].data = data
         /\ \A x, h : IsA(w, x, h) => IsA(u, x, h)
<1> USE DEF Added
<1>1. w \in World /\ CleanTable(w.sel) /\ CleanTable(u.sel) /\ UsedFds(u.sel) = UsedFds(w.sel) \cup {f}
      /\ \A x \in UsedFds(w.sel) : ItemOK(w, l, x)
  BY DEF Running, WorldOK, Becomes
<1>2. /\ \A x \in Fd \ {f} : u.sel.fds[x] = w.sel.fds[x]
      /\ u.sel.fds[f].handler = handler /\ u.sel.fds[f].data = data /\ u.sel.fds[f].interest = interest
  BY <1>1, WorldType DEF Becomes
<1>3. /\ \A x, h : x # f => (IsA(u, x, h) <=> IsA(w, x, h))
      /\ \A h : IsA(u, f, h) <=> h = handler
      /\ \A h : ~IsA(w, f, h)
  BY <1>1, <1>2, WorldType DEF IsA
<1>4. ItemOK(u, l, f)
  <2>1. CASE handler = "smtp"
    BY <1>2, <1>3, <2>1 DEF ItemOK, SessionOK, InterestOf
  <2>2. CASE handler = "file"
    BY <1>2, <1>3, <2>2 DEF ItemOK, FileOK
  <2>3. QED
    BY <2>1, <2>2
<1>5. ASSUME NEW x \in UsedFds(w.sel) PROVE ItemOK(u, l, x)
  <2>1. ItemOK(w, l, x) /\ x # f /\ x \in Fd /\ u.sel.fds[x] = w.sel.fds[x]
    BY <1>1, <1>2, <1>5, WorldType
  <2>2. CASE IsA(w, x, "passive") \/ IsA(w, x, "udp")
    BY <1>3, <2>1, <2>2 DEF ItemOK, IsA, ServerOK
  <2>3. CASE IsA(w, x, "smtp")
    <3>1. SessionOK(w, x)
      BY <2>1, <2>3 DEF ItemOK, IsA
    <3>2. u.open[x] = w.open[x] /\ u.sess[x] = w.sess[x]
      BY <2>1, <3>1 DEF SessionOK
    <3>3. IsA(w, w.sess[x].output, "file") /\ w.sess[x].output \in Fd =>
            IsA(u, w.sess[x].output, "file") /\ u.sel.fds[w.sess[x].output] = w.sel.fds[w.sess[x].output]
      BY <1>2, <1>3
    <3>4. SessionOK(u, x)
      BY <2>1, <3>1, <3>2, <3>3 DEF SessionOK
    <3>5. QED
      BY <1>3, <2>1, <2>3, <3>4 DEF ItemOK
  <2>4. CASE IsA(w, x, "file")
    <3>1. FileOK(w, x)
      BY <2>1, <2>4 DEF ItemOK, IsA
    <3>2. IsA(w, w.sel.fds[x].data, "smtp") => w.sel.fds[x].data # f /\ w.sel.fds[x].data \in KernelFd
      BY <1>1, <1>3 DEF IsA, ItemOK, SessionOK
    <3>3. FileOK(u, x)
      BY <1>3, <2>1, <3>1, <3>2 DEF FileOK
    <3>4. QED
      BY <1>3, <2>1, <2>4, <3>3 DEF ItemOK
  <2>5. CASE IsA(w, x, "log")
    <3>1. LogOK(w, l, x)
      BY <2>1, <2>5 DEF ItemOK, IsA
    <3>2. LogOK(u, l, x)
      BY <2>1, <3>1 DEF LogOK
    <3>3. QED
      BY <1>3, <2>1, <2>5, <3>2 DEF ItemOK
  <2>6. QED
    BY <2>1, <2>2, <2>3, <2>4, <2>5 DEF ItemOK
<1>6. l # -1 => l \in KernelFd /\ IsA(u, l, "log") /\ u.open[l] = "file"
  BY <1>3 DEF Running
<1>7. Running(u, l)
  BY <1>1, <1>4, <1>5, <1>6 DEF Running, WorldOK
<1>8. QED
  BY <1>1, <1>2, <1>3, <1>7 DEF Listening

\* Nobody's registered descriptor is free, once there are clients.
LEMMA UsedIsOpen ==
  ASSUME NEW w, NEW l, Running(w, l), NEW fd \in UsedFds(w.sel), w.open[fd] = "free"
  PROVE  NoClients(w) /\ fd = Lowest(w) /\ w.sel.fds[fd].handler = "log" /\ fd # l
<1>1. ItemOK(w, l, fd)
  BY DEF Running, WorldOK
<1>2. QED
  BY <1>1 DEF ItemOK, ServerOK, SessionOK, FileOK, LogOK, IsA

\* A turn that comes with no change of interest.
LEMMA TurnOnly ==
  ASSUME NEW w, NEW l, Running(w, l), NEW fd, IsA(w, fd, "smtp"), Unarmed(w, fd),
         NEW turn \in Turn \ {"none", "gone"}, NEW out \in -1..FdLimit - 1,
         turn = "body" /\ out \in Fd => IsA(w, out, "file") /\ w.sel.fds[out].data = fd,
         w.sel.fds[fd].interest = InterestOf(turn),
         NEW u, u = [w EXCEPT !.sess[fd] = [turn |-> turn, output |-> out]]
  PROVE  Moved(w, u, fd, turn, out)
<1>1. w \in World /\ CleanTable(w.sel) /\ fd \in Fd /\ fd \in KernelFd
  BY WorldType DEF Running, WorldOK, IsA, ItemOK, SessionOK
<1>2. u.sel = w.sel /\ u.open = w.open /\ u.sess = [w.sess EXCEPT ![fd] = [turn |-> turn, output |-> out]]
  BY <1>1, WorldType
<1>3. [turn |-> turn, output |-> out] \in Session
  BY DEF Session
<1>4. u \in World
  BY <1>1, <1>2, <1>3 DEF World
<1>5. [w.sel.fds EXCEPT ![fd].interest = InterestOf(turn)] = w.sel.fds
  BY <1>1, WorldType DEF Item
<1>6. Becomes(u.sel, [w.sel.fds EXCEPT ![fd].interest = InterestOf(turn)], UsedFds(w.sel))
  BY <1>1, <1>2, <1>5 DEF Becomes
<1>7. QED
  BY <1>2, <1>4, <1>6 DEF Moved

AtBody(w, u, l, fd) ==
  Running(u, l) /\ Listening(w, u) /\ IsA(u, fd, "smtp") /\ u.sess[fd].turn = "body"

\* request_data_init, whatever becomes of open() and of the registration.
LEMMA InitData ==
  ASSUME NEW w, NEW l, Running(w, l), NEW fd, IsA(w, fd, "smtp"), w.sess[fd].turn = "command"
  PROVE  AtBody(w, request_data_init(w, fd), l, fd)
<1> DEFINE f == Lowest(w)
           u == request_data_init(w, fd)
<1> SUFFICES AtBody(w, u, l, fd)
  OBVIOUS
<1>1. w \in World /\ CleanTable(w.sel) /\ \A x \in UsedFds(w.sel) : ItemOK(w, l, x)
  BY DEF Running, WorldOK
<1>2. SessionOK(w, fd) /\ fd \in KernelFd /\ fd \in Fd
  BY <1>1, WorldType DEF IsA, ItemOK, SessionOK
<1>3. Unarmed(w, fd) /\ Listening(w, w)
  BY OnlyDisksAreArmed DEF Listening
<1>4. w.sel.fds[fd].interest = InterestOf("body") /\ "body" \in Turn \ {"none", "gone"}
  BY <1>2 DEF SessionOK, InterestOf, Turn
\* From a world with the same item of fd, where the output of fd may be out.
<1>5. ASSUME NEW v, Running(v, l), Listening(w, v), IsA(v, fd, "smtp"), Unarmed(v, fd),
             v.sel.fds[fd] = w.sel.fds[fd], NEW out \in -1..FdLimit - 1,
             out \in Fd => IsA(v, out, "file") /\ v.sel.fds[out].data = fd,
             u = [v EXCEPT !.sess[fd] = [turn |-> "body", output |-> out]]
      PROVE  AtBody(w, u, l, fd)
  <2> HIDE DEF u
  <2>1. Moved(v, u, fd, "body", out)
    BY <1>4, <1>5, TurnOnly
  <2>2. Running(u, l) /\ Listening(v, u) /\ Alike(v, u)
    BY <1>4, <1>5, <2>1, SessionMoves
  <2>3. v \in World
    BY <1>5 DEF Running, WorldOK
  <2>4. u.sess[fd].turn = "body"
    BY <1>2, <2>1, <2>3, WorldType DEF Moved
  <2>5. QED
    BY <1>5, <2>2, <2>4 DEF AtBody, Listening, Alike
<1>6. CASE Exhausted(w)
  <2>1. u = [w EXCEPT !.sess[fd] = [turn |-> "body", output |-> -1]]
    BY <1>6 DEF request_data_init
  <2>2. -1 \in -1..FdLimit - 1 /\ -1 \notin Fd
    BY DescriptorsAssumption DEF Fd
  <2> HIDE DEF u
  <2>3. QED
    BY <1>3, <1>5, <2>1, <2>2
<1>7. CASE ~Exhausted(w)
  <2> DEFINE v == [w EXCEPT !.open[f] = "file"]
             r == selector_register(w.sel, f, "file", {}, fd)
             t == [v EXCEPT !.sel = r.s]
  <2>1. f \in KernelFd /\ w.open[f] = "free" /\ f \in Nat
    BY <1>7, LowestFree DEF Exhausted
  <2>2. f \notin UsedFds(w.sel) /\ f \notin Servers /\ ~NoClients(w)
    BY <2>1, UsedIsOpen DEF Running, NoClients
  <2>3. v.sel = w.sel /\ v.sess = w.sess /\ v.open = [w.open EXCEPT ![f] = "file"] /\ v \in World
    BY <1>1, <2>1 DEF World
  <2>4. u = [t EXCEPT !.sess[fd] = [turn |-> "body", output |-> f]]
    BY <1>1, <1>7 DEF request_data_init, World
  <2> HIDE DEF u, v
  <2>5. Running(v, l) /\ Listening(w, v)
    <3>1. \A x \in KernelFd : w.open[x] # "free" => v.open[x] = w.open[x]
      BY <1>1, <2>1, <2>3, WorldType
    <3>2. QED
      BY <2>2, <2>3, <3>1, MoreOpen
  <2>6. f \in -1..FdLimit - 1
    BY <2>1, DescriptorsAssumption DEF KernelFd
  <2>7. CASE f \in Fd
    <3>1. fd \in Int
      BY <1>2, WorldType, <1>1
    <3>2. Becomes(r.s, [w.sel.fds EXCEPT ![f] = [fd |-> f, interest |-> {}, handler |-> "file", data |-> fd]],
                  UsedFds(w.sel) \cup {f})
      BY <1>1, <2>2, <2>7, <3>1, Registered
    <3>3. t.sel = r.s /\ t.open = v.open /\ t.sess = w.sess /\ t \in World
      BY <2>3, <3>2 DEF World, Becomes, CleanTable
    <3> HIDE DEF t, r, f
    <3>4. \A x \in UsedFds(v.sel) : v.open[x] # "free"
      BY <2>5, <2>2, <2>3, UsedIsOpen DEF NoClients, IsA
    <3>5. Added(v, t, f, "file", {}, fd)
      BY <2>3, <3>2, <3>3 DEF Added
    <3>6. v.open[f] = "file" /\ f \notin UsedFds(v.sel)
      BY <1>1, <2>1, <2>2, <2>3, WorldType
    <3>7. /\ Running(t, l) /\ Listening(v, t) /\ IsA(t, f, "file") /\ t.sel.fds[f].data = fd
          /\ \A x, h : IsA(v, x, h) => IsA(t, x, h)
      BY <2>1, <2>2, <2>5, <2>7, <3>1, <3>4, <3>5, <3>6, ItemComes
    <3>8. IsA(t, fd, "smtp") /\ f # fd
      BY <2>2, <2>3, <3>7 DEF IsA
    <3>9. t.sel.fds[fd] = w.sel.fds[fd]
      BY <1>1, <1>2, <3>2, <3>3, <3>8, WorldType DEF Becomes
    <3>10. Unarmed(t, fd)
      BY <3>3, <3>7, OnlyDisksAreArmed
    <3>11. Listening(w, t)
      BY <2>3, <2>5, <3>7 DEF Listening
    <3>12. QED
      BY <1>5, <2>4, <2>6, <3>7, <3>8, <3>9, <3>10, <3>11
  <2>8. CASE f \notin Fd
    <3>1. r.s = w.sel
      BY <1>1, <2>1, <2>8, RegisterRefused
    <3>2. t = v
      BY <2>3, <3>1 DEF World
    <3>3. IsA(v, fd, "smtp") /\ Unarmed(v, fd)
      BY <1>3, <2>3 DEF IsA, Unarmed
    <3> HIDE DEF t, r, f
    <3>4. QED
      BY <1>5, <2>3, <2>4, <2>5, <2>6, <2>8, <3>2, <3>3
  <2>9. QED
    BY <2>7, <2>8
<1>8. QED
  BY <1>6, <1>7

-----------------------------------------------------------------------------
(* The handlers of a session.                                              *)

Keeps(w, u, l) == Running(u, l) /\ Listening(w, u)

\* smtp_done of a session that has no armed file.
LEMMA DoneKeeps ==
  ASSUME NEW w, NEW l, Running(w, l), NEW fd, IsA(w, fd, "smtp"), Unarmed(w, fd)
  PROVE  Keeps(w, smtp_done(w, fd), l)
<1> DEFINE u == smtp_done(w, fd)
<1> SUFFICES Keeps(w, u, l)
  OBVIOUS
<1>1. w \in World /\ CleanTable(w.sel) /\ \A x \in UsedFds(w.sel) : ItemOK(w, l, x)
  BY DEF Running, WorldOK
<1>2. fd \in UsedFds(w.sel) /\ fd \in Fd /\ fd \in KernelFd
  BY <1>1, WorldType DEF IsA, ItemOK, SessionOK
<1>3. Becomes(selector_unregister_fd(w.sel, fd), [w.sel.fds EXCEPT ![fd] = UnusedItem], UsedFds(w.sel) \ {fd})
  BY <1>1, <1>2, UnregisteredOne
<1>4. u.sel = selector_unregister_fd(w.sel, fd) /\ u.open = w.open
      /\ u.sess = [w.sess EXCEPT ![fd].turn = "gone"]
  BY <1>1 DEF smtp_done, World
<1>5. u.sess \in [KernelFd -> Session]
  <2>1. w.sess \in [KernelFd -> Session] /\ "gone" \in Turn
    BY <1>1, WorldType DEF Turn
  <2>2. [w.sess[fd] EXCEPT !.turn = "gone"] \in Session
    BY <1>2, <2>1 DEF Session
  <2>3. QED
    BY <1>2, <1>4, <2>1, <2>2
<1>6. u \in World
  BY <1>1, <1>3, <1>4, <1>5 DEF smtp_done, World, Becomes, CleanTable
<1> HIDE DEF u
<1>7. Removed(w, u, fd)
  BY <1>1, <1>2, <1>3, <1>4, <1>6, WorldType DEF Removed
<1>8. ~IsA(w, fd, "log") /\ ~IsA(w, fd, "passive")
  BY DEF IsA
<1>9. ASSUME NEW s, IsA(w, s, "smtp"), w.sess[s].turn = "body" PROVE w.sess[s].output # fd
  <2>1. SessionOK(w, s)
    BY <1>1, <1>9 DEF IsA, ItemOK
  <2>2. QED
    BY <1>2, <1>9, <2>1 DEF SessionOK, IsA
<1>10. QED
  BY <1>2, <1>7, <1>8, <1>9, ItemGone DEF Keeps

\* An interest and the turn that goes with it.
LEMMA InterestAndTurn ==
  ASSUME NEW w, NEW l, Running(w, l), NEW fd, IsA(w, fd, "smtp"),
         NEW turn \in Turn \ {"none", "gone"}, NEW out \in -1..FdLimit - 1,
         NEW interest, interest = InterestOf(turn),
         NEW u, u = [SetInterest(w, fd, interest) EXCEPT !.sess[fd] = [turn |-> turn, output |-> out]]
  PROVE  Moved(w, u, fd, turn, out)
<1>1. w \in World /\ CleanTable(w.sel) /\ fd \in UsedFds(w.sel) /\ fd \in KernelFd
  BY DEF Running, WorldOK, IsA, ItemOK, SessionOK
<1>2. interest \in SUBSET Op
  BY DEF InterestOf, Op
<1> DEFINE s == selector_set_interest(w.sel, fd, interest).s
<1>3. Becomes(s, [w.sel.fds EXCEPT ![fd].interest = interest], UsedFds(w.sel))
  BY <1>1, <1>2, InterestSet
<1> HIDE DEF s
<1>4. SetInterest(w, fd, interest) = [w EXCEPT !.sel = s]
  BY DEF SetInterest, s
<1>5. u.sel = s /\ u.open = w.open /\ u.sess = [w.sess EXCEPT ![fd] = [turn |-> turn, output |-> out]]
  BY <1>1, <1>4 DEF World
<1>6. u \in World
  <2>1. [turn |-> turn, output |-> out] \in Session
    BY DEF Session
  <2>2. s \in FdSelector
    BY <1>3 DEF Becomes, CleanTable
  <2>3. QED
    BY <1>1, <1>4, <2>1, <2>2 DEF World
<1>7. QED
  BY <1>3, <1>5, <1>6 DEF Moved

\* The same when only the turn is assigned.
OnlyTurn(v, fd, turn, out) ==
  [v EXCEPT !.sess[fd].turn = turn] = [v EXCEPT !.sess[fd] = [turn |-> turn, output |-> out]]

\* A change of interest changes nobody's turn but its own descriptor's.
LEMMA TurnAssigned ==
  ASSUME NEW w, w \in World, NEW fd \in KernelFd, NEW interest, NEW turn
  PROVE  OnlyTurn(SetInterest(w, fd, interest), fd, turn, w.sess[fd].output)
<1> DEFINE v == SetInterest(w, fd, interest)
<1>1. v.sess = w.sess
  BY DEF SetInterest, World
<1>2. w.sess[fd] \in Session
  BY WorldType
<1>3. [w.sess[fd] EXCEPT !.turn = turn] = [turn |-> turn, output |-> w.sess[fd].output]
  BY <1>2 DEF Session
<1> HIDE DEF v
<1>4. [v EXCEPT !.sess[fd].turn = turn] = [v EXCEPT !.sess[fd] = [turn |-> turn, output |-> w.sess[fd].output]]
  <2>1. [v.sess EXCEPT ![fd].turn = turn] = [v.sess EXCEPT ![fd] = [turn |-> turn, output |-> w.sess[fd].output]]
    BY <1>1, <1>3
  <2>2. QED
    BY <2>1
<1>5. QED
  BY <1>4 DEF v, OnlyTurn

\* request_actual_read in READ and ADMIN.
LEMMA ReadCommandKeeps ==
  ASSUME NEW w, NEW l, Running(w, l), NEW fd, IsA(w, fd, "smtp"), Unarmed(w, fd),
         NEW u \in ReadCommand(w, fd)
  PROVE  Keeps(w, u, l)
<1>1. w \in World /\ fd \in KernelFd /\ w.sess[fd].output \in -1..FdLimit - 1
  BY WorldType DEF Running, WorldOK, IsA, ItemOK, SessionOK
<1>2. CASE u = w
  BY <1>2 DEF Keeps, Listening
<1>3. CASE u = smtp_done(w, fd)
  BY <1>3, DoneKeeps
<1>4. ASSUME NEW turn \in {"reply", "go ahead"}, u = [SetInterest(w, fd, {"WRITE"}) EXCEPT !.sess[fd].turn = turn]
      PROVE  Keeps(w, u, l)
  <2>1. turn \in Turn \ {"none", "gone"} /\ turn # "body" /\ InterestOf(turn) = {"WRITE"}
    BY <1>4 DEF Turn, InterestOf
  <2>2. u = [SetInterest(w, fd, {"WRITE"}) EXCEPT !.sess[fd] = [turn |-> turn, output |-> w.sess[fd].output]]
    <3>1. OnlyTurn(SetInterest(w, fd, {"WRITE"}), fd, turn, w.sess[fd].output)
      BY <1>1, TurnAssigned
    <3>2. QED
      BY <1>4, <3>1, Zenon DEF OnlyTurn
  <2>3. Moved(w, u, fd, turn, w.sess[fd].output)
    BY <1>1, <2>1, <2>2, InterestAndTurn
  <2>4. QED
    BY <1>1, <2>1, <2>3, SessionMoves DEF Keeps
<1>5. QED
  BY <1>2, <1>3, <1>4 DEF ReadCommand

\* request_actual_read in DATA: the file that is armed is the session's own.
LEMMA ReadBodyKeeps ==
  ASSUME NEW w, NEW l, Running(w, l), NEW fd, IsA(w, fd, "smtp"), w.sess[fd].turn = "body",
         NEW u \in ReadBody(w, fd)
  PROVE  Keeps(w, u, l)
<1> DEFINE f == w.sess[fd].output
           s == SetInterest(w, fd, {}).sel
           out == selector_set_interest(s, f, {"WRITE"})
           v == [SetInterest(w, fd, {}) EXCEPT !.sess[fd] = [turn |-> "disk", output |-> f]]
<1>1. w \in World /\ fd \in KernelFd /\ f \in -1..FdLimit - 1 /\ SessionOK(w, fd) /\ Unarmed(w, fd)
  BY WorldType, OnlyDisksAreArmed DEF Running, WorldOK, IsA, ItemOK, SessionOK
<1>2. "disk" \in Turn \ {"none", "gone"} /\ InterestOf("disk") = {}
  BY DEF Turn, InterestOf
<1>3. Moved(w, v, fd, "disk", f)
  BY <1>1, <1>2, InterestAndTurn
<1>4. v.sel = s
  BY DEF SetInterest
<1> HIDE DEF v, s
<1>5. Running(v, l) /\ Listening(w, v) /\ Alike(w, v)
  BY <1>1, <1>2, <1>3, SessionMoves
<1>6. v \in World /\ CleanTable(v.sel) /\ v.open = w.open /\ UsedFds(s) = UsedFds(w.sel)
  BY <1>3, <1>4, <1>5 DEF Running, WorldOK, Moved, Becomes
<1>7. CASE f \notin Fd
  <2>1. out.status # "SUCCESS"
    BY <1>7, InterestRefused DEF UsedFds
  <2>2. u = smtp_done(w, fd)
    BY <2>1 DEF ReadBody, s
  <2>3. QED
    BY <1>1, <2>2, DoneKeeps
<1>8. CASE f \in Fd
  <2>1. IsA(w, f, "file") /\ w.sel.fds[f].data = fd
    BY <1>1, <1>8 DEF SessionOK
  <2>2. out.status = "SUCCESS" /\ Becomes(out.s, [v.sel.fds EXCEPT ![f].interest = {"WRITE"}], UsedFds(v.sel))
    <3>1. f \in UsedFds(v.sel) /\ {"WRITE"} \in SUBSET Op
      BY <1>4, <1>6, <2>1 DEF IsA, Op
    <3>2. QED
      BY <1>4, <1>6, <3>1, InterestSet
  <2>3. u = [w EXCEPT !.sel = out.s, !.sess[fd].turn = "disk"]
    BY <2>2 DEF ReadBody, s
  <2> HIDE DEF out
  <2>4. w.sess[fd] \in Session /\ [w.sess[fd] EXCEPT !.turn = "disk"] = [turn |-> "disk", output |-> f]
    BY <1>1, WorldType DEF Session
  <2>5. v.sess = [w.sess EXCEPT ![fd] = [turn |-> "disk", output |-> f]]
    BY <1>3 DEF Moved
  <2>6. u.sel = out.s /\ u.open = v.open /\ u.sess = v.sess
    <3>1. u.sess = [w.sess EXCEPT ![fd].turn = "disk"] /\ u.sel = out.s /\ u.open = w.open
      BY <1>1, <2>3 DEF World
    <3>2. QED
      BY <1>6, <2>4, <2>5, <3>1
  <2>7. u \in World
    <3>1. u = [sel |-> out.s, open |-> v.open, sess |-> v.sess]
      BY <1>1, <2>3, <2>6 DEF World
    <3>2. QED
      BY <1>6, <2>2, <3>1 DEF World, Becomes, CleanTable
  <2>8. Rearmed(v, u, f, {"WRITE"})
    BY <2>2, <2>6, <2>7 DEF Rearmed
  <2>9. IsA(v, f, "file") /\ IsA(v, fd, "smtp")
    BY <1>5, <2>1 DEF Alike
  <2>10. v.sel.fds[f].data = fd
    <3>1. f # fd /\ v.sel.fds = [w.sel.fds EXCEPT ![fd].interest = InterestOf("disk")]
      BY <1>3, <2>1 DEF IsA, Moved, Becomes
    <3>2. w.sel.fds \in [Fd -> Item]
      BY <1>1, WorldType
    <3>3. QED
      BY <1>8, <2>1, <3>1, <3>2
  <2>11. v.sess[fd].output = f /\ v.sess[fd].turn = "disk"
    BY <1>1, <2>5, WorldType
  <2> HIDE DEF f
  <2>12. Running(u, l) /\ Listening(v, u)
    BY <1>5, <2>8, <2>9, <2>10, <2>11, FileInterest
  <2>13. QED
    BY <1>5, <2>12 DEF Keeps, Listening
<1>9. QED
  BY <1>7, <1>8

\* request_actual_read.
LEMMA ActualReadKeeps ==
  ASSUME NEW w, NEW l, Running(w, l), NEW fd, IsA(w, fd, "smtp"),
         w.sess[fd].turn \notin {"disk", "error"}, NEW u \in request_actual_read(w, fd)
  PROVE  Keeps(w, u, l)
<1>1. Unarmed(w, fd)
  BY OnlyDisksAreArmed
<1>2. CASE w.sess[fd].turn = "body"
  BY <1>2, ReadBodyKeeps DEF request_actual_read
<1>3. CASE w.sess[fd].turn # "body"
  BY <1>1, <1>3, ReadCommandKeeps DEF request_actual_read
<1>4. QED
  BY <1>2, <1>3

\* read_handler of a session's readable socket.
LEMMA ReadHandlerKeeps ==
  ASSUME NEW w, NEW l, Running(w, l), NEW fd, IsA(w, fd, "smtp"), "READ" \in w.sel.fds[fd].interest,
         NEW u \in read_handler(w, fd)
  PROVE  Keeps(w, u, l)
<1>1. SessionOK(w, fd)
  BY DEF Running, WorldOK, ItemOK, IsA
<1>2. w.sess[fd].turn \notin {"disk", "error"}
  BY <1>1 DEF SessionOK, InterestOf
<1>3. Unarmed(w, fd)
  BY <1>2, OnlyDisksAreArmed
<1>4. QED
  BY <1>2, <1>3, ActualReadKeeps, DoneKeeps DEF read_handler

\* On arrival to DATA from any turn.
LEMMA ArriveAtData ==
  ASSUME NEW w, NEW l, Running(w, l), NEW fd, IsA(w, fd, "smtp"), Unarmed(w, fd)
  PROVE  AtBody(w, request_data_init(SetInterest(w, fd, {"READ"}), fd), l, fd)
<1> DEFINE t == SetInterest(w, fd, {"READ"})
           out == w.sess[fd].output
           c == [t EXCEPT !.sess[fd] = [turn |-> "command", output |-> out]]
<1>1. w \in World /\ fd \in KernelFd /\ out \in -1..FdLimit - 1
  BY WorldType DEF Running, WorldOK, IsA, ItemOK, SessionOK
<1>2. "command" \in Turn \ {"none", "gone"} /\ InterestOf("command") = {"READ"}
  BY DEF Turn, InterestOf
<1>3. Moved(w, c, fd, "command", out)
  BY <1>1, <1>2, InterestAndTurn
<1>4. t.sel = c.sel /\ t.open = c.open /\ t.sess = w.sess /\ c.sess = [t.sess EXCEPT ![fd] = [turn |-> "command", output |-> out]]
      /\ t = [sel |-> t.sel, open |-> t.open, sess |-> t.sess] /\ c = [sel |-> c.sel, open |-> c.open, sess |-> c.sess]
  <2> DEFINE s == selector_set_interest(w.sel, fd, {"READ"}).s
  <2>1. t = [w EXCEPT !.sel = s]
    BY DEF SetInterest
  <2> HIDE DEF s, t
  <2>2. t.sel = s /\ t.open = w.open /\ t.sess = w.sess /\ t = [sel |-> t.sel, open |-> t.open, sess |-> t.sess]
    BY <1>1, <2>1 DEF World
  <2>3. c.sel = t.sel /\ c.open = t.open /\ c.sess = [t.sess EXCEPT ![fd] = [turn |-> "command", output |-> out]]
        /\ c = [sel |-> c.sel, open |-> c.open, sess |-> c.sess]
    BY <2>2
  <2>4. QED
    BY <2>2, <2>3
<1> HIDE DEF c, t
<1>5. Running(c, l) /\ Listening(w, c) /\ Alike(w, c)
  BY <1>1, <1>2, <1>3, SessionMoves
<1>6. IsA(c, fd, "smtp") /\ c.sess[fd].turn = "command"
  BY <1>1, <1>3, <1>5, WorldType DEF Alike, Moved
<1>7. request_data_init(t, fd) = request_data_init(c, fd)
  <2>1. Lowest(t) = Lowest(c) /\ (Exhausted(t) <=> Exhausted(c))
    BY <1>4 DEF Lowest, Exhausted
  <2>2. \A x : [t.sess EXCEPT ![fd] = x] = [c.sess EXCEPT ![fd] = x]
    BY <1>1, <1>4, WorldType
  <2>3. \A x : [t EXCEPT !.sess[fd] = x] = [c EXCEPT !.sess[fd] = x]
    BY <1>4, <2>2
  <2>4. \A x, f, y : [t EXCEPT !.sess[fd] = x, !.open[f] = "file", !.sel = y]
                       = [c EXCEPT !.sess[fd] = x, !.open[f] = "file", !.sel = y]
    BY <1>4, <2>2
  <2>5. QED
    BY <1>4, <2>1, <2>3, <2>4 DEF request_data_init
<1>8. AtBody(c, request_data_init(c, fd), l, fd)
  BY <1>5, <1>6, InitData
<1>9. QED
  BY <1>5, <1>7, <1>8 DEF AtBody, Listening, t

\* write_handler of a session's writable socket, and the reading it goes on with.
LEMMA WriteHandlerKeeps ==
  ASSUME NEW w, NEW l, Running(w, l), NEW fd, IsA(w, fd, "smtp"), "WRITE" \in w.sel.fds[fd].interest,
         NEW u \in write_handler(w, fd)
  PROVE  Keeps(w, u, l)
<1> DEFINE t == SetInterest(w, fd, {"READ"})
           c == [t EXCEPT !.sess[fd].turn = "command"]
           v == IF w.sess[fd].turn = "go ahead" THEN request_data_init(t, fd) ELSE c
<1>1. w \in World /\ fd \in KernelFd /\ w.sess[fd].output \in -1..FdLimit - 1 /\ SessionOK(w, fd)
  BY WorldType DEF Running, WorldOK, IsA, ItemOK, SessionOK
<1>2. w.sess[fd].turn \notin {"disk", "error"}
  BY <1>1 DEF SessionOK, InterestOf
<1>3. Unarmed(w, fd)
  BY <1>2, OnlyDisksAreArmed
<1>4. Keeps(w, v, l) /\ IsA(v, fd, "smtp") /\ v.sess[fd].turn \in {"command", "body"}
  <2>1. CASE w.sess[fd].turn = "go ahead"
    BY <1>3, <2>1, ArriveAtData DEF AtBody, Keeps
  <2>2. CASE w.sess[fd].turn # "go ahead"
    <3>1. "command" \in Turn \ {"none", "gone"} /\ InterestOf("command") = {"READ"}
      BY DEF Turn, InterestOf
    <3>2. c = [t EXCEPT !.sess[fd] = [turn |-> "command", output |-> w.sess[fd].output]]
      <4>1. OnlyTurn(t, fd, "command", w.sess[fd].output)
        BY <1>1, TurnAssigned
      <4>2. QED
        BY <4>1 DEF OnlyTurn
    <3> HIDE DEF c
    <3>3. Moved(w, c, fd, "command", w.sess[fd].output)
      BY <1>1, <3>1, <3>2, InterestAndTurn
    <3>4. Running(c, l) /\ Listening(w, c) /\ Alike(w, c)
      BY <1>1, <1>3, <3>1, <3>3, SessionMoves
    <3>5. c.sess[fd].turn = "command"
      BY <1>1, <3>3, WorldType DEF Moved
    <3>6. QED
      BY <2>2, <3>4, <3>5 DEF Keeps, Alike
  <2>3. QED
    BY <2>1, <2>2
<1>5. u = smtp_done(w, fd) \/ u = v \/ u \in request_actual_read(v, fd)
  BY DEF write_handler
<1> HIDE DEF v
<1>6. CASE u \in request_actual_read(v, fd)
  <2>1. Keeps(v, u, l)
    BY <1>4, <1>6, ActualReadKeeps DEF Keeps
  <2>2. QED
    BY <1>4, <2>1 DEF Keeps, Listening
<1>7. QED
  BY <1>3, <1>4, <1>5, <1>6, DoneKeeps

-----------------------------------------------------------------------------
(* The handler of an output file.                                          *)

\* What w becomes when descriptors that are free in it are opened and closed.
Grown(w) ==
  {v \in World : /\ v.sel = w.sel /\ v.sess = w.sess
                 /\ \A fd \in KernelFd : w.open[fd] # "free" => v.open[fd] = w.open[fd]}

\* A descriptor that was free is opened or closed.
LEMMA OneOpened ==
  ASSUME NEW w, w \in World, NEW v \in Grown(w), NEW f \in KernelFd, w.open[f] = "free",
         NEW as \in {"free", "leaked"}
  PROVE  [v EXCEPT !.open[f] = as] \in Grown(w)
<1> DEFINE u == [v EXCEPT !.open[f] = as]
<1>1. v \in World /\ v.open \in [KernelFd -> {"free", "socket", "file", "leaked"}]
  BY WorldType DEF Grown
<1>2. u.sel = v.sel /\ u.sess = v.sess /\ u.open = [v.open EXCEPT ![f] = as] /\ u \in World
  BY <1>1 DEF World
<1> HIDE DEF u
<1>3. \A fd \in KernelFd \ {f} : u.open[fd] = v.open[fd]
  BY <1>1, <1>2
<1>4. u \in Grown(w)
  BY <1>2, <1>3 DEF Grown
<1>5. QED
  BY <1>4 DEF u

\* copy_temp_to_new_single only touches descriptors that were free.
LEMMA CopyOpens ==
  ASSUME NEW w, w \in World, NEW v \in Grown(w), NEW u \in Copied(v)
  PROVE  u \in Grown(w)
<1> DEFINE f == Lowest(v)
           v1 == [v EXCEPT !.open[f] = "leaked"]
           g == Lowest(v1)
           v2 == [v1 EXCEPT !.open[g] = "leaked"]
           v3 == [v2 EXCEPT !.open[f] = "free"]
<1>1. \A x \in KernelFd : v.open[x] = "free" => w.open[x] = "free"
  BY DEF Grown
<1>2. CASE Exhausted(v)
  BY <1>2 DEF Copied
<1>3. CASE ~Exhausted(v)
  <2>1. f \in KernelFd /\ w.open[f] = "free"
    BY <1>1, <1>3, LowestFree DEF Exhausted
  <2> HIDE DEF f
  <2>2. v1 \in Grown(w)
    BY <2>1, OneOpened
  <2>3. CASE Exhausted(v1)
    <3>1. u = v1
      BY <1>3, <2>3 DEF Copied, f
    <3>2. QED
      BY <2>2, <3>1
  <2>4. CASE ~Exhausted(v1)
    <3>1. u \in {v2, v3}
      BY <1>3, <2>4 DEF Copied, f
    <3> HIDE DEF v1
    <3>2. g \in KernelFd /\ v1.open[g] = "free"
      BY <2>4, LowestFree DEF Exhausted
    <3>3. w.open[g] = "free"
      BY <2>2, <3>2 DEF Grown
    <3> HIDE DEF g
    <3>4. v2 \in Grown(w)
      BY <2>2, <3>2, <3>3, OneOpened
    <3> HIDE DEF v2
    <3>5. v3 \in Grown(w)
      BY <2>1, <3>4, OneOpened
    <3>6. QED
      BY <3>1, <3>4, <3>5
  <2>5. QED
    BY <2>3, <2>4
<1>4. QED
  BY <1>2, <1>3

\* So do the copies to all recipients.
LEMMA CopiesOpen ==
  ASSUME NEW w, w \in World, NEW rcpts \in Nat
  PROVE  CopiedToAll(w, rcpts) \subseteq Grown(w)
<1> DEFINE V == SUBSET Grown(w)
           next(X) == UNION {Copied(v) : v \in X}
           G == [k \in 1..rcpts |-> [X \in V |-> next(X)]]
           after == CHOOSE h : h = [k \in 0..rcpts |-> IF k = 0 THEN {w} ELSE UNION {Copied(v) : v \in h[k - 1]}]
<1>1. CopiedToAll(w, rcpts) = after[rcpts]
  BY DEF CopiedToAll
<1>2. {w} \in V
  BY DEF Grown
<1>3. \A X \in V : next(X) \in V
  BY CopyOpens
<1>4. PICK g \in [0..rcpts -> V] : Follows(g, rcpts, {w}, G)
  <2>1. G \in [1..rcpts -> [V -> V]]
    BY <1>3
  <2> HIDE DEF G, V
  <2>2. QED
    BY <1>2, <2>1, RecursionExists
<1>5. ASSUME NEW k \in 0..rcpts
      PROVE  g[k] = IF k = 0 THEN {w} ELSE UNION {Copied(v) : v \in g[k - 1]}
  <2>1. g[k] = IF k = 0 THEN {w} ELSE G[k][g[k - 1]]
    BY <1>4 DEF Follows
  <2>2. k # 0 => k \in 1..rcpts /\ g[k - 1] \in V
    BY <1>4
  <2>3. k # 0 => G[k][g[k - 1]] = next(g[k - 1])
    BY <2>2
  <2>4. QED
    BY <2>1, <2>3
<1>6. g = [k \in 0..rcpts |-> IF k = 0 THEN {w} ELSE UNION {Copied(v) : v \in g[k - 1]}]
  BY <1>4, <1>5
<1>7. after = [k \in 0..rcpts |-> IF k = 0 THEN {w} ELSE UNION {Copied(v) : v \in after[k - 1]}]
  BY <1>6
<1> HIDE DEF after
<1> DEFINE K == {k \in 0..rcpts : after[k] \in V}
<1>8. 0 \in K
  BY <1>2, <1>7
<1>9. ASSUME NEW k \in 1..rcpts, k - 1 \in K PROVE k \in K
  <2>1. after[k] = next(after[k - 1])
    BY <1>7
  <2>2. after[k - 1] \in V
    BY <1>9
  <2> HIDE DEF V, next
  <2>3. QED
    BY <1>3, <2>1, <2>2
<1> HIDE DEF K
<1>10. \A k \in 0..rcpts : k \in K
  BY <1>8, <1>9, UpTo
<1>11. QED
  BY <1>1, <1>10 DEF K

\* The end of the body: the reply is the session's turn, and its file is closed.
LEMMA FinishKeeps ==
  ASSUME NEW w, NEW l, Running(w, l), NEW f, IsA(w, f, "file"), NEW fd, fd = w.sel.fds[f].data,
         IsA(w, fd, "smtp"), Unarmed(w, fd)
  PROVE  Keeps(w, Finished(w, fd, f), l)
<1> DEFINE m == [SetInterest(w, fd, {"WRITE"}) EXCEPT !.sess[fd] = [turn |-> "reply", output |-> 0]]
           s == selector_unregister_fd(m.sel, f)
           u == Finished(w, fd, f)
<1> SUFFICES Keeps(w, u, l)
  OBVIOUS
<1>1. w \in World /\ fd \in KernelFd /\ f \in KernelFd /\ f \in Fd
  BY WorldType DEF Running, WorldOK, IsA, ItemOK, SessionOK, FileOK
<1>2. "reply" \in Turn \ {"none", "gone"} /\ InterestOf("reply") = {"WRITE"}
  BY DEF Turn, InterestOf
<1>3. 0 \in -1..FdLimit - 1
  BY <1>1, DescriptorsAssumption DEF KernelFd
<1>4. Moved(w, m, fd, "reply", 0)
  BY <1>2, <1>3, InterestAndTurn
<1>5. u = [m EXCEPT !.sel = s, !.open[f] = "free"]
  BY <1>1 DEF Finished, SetInterest, World
<1> HIDE DEF m, u
<1>6. Running(m, l) /\ Listening(w, m) /\ Alike(w, m)
  BY <1>2, <1>3, <1>4, SessionMoves
<1>7. m \in World /\ CleanTable(m.sel) /\ \A x \in UsedFds(m.sel) : ItemOK(m, l, x)
  BY <1>6 DEF Running, WorldOK
<1>8. IsA(m, f, "file") /\ f \in UsedFds(m.sel)
  BY <1>6 DEF Alike, IsA
<1>9. Becomes(s, [m.sel.fds EXCEPT ![f] = UnusedItem], UsedFds(m.sel) \ {f})
  BY <1>7, <1>8, UnregisteredOne
<1> HIDE DEF s
<1>10. u.sel = s /\ u.open = [m.open EXCEPT ![f] = "free"] /\ u.sess = m.sess /\ u \in World
  <2>1. s \in FdSelector
    BY <1>9 DEF Becomes, CleanTable
  <2>2. QED
    BY <1>1, <1>5, <1>7, <2>1 DEF World
<1>11. Removed(m, u, f)
  BY <1>1, <1>7, <1>8, <1>9, <1>10, WorldType DEF Removed
<1>12. Unarmed(m, f) /\ ~IsA(m, f, "log") /\ ~IsA(m, f, "passive")
  BY <1>6, <1>8, OnlyDisksAreArmed DEF IsA
<1>13. m.sel.fds[f].data = fd
  <2>1. m.sel.fds = [w.sel.fds EXCEPT ![fd].interest = {"WRITE"}] /\ f # fd
    BY <1>2, <1>4 DEF Moved, Becomes, IsA
  <2>2. QED
    BY <1>1, <2>1, WorldType
<1>14. ASSUME NEW x, IsA(m, x, "smtp"), m.sess[x].turn = "body" PROVE m.sess[x].output # f
  <2>1. SessionOK(m, x)
    BY <1>7, <1>14 DEF IsA, ItemOK
  <2>2. m.sess[fd].turn = "reply"
    BY <1>1, <1>4, WorldType DEF Moved
  <2>3. QED
    BY <1>1, <1>13, <1>14, <2>1, <2>2 DEF SessionOK
<1>15. Running(u, l) /\ Listening(m, u)
  BY <1>6, <1>8, <1>11, <1>12, <1>14, ItemGone
<1>16. QED
  BY <1>6, <1>15 DEF Keeps, Listening

\* write_file of an armed output file.
LEMMA WriteFileKeeps ==
  ASSUME NEW w, NEW l, Running(w, l), NEW f, IsA(w, f, "file"), "WRITE" \in w.sel.fds[f].interest,
         NEW u \in write_file(w, f)
  PROVE  Keeps(w, u, l)
<1> DEFINE fd == w.sel.fds[f].data
           d == SetInterest(w, f, {})
<1>1. w \in World /\ CleanTable(w.sel) /\ f \in UsedFds(w.sel)
  BY DEF Running, WorldOK, IsA
<1>2. /\ IsA(w, fd, "smtp") /\ w.sess[fd].output = f /\ w.sess[fd].turn \in {"disk", "error"}
      /\ fd \in KernelFd /\ f \in KernelFd
      /\ \A g : IsA(w, g, "file") /\ w.sel.fds[g].data = fd => g = f \/ w.sel.fds[g].interest = {}
  BY ArmedSession
<1>3. f \in Fd /\ fd \in Fd
  BY <1>1, <1>2, WorldType DEF IsA
<1>4. Rearmed(w, d, f, {})
  <2> DEFINE s == selector_set_interest(w.sel, f, {}).s
  <2>1. Becomes(s, [w.sel.fds EXCEPT ![f].interest = {}], UsedFds(w.sel))
    BY <1>1, InterestSet
  <2>2. d = [w EXCEPT !.sel = s]
    BY DEF SetInterest
  <2> HIDE DEF s, d
  <2>3. d.sel = s /\ d.open = w.open /\ d.sess = w.sess /\ d \in World
    BY <1>1, <2>1, <2>2 DEF World, Becomes, CleanTable
  <2>4. QED
    BY <2>1, <2>3 DEF Rearmed
<1>5. Running(d, l) /\ Listening(w, d) /\ Alike(w, d)
  BY <1>4, FileInterest
<1>6. d \in World /\ d.sel.fds = [w.sel.fds EXCEPT ![f].interest = {}]
  BY <1>4 DEF Rearmed, Becomes
<1> HIDE DEF d
<1>7. IsA(d, f, "file") /\ IsA(d, fd, "smtp") /\ d.sel.fds[f].data = fd
  BY <1>1, <1>2, <1>3, <1>5, <1>6, WorldType DEF Alike
<1>8. Unarmed(d, fd)
  <2>1. ASSUME NEW g, IsA(d, g, "file"), d.sel.fds[g].data = fd PROVE d.sel.fds[g].interest = {}
    <3>1. IsA(w, g, "file") /\ g \in Fd
      BY <1>1, <1>5, <2>1, WorldType DEF Alike, IsA
    <3>2. CASE g = f
      BY <1>1, <1>3, <1>6, <3>2, WorldType DEF Item
    <3>3. CASE g # f
      <4>1. d.sel.fds[g] = w.sel.fds[g]
        BY <1>1, <1>3, <1>6, <3>1, <3>3, WorldType
      <4> HIDE DEF fd
      <4>2. QED
        BY <1>2, <2>1, <3>1, <3>3, <4>1
    <3>4. QED
      BY <3>2, <3>3
  <2> HIDE DEF fd
  <2>2. QED
    BY <2>1 DEF Unarmed
<1>9. CASE u = [w EXCEPT !.sess[fd].turn = "error"]
  <2>1. w.sess \in [KernelFd -> Session] /\ "error" \in Turn
    BY <1>1, WorldType DEF Turn
  <2> HIDE DEF fd
  <2>2. [w.sess EXCEPT ![fd].turn = "error"] \in [KernelFd -> Session]
    BY <1>2, <2>1 DEF Session
  <2>3. u.sel = w.sel /\ u.open = w.open /\ u.sess = [w.sess EXCEPT ![fd].turn = "error"] /\ u \in World
    BY <1>1, <1>9, <2>2 DEF World
  <2>4. QED
    BY <2>3, SessionFails DEF Keeps, FailedWrite, fd
<1>10. CASE u = MoreBody(w, fd, f)
  <2>1. u = request_data_init(SetInterest(d, fd, {"READ"}), fd)
    BY <1>10 DEF MoreBody, d
  <2> HIDE DEF fd
  <2>2. AtBody(d, u, l, fd)
    BY <1>5, <1>7, <1>8, <2>1, ArriveAtData
  <2>3. QED
    BY <1>5, <2>2 DEF AtBody, Keeps, Listening
<1>11. ASSUME NEW n \in 1..MaxRcpts, NEW v \in CopiedToAll(d, n), u = Finished(v, fd, f)
      PROVE  Keeps(w, u, l)
  <2> HIDE DEF fd
  <2>1. n \in Nat
    BY <1>11
  <2>2. v \in Grown(d)
    BY <1>6, <1>11, <2>1, CopiesOpen
  <2>3. ~NoClients(d)
    BY <1>7 DEF NoClients
  <2>4. v \in World /\ v.sel = d.sel /\ v.sess = d.sess
        /\ \A x \in KernelFd : d.open[x] # "free" => v.open[x] = d.open[x]
    BY <2>2 DEF Grown
  <2>5. Running(v, l) /\ Listening(d, v)
    BY <1>5, <2>3, <2>4, MoreOpen
  <2>6. IsA(v, f, "file") /\ IsA(v, fd, "smtp") /\ v.sel.fds[f].data = fd /\ Unarmed(v, fd)
    BY <1>7, <1>8, <2>4 DEF IsA, Unarmed
  <2>7. Keeps(v, u, l)
    BY <1>11, <2>5, <2>6, FinishKeeps
  <2>8. QED
    BY <1>5, <2>5, <2>7 DEF Keeps, Listening
<1>12. u = [w EXCEPT !.sess[fd].turn = "error"] \/ u = MoreBody(w, fd, f)
       \/ \E n \in 1..MaxRcpts : \E v \in CopiedToAll(d, n) : u = Finished(v, fd, f)
  <2>1. w.sess[fd].output = f
    BY <1>2
  <2> HIDE DEF fd
  <2>2. u \in {[w EXCEPT !.sess[fd].turn = "error"], MoreBody(w, fd, f)}
              \cup {Finished(v, fd, w.sess[fd].output) : v \in UNION {CopiedToAll(d, n) : n \in 1..MaxRcpts}}
    BY DEF write_file, fd, d
  <2>3. QED
    BY <2>1, <2>2
<1>13. QED
  BY <1>9, <1>10, <1>11, <1>12

-----------------------------------------------------------------------------
(* A client is accepted; an item is visited.                               *)

Outcome(w, u, l) == Running(u, l) /\ (Listening(w, u) \/ Full(w, l))

\* smtp_passive_accept, which may cost the listening socket its registration.
LEMMA AcceptKeeps ==
  ASSUME NEW w, NEW l, Running(w, l), NEW p, IsA(w, p, "passive"), NEW u \in smtp_passive_accept(w, p)
  PROVE  Outcome(w, u, l)
<1> DEFINE f == Lowest(w)
           r == selector_register(w.sel, f, "smtp", {"WRITE"}, f)
           v == [w EXCEPT !.open[f] = "socket"]
<1>1. w \in World /\ CleanTable(w.sel) /\ p \in UsedFds(w.sel)
  BY DEF Running, WorldOK, IsA
<1>2. CASE Exhausted(w)
  BY <1>2 DEF smtp_passive_accept, Outcome, Listening
<1>3. CASE ~Exhausted(w)
  <2>1. f \in KernelFd /\ f \in Nat /\ w.open[f] = "free" /\ \A x \in KernelFd : x < f => w.open[x] # "free"
    BY <1>3, LowestFree DEF Exhausted
  <2>2. f \notin Servers
    BY <2>1 DEF Running
  <2>3. v.sel = w.sel /\ v.sess = w.sess /\ v.open = [w.open EXCEPT ![f] = "socket"] /\ v \in World
    BY <1>1, <2>1 DEF World
  <2>4. u = v \/ u = IF r.status = "SUCCESS" THEN [v EXCEPT !.sel = r.s, !.sess[f] = NewSession]
                     ELSE [v EXCEPT !.sel = selector_unregister_fd(@, p)]
    BY <1>3 DEF smtp_passive_accept
  <2> HIDE DEF v
  <2>5. Running(v, l) /\ Listening(w, v)
    <3>1. \A x \in KernelFd : w.open[x] # "free" => v.open[x] = w.open[x]
      BY <1>1, <2>1, <2>3, WorldType
    <3>2. v.open[f] = "socket"
      BY <1>1, <2>1, <2>3, WorldType
    <3>3. QED
      BY <2>3, <3>1, <3>2, MoreOpen
  <2>6. CASE f \in Fd \ UsedFds(w.sel)
    <3> DEFINE t == [v EXCEPT !.sel = r.s, !.sess[f] = NewSession]
    <3>1. /\ r.status = "SUCCESS"
          /\ Becomes(r.s, [w.sel.fds EXCEPT ![f] = [fd |-> f, interest |-> {"WRITE"}, handler |-> "smtp", data |-> f]],
                     UsedFds(w.sel) \cup {f})
      <4>1. {"WRITE"} \in SUBSET Op /\ f \in Int
        BY <2>1 DEF Op
      <4> HIDE DEF f
      <4>2. QED
        BY <1>1, <2>6, <4>1, Registered
    <3> HIDE DEF r
    <3>2. NewSession \in Session
      <4>1. f \in 0..FdLimit - 1
        BY <2>1 DEF KernelFd
      <4>2. QED
        BY <4>1, DescriptorsAssumption DEF NewSession, Session, Turn
    <3>3. t.sel = r.s /\ t.open = v.open /\ t.sess = [v.sess EXCEPT ![f] = NewSession] /\ t \in World
      <4>1. r.s \in FdSelector
        BY <3>1 DEF Becomes, CleanTable
      <4>2. QED
        BY <2>1, <2>3, <3>2, <4>1 DEF World
    <3> HIDE DEF t
    <3>4. Added(v, t, f, "smtp", {"WRITE"}, f)
      <4>1. \A x \in KernelFd \ {f} : t.sess[x] = v.sess[x]
        BY <2>3, <3>3, WorldType
      <4>2. QED
        BY <2>3, <3>1, <3>3, <4>1 DEF Added
    <3>5. \A x \in UsedFds(v.sel) : v.open[x] # "free"
      <4>1. ASSUME NEW x \in UsedFds(w.sel), v.open[x] = "free" PROVE FALSE
        <5>1. x = Lowest(v) /\ v.sel.fds[x].handler = "log"
          BY <2>3, <2>5, <4>1, UsedIsOpen
        <5>2. LogOK(v, l, x)
          BY <2>3, <2>5, <4>1, <5>1 DEF Running, WorldOK, ItemOK, IsA
        <5>3. x \in KernelFd /\ x # f
          BY <2>6, <4>1, <5>2 DEF LogOK
        <5>4. w.open[x] = "free"
          BY <1>1, <2>1, <2>3, <4>1, <5>3, WorldType
        <5>5. x = f
          BY <4>1, <5>4, UsedIsOpen
        <5>6. QED
          BY <5>3, <5>5
      <4>2. QED
        BY <2>3, <4>1
    <3>6. v.open[f] = "socket" /\ t.sess[f].turn = "reply"
      BY <1>1, <2>1, <2>3, <3>3, WorldType DEF NewSession
    <3> HIDE DEF f
    <3>7. {"WRITE"} \in SUBSET Op /\ f \in Int /\ f \notin UsedFds(v.sel)
      BY <2>1, <2>3, <2>6 DEF Op
    <3>8. Running(t, l) /\ Listening(v, t)
      BY <2>1, <2>2, <2>5, <2>6, <3>4, <3>5, <3>6, <3>7, ItemComes
    <3>9. u \in {v, t}
      BY <2>4, <3>1 DEF t
    <3>10. QED
      BY <2>5, <3>8, <3>9 DEF Outcome, Listening
  <2>7. CASE f \notin Fd \ UsedFds(w.sel)
    <3> DEFINE t == [v EXCEPT !.sel = selector_unregister_fd(@, p)]
    <3>1. r.status # "SUCCESS"
      <4>1. f \in UsedFds(w.sel) \/ f \notin Fd
        BY <2>7
      <4> HIDE DEF f
      <4>2. QED
        BY <1>1, <2>1, <4>1, RegisterRefused
    <3>2. Becomes(selector_unregister_fd(v.sel, p), [v.sel.fds EXCEPT ![p] = UnusedItem], UsedFds(v.sel) \ {p})
      BY <1>1, <2>3, UnregisteredOne
    <3>3. t.sel = selector_unregister_fd(v.sel, p) /\ t.open = v.open /\ t.sess = v.sess /\ t \in World
      BY <2>3, <3>2 DEF World, Becomes, CleanTable
    <3> HIDE DEF t
    <3>4. Removed(v, t, p)
      BY <3>2, <3>3 DEF Removed
    <3>5. IsA(v, p, "passive") /\ ~IsA(v, p, "log") /\ ~IsA(v, p, "file") /\ ~IsA(v, p, "smtp") /\ p \in Fd
      BY <1>1, <2>3, WorldType DEF IsA
    <3>6. Unarmed(v, p)
      BY <2>5, <3>5, OnlyDisksAreArmed
    <3>7. ASSUME NEW s, IsA(v, s, "smtp"), v.sess[s].turn = "body" PROVE v.sess[s].output # p
      <4>1. SessionOK(v, s)
        BY <2>5, <3>7 DEF Running, WorldOK, ItemOK, IsA
      <4>2. QED
        BY <3>5, <3>7, <4>1 DEF SessionOK
    <3>8. Running(t, l)
      BY <1>1, <2>3, <2>5, <3>4, <3>5, <3>6, <3>7, ItemGone
    <3>9. Full(w, l)
      <4>1. CASE f \in UsedFds(w.sel)
        BY <2>1, <4>1, UsedIsOpen DEF Full
      <4>2. CASE f \notin Fd
        <5>1. \A x \in Fd : x < f
          BY <2>1, <4>2, DescriptorsAssumption DEF Fd
        <5>2. QED
          BY <2>1, <5>1 DEF Full
      <4>3. QED
        BY <2>7, <4>1, <4>2
    <3>10. u \in {v, t}
      BY <2>4, <3>1 DEF t
    <3>11. QED
      BY <2>5, <3>8, <3>9, <3>10 DEF Outcome
  <2>8. QED
    BY <2>6, <2>7
<1>4. QED
  BY <1>2, <1>3

\* An item of interest is in use.
LEMMA OfInterest ==
  ASSUME NEW w, NEW l, Running(w, l), NEW fd \in Fd, w.sel.fds[fd].interest # {}
  PROVE  fd \in UsedFds(w.sel) /\ ItemOK(w, l, fd)
BY DEF Running, WorldOK, CleanTable, UnusedItem

\* handle_read, dispatched to a handler that reads.
LEMMA ReadKeeps ==
  ASSUME NEW w, NEW l, Running(w, l), NEW fd \in Fd, "READ" \in w.sel.fds[fd].interest,
         NEW u \in handle_read(w, fd)
  PROVE  Outcome(w, u, l)
<1>1. fd \in UsedFds(w.sel) /\ ItemOK(w, l, fd)
  BY OfInterest
<1>2. CASE IsA(w, fd, "passive")
  BY <1>2, AcceptKeeps DEF handle_read, IsA
<1>3. CASE IsA(w, fd, "udp")
  <2>1. u = w
    BY <1>3 DEF handle_read, IsA
  <2>2. QED
    BY <2>1 DEF Outcome, Listening
<1>4. CASE IsA(w, fd, "smtp")
  <2>1. u \in read_handler(w, fd)
    BY <1>4 DEF handle_read, IsA
  <2>2. QED
    BY <1>4, <2>1, ReadHandlerKeeps DEF Outcome, Keeps
<1>5. ~IsA(w, fd, "file") /\ ~IsA(w, fd, "log")
  BY <1>1 DEF ItemOK, FileOK, LogOK, IsA
<1>6. QED
  BY <1>1, <1>2, <1>3, <1>4, <1>5 DEF ItemOK

\* handle_write, dispatched to a handler that writes.
LEMMA WriteKeeps ==
  ASSUME NEW w, NEW l, Running(w, l), NEW fd \in Fd, "WRITE" \in w.sel.fds[fd].interest,
         NEW u \in handle_write(w, fd)
  PROVE  Keeps(w, u, l)
<1>1. fd \in UsedFds(w.sel) /\ ItemOK(w, l, fd)
  BY OfInterest
<1>2. CASE IsA(w, fd, "smtp")
  <2>1. u \in write_handler(w, fd)
    BY <1>2 DEF handle_write, IsA
  <2>2. QED
    BY <1>2, <2>1, WriteHandlerKeeps
<1>3. CASE IsA(w, fd, "file")
  <2>1. u \in write_file(w, fd)
    BY <1>3 DEF handle_write, IsA
  <2>2. QED
    BY <1>3, <2>1, WriteFileKeeps
<1>4. QED
  BY <1>1, <1>2, <1>3 DEF ItemOK, ServerOK, LogOK

\* One item of an iteration: its read handler, then its write handler.
LEMMA VisitKeeps ==
  ASSUME NEW w, NEW l, Running(w, l), NEW fd \in Fd, NEW u \in Visited(w, fd)
  PROVE  Outcome(w, u, l)
<1> DEFINE V == IF Dispatches(w.sel, fd, "READ", loop.r) THEN handle_read(w, fd) ELSE {w}
<1>1. PICK v \in V : u \in IF Dispatches(v.sel, fd, "WRITE", loop.w) THEN handle_write(v, fd) ELSE {v}
  BY DEF Visited
<1>2. Outcome(w, v, l)
  <2>1. CASE Dispatches(w.sel, fd, "READ", loop.r)
    BY <2>1, ReadKeeps DEF Dispatches
  <2>2. CASE ~Dispatches(w.sel, fd, "READ", loop.r)
    BY <2>2 DEF Outcome, Listening
  <2>3. QED
    BY <2>1, <2>2
<1>3. Keeps(v, u, l)
  <2>1. CASE Dispatches(v.sel, fd, "WRITE", loop.w)
    BY <1>1, <1>2, <2>1, WriteKeeps DEF Dispatches, Outcome
  <2>2. CASE ~Dispatches(v.sel, fd, "WRITE", loop.w)
    BY <1>1, <1>2, <2>2 DEF Outcome, Keeps, Listening
  <2>3. QED
    BY <2>1, <2>2
<1>4. QED
  BY <1>2, <1>3 DEF Outcome, Keeps, Listening

-----------------------------------------------------------------------------
(* The start.                                                              *)

ServerItem(s, fd) ==
  /\ \/ fd \in Passive /\ s.fds[fd].handler = "passive"
     \/ fd \in Udp     /\ s.fds[fd].handler = "udp"
  /\ s.fds[fd].interest = {"READ"}

\* A table with nothing but servers in it, and what became of the last registration.
ServerTables ==
  {x \in [s : FdSelector, status : {"SUCCESS", "FDINUSE"}] :
     CleanTable(x.s) /\ \A fd \in UsedFds(x.s) : ServerItem(x.s, fd)}

\* The registration of one more server.
LEMMA ServerComes ==
  ASSUME NEW x \in ServerTables, NEW fd \in Servers,
         NEW handler, handler = IF fd \in Passive THEN "passive" ELSE "udp"
  PROVE  selector_register(x.s, fd, handler, {"READ"}, 0) \in ServerTables
<1> DEFINE r == selector_register(x.s, fd, handler, {"READ"}, 0)
           item == [fd |-> fd, interest |-> {"READ"}, handler |-> handler, data |-> 0]
<1>1. CleanTable(x.s) /\ fd \in Fd /\ fd \in Nat
  BY DescriptorsAssumption DEF ServerTables, Servers, Fd
<1>2. CASE fd \in UsedFds(x.s)
  <2>1. ITEM_USED(x.s.fds[fd]) /\ ~(fd > x.s.fd_size)
    BY <1>1, <1>2, TableType DEF UsedFds
  <2>2. r = [s |-> x.s, status |-> "FDINUSE"]
    BY <1>1, <2>1 DEF selector_register, INVALID_FD
  <2>3. QED
    BY <2>2 DEF ServerTables
<1>3. CASE fd \notin UsedFds(x.s)
  <2>1. r.status = "SUCCESS" /\ Becomes(r.s, [x.s.fds EXCEPT ![fd] = item], UsedFds(x.s) \cup {fd})
    <3>1. {"READ"} \in SUBSET Op /\ handler \in {"passive", "udp", "smtp", "file", "log"} /\ 0 \in Int
      BY DEF Op
    <3>2. QED
      BY ZenonT(60), <1>1, <1>3, <3>1, Registered
  <2>2. r = [s |-> r.s, status |-> r.status]
    <3>1. ~ITEM_USED(x.s.fds[fd]) /\ ~(fd > x.s.fd_size)
      BY <1>1, <1>3, TableType DEF UsedFds
    <3>2. QED
      BY <1>1, <3>1 DEF selector_register, INVALID_FD
  <2> HIDE DEF r
  <2>3. CleanTable(r.s) /\ r.s \in FdSelector /\ UsedFds(r.s) = UsedFds(x.s) \cup {fd}
    BY <2>1 DEF Becomes, CleanTable
  <2>4. ASSUME NEW y \in UsedFds(r.s) PROVE ServerItem(r.s, y)
    <3>1. r.s.fds = [x.s.fds EXCEPT ![fd] = item] /\ x.s.fds \in [Fd -> Item] /\ y \in Fd
      BY <1>1, <2>1, <2>3, <2>4, TableType DEF Becomes
    <3>2. CASE y = fd
      BY <3>1, <3>2 DEF ServerItem, Servers
    <3>3. CASE y # fd
      <4>1. r.s.fds[y] = x.s.fds[y] /\ ServerItem(x.s, y)
        BY <2>3, <2>4, <3>1, <3>3 DEF ServerTables
      <4>2. QED
        BY <4>1 DEF ServerItem
    <3>4. QED
      BY <3>2, <3>3
  <2>5. r \in ServerTables
    BY <2>1, <2>2, <2>3, <2>4 DEF ServerTables
  <2>6. QED
    BY <2>5 DEF r
<1>4. QED
  BY <1>2, <1>3

\* main's registrations leave a table with nothing but servers in it.
LEMMA ServersOnly == ServersRegistered \in ServerTables
<1> DEFINE m == ItemsMax
           V == ServerTables
           first == [s |-> selector_new(InitialItems), status |-> "SUCCESS"]
           handler(fd) == IF fd \in Passive THEN "passive" ELSE "udp"
           next(n, x) == IF n - 1 \notin Servers \/ x.status # "SUCCESS" THEN x
                         ELSE selector_register(x.s, n - 1, handler(n - 1), {"READ"}, 0)
           G == [n \in 1..m |-> [x \in V |-> next(n, x)]]
           after == CHOOSE h : h = [n \in 0..ItemsMax |->
             CASE n = 0 -> first
               [] n > 0 /\ (n - 1 \notin Servers \/ h[n - 1].status # "SUCCESS") -> h[n - 1]
               [] OTHER -> selector_register(h[n - 1].s, n - 1, handler(n - 1), {"READ"}, 0)]
<1>1. ServersRegistered = after[ItemsMax]
  BY DEF ServersRegistered
<1>2. m \in Nat
  BY DescriptorsAssumption
<1>3. first \in V
  BY EmptyTable DEF ServerTables, Becomes, CleanTable
<1>4. \A n \in 1..m, x \in V : next(n, x) \in V
  BY ServerComes
<1>5. PICK g \in [0..m -> V] : Follows(g, m, first, G)
  <2>1. G \in [1..m -> [V -> V]]
    BY <1>4
  <2> HIDE DEF G, V, first, m
  <2>2. QED
    BY <1>2, <1>3, <2>1, RecursionExists
<1> DEFINE Step(h, n) == CASE n = 0 -> first
               [] n > 0 /\ (n - 1 \notin Servers \/ h[n - 1].status # "SUCCESS") -> h[n - 1]
               [] OTHER -> selector_register(h[n - 1].s, n - 1, handler(n - 1), {"READ"}, 0)
<1>6. ASSUME NEW n \in 0..m PROVE g[n] = Step(g, n)
  <2> HIDE DEF first, V, handler
  <2>1. g[n] = IF n = 0 THEN first ELSE G[n][g[n - 1]]
    BY <1>5 DEF Follows
  <2>2. n # 0 => n \in 1..m /\ g[n - 1] \in V /\ n > 0
    BY <1>2, <1>5
  <2>3. n # 0 => G[n][g[n - 1]] = next(n, g[n - 1])
    BY <2>2
  <2>4. QED
    BY <2>1, <2>2, <2>3
<1>7. g = [n \in 0..m |-> Step(g, n)]
  <2> HIDE DEF Step, V, first
  <2>1. QED
    BY <1>5, <1>6
<1>8. after[m] \in V /\ after = [n \in 0..m |-> Step(after, n)]
  <2>1. after = [n \in 0..m |-> Step(after, n)]
    BY <1>7
  <2> HIDE DEF after
  <2> DEFINE K == {n \in 0..m : after[n] \in V}
  <2>2. \A n \in 0..m : after[n] = Step(after, n)
    <3> HIDE DEF Step, m
    <3>1. QED
      BY <2>1
  <2>3. 0 \in K
    BY <1>2, <1>3, <2>2
  <2>4. ASSUME NEW n \in 1..m, n - 1 \in K PROVE n \in K
    <3> HIDE DEF handler
    <3>1. after[n] = next(n, after[n - 1])
      <4>1. n \in 0..m /\ n # 0 /\ n > 0
        BY <1>2
      <4>2. after[n] = Step(after, n)
        BY <2>2, <4>1
      <4> HIDE DEF m
      <4>3. QED
        BY <4>1, <4>2
    <3>2. after[n - 1] \in V
      BY <2>4
    <3> HIDE DEF V, next
    <3>3. QED
      BY <1>2, <1>4, <3>1, <3>2
  <2> HIDE DEF K, m
  <2>5. \A n \in 0..m : n \in K
    BY <1>2, <2>3, <2>4, UpTo
  <2>6. QED
    BY <1>2, <2>1, <2>5 DEF K
<1>9. QED
  BY <1>1, <1>8

-----------------------------------------------------------------------------
(* The invariant holds from the start to the end.                          *)

Now == [sel |-> sel, open |-> open, sess |-> sess]

ServersOpen == [fd \in KernelFd |-> IF fd \in Servers THEN "socket" ELSE "free"]

\* What main has done when it is where it is.
Progress ==
  /\ at \in {"sockets", "selector", "finalize", "end"} => UsedFds(sel) = {} /\ log = -1
  /\ at \in {"selector", "logger"} => open = ServersOpen
  /\ at = "logger" => log = -1 /\ \A fd \in UsedFds(sel) : ServerItem(sel, fd)
  /\ at \in {"check", "call", "wait"} => Running(Now, log)
  /\ at \in {"sockets", "selector", "logger", "check", "call", "wait", "destroy", "finalize", "end"}
  /\ log # -1 => log \in Fd \cap KernelFd
  /\ Iterating => at = "check"

Inv ==
  /\ process \in {"running", "aborted"}
  /\ loop \in [r : SUBSET Fd, w : SUBSET Fd]
  /\ ready \subseteq KernelFd
  /\ WorldOK(Now, log)
  /\ Progress

\* The variables as a world.
LEMMA NowIs ==
  /\ Now.sel = sel /\ Now.open = open /\ Now.sess = sess
  /\ \A w \in World : sel' = w.sel /\ open' = w.open /\ sess' = w.sess => Now' = w
<1>1. ASSUME NEW w \in World, sel' = w.sel, open' = w.open, sess' = w.sess PROVE Now' = w
  <2>1. w = [sel |-> w.sel, open |-> w.open, sess |-> w.sess]
    BY WorldType
  <2>2. Now' = [sel |-> sel', open |-> open', sess |-> sess']
    BY DEF Now
  <2>3. QED
    BY <1>1, <2>1, <2>2
<1>2. QED
  BY <1>1 DEF Now

\* A world without clients, files and a log.
LEMMA NobodyThere ==
  ASSUME NEW w, w \in World, CleanTable(w.sel), NEW l,
         \A fd \in UsedFds(w.sel) : ServerItem(w.sel, fd) /\ w.open[fd] = "socket"
  PROVE  WorldOK(w, l)
BY DEF WorldOK, ItemOK, IsA, ServerOK, ServerItem

\* There is nothing wrong with having no sessions.
LEMMA NoSessionsType == NoSessions \in [KernelFd -> Session]
<1>1. KernelFd # {} => 0 \in -1..FdLimit - 1
  BY DescriptorsAssumption DEF KernelFd
<1>2. QED
  BY <1>1 DEF NoSessions, Session, Turn

\* The invariant holds when main starts.
THEOREM InitInv == Init => Inv
<1> SUFFICES ASSUME Init PROVE Inv
  OBVIOUS
<1> USE DEF Init
<1>1. CleanTable(sel) /\ UsedFds(sel) = {}
  BY EmptyTable DEF Becomes
<1>2. Now \in World
  BY <1>1, NoSessionsType DEF Now, World, CleanTable
<1>3. WorldOK(Now, log)
  BY <1>1, <1>2, NobodyThere, NowIs
<1>4. Progress
  BY <1>1 DEF Progress, Iterating
<1>5. QED
  BY <1>3, <1>4 DEF Inv

\* What the invariant says of the items pselect is asked about.
LEMMA OfInterestNow ==
  ASSUME Inv
  PROVE  /\ sel.master_r \cup sel.master_w \subseteq {fd \in UsedFds(sel) \cap KernelFd : open[fd] # "free"}
         /\ \A fd \in UsedFds(sel) : open[fd] # "free" \/ sel.fds[fd].handler = "log"
<1>1. Now \in World /\ CleanTable(sel) /\ \A fd \in UsedFds(sel) : ItemOK(Now, log, fd)
  BY NowIs DEF Inv, WorldOK
<1>2. ASSUME NEW fd \in UsedFds(sel) PROVE open[fd] # "free" \/ sel.fds[fd].handler = "log"
  BY <1>1, <1>2, NowIs DEF ItemOK, IsA, ServerOK, SessionOK, FileOK
<1>3. ASSUME NEW fd \in sel.master_r \cup sel.master_w
      PROVE  fd \in UsedFds(sel) /\ fd \in KernelFd /\ open[fd] # "free"
  <2>1. fd \in UsedFds(sel) /\ sel.fds[fd].interest # {}
    BY <1>1, <1>3 DEF CleanTable, Consistent
  <2>2. ItemOK(Now, log, fd)
    BY <1>1, <2>1
  <2>3. Passive \subseteq KernelFd /\ Udp \subseteq KernelFd
    BY DescriptorsAssumption
  <2>4. QED
    BY <2>1, <2>2, <2>3, NowIs DEF ItemOK, IsA, ServerOK, SessionOK, FileOK, LogOK
<1>4. QED
  BY <1>2, <1>3

\* Steps that leave the world and the log as they are.
LEMMA WorldStays ==
  ASSUME Inv, UNCHANGED <<sel, open, sess, log>>
  PROVE  WorldOK(Now, log)' /\ (Running(Now, log) => Running(Now, log)')
BY DEF Inv, Now

\* main opens the servers' sockets.
LEMMA OpenSocketsInv ==
  ASSUME Inv, OpenSockets
  PROVE  Inv'
<1> USE DEF OpenSockets
<1>1. Now \in World /\ CleanTable(sel) /\ UsedFds(sel) = {} /\ log = -1
  BY NowIs DEF Inv, WorldOK, Progress
<1>2. open' \in [KernelFd -> {"free", "socket", "file", "leaked"}]
  OBVIOUS
<1>3. Now' \in World
  BY <1>1, <1>2 DEF Now, World
<1>4. Now'.sel = sel
  BY DEF Now
<1>5. WorldOK(Now', log')
  BY <1>1, <1>3, <1>4, NobodyThere
<1>6. at' \in {"selector", "destroy", "end"} /\ (at' = "selector" => open' = ServersOpen)
  BY DEF ServersOpen
<1>7. ~Iterating'
  BY DEF Inv, Progress, Iterating
<1>8. Progress'
  BY <1>1, <1>6, <1>7 DEF Progress, ServersOpen, KernelFd, Servers
<1>9. QED
  BY <1>5, <1>8 DEF Inv

\* main creates the selector and registers the servers.
LEMMA NewSelectorInv ==
  ASSUME Inv, NewSelector
  PROVE  Inv'
<1> USE DEF NewSelector
<1>1. Now \in World /\ CleanTable(sel) /\ UsedFds(sel) = {} /\ log = -1 /\ open = ServersOpen /\ ~Iterating
  BY NowIs DEF Inv, WorldOK, Progress
<1>2. CleanTable(sel') /\ sel' \in FdSelector /\ \A fd \in UsedFds(sel') : ServerItem(sel', fd)
  BY <1>1, ServersOnly DEF ServerTables, CleanTable
<1>3. Now' \in World /\ Now'.sel = sel' /\ Now'.open = open
  BY <1>1, <1>2 DEF Now, World
<1>4. ASSUME NEW fd \in UsedFds(sel') PROVE open[fd] = "socket"
  <2>1. fd \in Servers /\ fd \in KernelFd
    BY <1>2, <1>4, DescriptorsAssumption DEF ServerItem, Servers
  <2>2. QED
    BY <1>1, <2>1 DEF ServersOpen
<1>5. WorldOK(Now', log')
  BY <1>2, <1>3, <1>4, NobodyThere
<1>6. at' \in {"destroy", "logger"} /\ ~Iterating'
  BY <1>1 DEF Iterating
<1>7. Progress'
  BY <1>1, <1>2, <1>6 DEF Progress, ServersOpen, KernelFd, Servers
<1>8. QED
  BY <1>5, <1>7 DEF Inv

\* logger_init: the lowest free descriptor is within the table, for some descriptor
\* of the table is not a server's.
LEMMA StartLoggerInv ==
  ASSUME Inv, StartLogger
  PROVE  Inv'
<1> DEFINE f == Lowest([open |-> open])
           Logged == f < FdLimit /\ sel' = selector_register(sel, f, "log", {}, 0).s
<1>1. /\ Now \in World /\ CleanTable(sel) /\ log = -1 /\ open = ServersOpen /\ ~Iterating
      /\ at = "logger" /\ \A fd \in UsedFds(sel) : ServerItem(sel, fd)
  BY NowIs DEF Inv, WorldOK, Progress, StartLogger
<1>2. /\ sess' = sess /\ at' = "check" /\ UNCHANGED <<process, loop, ready, done>>
      /\ \/ UNCHANGED <<sel, open, log>>
         \/ Logged /\ log' = f /\ open' = [open EXCEPT ![f] = "file"]
         \/ Logged /\ UNCHANGED <<open, log>>
  BY DEF StartLogger
<1>3. \A fd \in Servers : open[fd] = "socket" /\ fd \in KernelFd
  BY <1>1, WorldType DEF ServersOpen
<1>4. UsedFds(sel) \subseteq Servers
  BY <1>1 DEF ServerItem, Servers
<1>5. ~Iterating'
  BY <1>1, <1>2 DEF Iterating
\* It remains that the loop finds everything in order.
<1>6. ASSUME Running(Now', log'), log' # -1 => log' \in Fd \cap KernelFd PROVE Inv'
  <2>1. Progress'
    BY <1>2, <1>5, <1>6 DEF Progress
  <2>2. QED
    BY <1>2, <1>6, <2>1 DEF Inv, Running
<1>7. CASE UNCHANGED <<sel, open, log>>
  <2>1. Now' = Now
    BY <1>2, <1>7 DEF Now
  <2>2. Running(Now, -1)
    BY <1>1, <1>3, NowIs DEF Running, Inv
  <2>3. QED
    BY <1>1, <1>6, <1>7, <2>1, <2>2
<1>8. CASE /\ Logged
           /\ \/ log' = f /\ open' = [open EXCEPT ![f] = "file"]
              \/ UNCHANGED <<open, log>>
  <2>1. f \in KernelFd /\ open[f] = "free" /\ f \in Nat /\ f = Lowest(Now)
        /\ \A fd \in KernelFd : fd < f => open[fd] # "free"
    <3> DEFINE o == [open |-> open]
    <3>1. o.open = open /\ Now.open = open
      BY NowIs
    <3>2. f < FdLimit
      BY <1>8
    <3> HIDE DEF o
    <3>3. Lowest(o) = Lowest(Now)
      BY <3>1 DEF Lowest
    <3>4. f = Lowest(Now)
      BY <3>3 DEF o
    <3> HIDE DEF f
    <3>5. QED
      BY <3>1, <3>2, <3>4, LowestFree, DescriptorsAssumption
  <2> HIDE DEF f
  <2>2. f \notin Servers /\ f \in Fd
    <3>1. PICK x \in Fd : x \notin Servers
      BY LifecycleAssumption
    <3>2. f \notin Servers
      BY <1>3, <2>1
    <3>3. f <= x
      <4>1. CASE x \in KernelFd
        <5>1. open[x] = "free"
          BY <1>1, <3>1, <4>1 DEF ServersOpen
        <5>2. QED
          BY <2>1, <4>1, <5>1, <3>1 DEF Fd, KernelFd
      <4>2. CASE x \notin KernelFd
        BY <2>1, <3>1, <4>2, DescriptorsAssumption DEF Fd, KernelFd
      <4>3. QED
        BY <4>1, <4>2
    <3>4. QED
      BY <2>1, <3>1, <3>2, <3>3, DescriptorsAssumption DEF Fd
  <2> DEFINE item == [fd |-> f, interest |-> {}, handler |-> "log", data |-> 0]
  <2>3. Becomes(sel', [sel.fds EXCEPT ![f] = item], UsedFds(sel) \cup {f})
    <3>1. f \in Fd \ UsedFds(sel) /\ {} \in SUBSET Op /\ 0 \in Int
      BY <1>4, <2>2
    <3>2. QED
      BY <1>1, <1>8, <3>1, Registered
  <2>4. CleanTable(sel') /\ UsedFds(sel') = UsedFds(sel) \cup {f}
    BY <2>3 DEF Becomes
  <2>5. /\ \A x \in UsedFds(sel) : sel'.fds[x] = sel.fds[x] /\ x # f /\ x \in Fd
        /\ sel'.fds[f].handler = "log" /\ sel'.fds[f].interest = {}
    BY <1>1, <1>4, <2>2, <2>3, TableType DEF Becomes
  <2>6. open \in [KernelFd -> {"free", "socket", "file", "leaked"}]
    BY <1>1, NowIs, WorldType
  <2>7. open' \in [KernelFd -> {"free", "socket", "file", "leaked"}]
        /\ \A x \in KernelFd \ {f} : open'[x] = open[x]
    BY <1>8, <2>1, <2>6
  <2>8. /\ Now'.sel = sel' /\ Now'.open = open' /\ Now'.sess = sess /\ Now' \in World
    <3>1. sel' \in FdSelector /\ sess \in [KernelFd -> Session]
      BY <1>1, <2>4, NowIs, WorldType DEF CleanTable
    <3>2. QED
      BY <1>2, <2>7, <3>1 DEF Now, World
  <2>9. ASSUME NEW x \in UsedFds(sel) PROVE ItemOK(Now', log', x)
    <3>1. ServerItem(sel', x) /\ x \in Servers /\ open'[x] = "socket"
      BY <1>1, <1>3, <1>4, <2>5, <2>7, <2>9 DEF ServerItem
    <3>2. QED
      BY <2>4, <2>8, <2>9, <3>1 DEF ItemOK, IsA, ServerOK, ServerItem
  <2>10. ItemOK(Now', log', f)
    <3>1. IsA(Now', f, "log")
      BY <2>4, <2>5, <2>8 DEF IsA
    <3>2. LogOK(Now', log', f)
      <4>1. CASE log' = f /\ open' = [open EXCEPT ![f] = "file"]
        BY <2>1, <2>2, <2>5, <2>6, <2>8, <4>1 DEF LogOK
      <4>2. CASE UNCHANGED <<open, log>>
        <5>1. NoClients(Now')
          BY <1>1, <2>4, <2>5, <2>8 DEF NoClients, IsA, ServerItem
        <5>2. Lowest(Now') = f
          BY <2>1, <2>8, <4>2, NowIs DEF Lowest
        <5>3. f # log'
          BY <1>1, <2>1, <4>2
        <5>4. QED
          BY <2>1, <2>2, <2>5, <2>8, <4>2, <5>1, <5>2, <5>3 DEF LogOK
      <4>3. QED
        BY <1>8, <4>1, <4>2
    <3>3. QED
      BY <3>1, <3>2 DEF ItemOK
  <2>11. WorldOK(Now', log')
    BY <2>4, <2>8, <2>9, <2>10 DEF WorldOK
  <2>12. \A fd \in Servers : open'[fd] = "socket"
    BY <1>3, <2>2, <2>7
  <2>13. log' # -1 => log' = f /\ IsA(Now', f, "log") /\ open'[f] = "file"
    BY <1>1, <1>8, <2>1, <2>4, <2>5, <2>6, <2>8 DEF IsA
  <2>14. Running(Now', log')
    BY <2>1, <2>8, <2>11, <2>12, <2>13 DEF Running
  <2>15. QED
    BY <1>6, <2>1, <2>2, <2>13, <2>14
<1>9. QED
  BY <1>2, <1>7, <1>8

\* pselect finds no closed descriptor.
LEMMA ReturnInv ==
  ASSUME Inv, Return
  PROVE  Inv'
<1> USE DEF Return, Select
<1>1. sel.master_r \subseteq Fd /\ sel.master_w \subseteq Fd
  BY OfInterestNow DEF UsedFds
<1>2. loop' \in [r : SUBSET Fd, w : SUBSET Fd]
  <2>1. PICK w \in SUBSET {fd \in sel.master_w : open[fd] = "socket"} :
          loop' = [r |-> sel.master_r \cap ready \cap nfds(sel),
                   w |-> (w \cup {fd \in sel.master_w : open[fd] = "file"}) \cap nfds(sel)]
    OBVIOUS
  <2>2. sel.master_r \cap ready \cap nfds(sel) \in SUBSET Fd
    BY <1>1
  <2>3. (w \cup {fd \in sel.master_w : open[fd] = "file"}) \cap nfds(sel) \in SUBSET Fd
    BY <1>1, <2>1
  <2>4. QED
    BY <2>1, <2>2, <2>3
<1>3. process' = process
  BY OfInterestNow
<1>4. Now' = Now /\ log' = log /\ sel' = sel /\ open' = open
  BY DEF Now
<1>5. Progress'
  BY <1>4 DEF Inv, Progress
<1>6. QED
  BY <1>2, <1>3, <1>4, <1>5 DEF Inv

\* Steps that leave the table, the descriptors and the log alone.
LEMMA LoopStepInv ==
  ASSUME Inv, sigterm_handler \/ TestDone \/ CallSelect \/ Arrival \/ (Abort /\ UNCHANGED <<at, done, log>>)
  PROVE  Inv'
<1>1. /\ Now' = Now /\ UNCHANGED <<loop, sel, open, sess, log>>
      /\ process' \in {"running", "aborted"} /\ (Iterating' <=> Iterating)
  BY DEF Inv, sigterm_handler, TestDone, CallSelect, Arrival, Arrive, Abort, Iterating, vars, Now
<1>2. ready' \subseteq KernelFd
  <2>1. CASE Arrival
    <3>1. PICK fd \in sel.master_r : ready' = ready \cup {fd}
      BY <2>1 DEF Arrival, Arrive
    <3>2. fd \in KernelFd
      BY <3>1, OfInterestNow
    <3>3. QED
      BY <3>1, <3>2 DEF Inv
  <2>2. CASE ~Arrival
    BY <2>2 DEF Inv, sigterm_handler, TestDone, CallSelect, Abort, vars
  <2>3. QED
    BY <2>1, <2>2
<1>3. Progress'
  <2>1. \/ at' = at
        \/ at = "wait" /\ at' = "check" /\ ~Iterating
        \/ at = "check" /\ at' \in {"destroy", "call"} /\ ~Iterating
        \/ at = "call" /\ at' = "wait"
    BY DEF sigterm_handler, TestDone, CallSelect, Arrival
  <2>2. Progress
    BY DEF Inv
  <2>3. CASE at' = at
    BY <1>1, <2>2, <2>3 DEF Progress
  <2>4. CASE at' # at
    BY <1>1, <2>1, <2>2, <2>4 DEF Progress
  <2>5. QED
    BY <2>3, <2>4
<1>4. QED
  BY <1>1, <1>2, <1>3 DEF Inv

\* The visit of an item as a step from world to world.
LEMMA VisitStep ==
  ASSUME Inv, NEW fd \in Fd, Visit(fd)
  PROVE  at = "check" /\ Running(Now, log) /\ Outcome(Now, Now', log)
<1>1. at = "check" /\ Running(Now, log)
  BY DEF Visit, Inv, Progress
<1>2. PICK w \in Visited(Now, fd) : sel' = w.sel /\ open' = w.open /\ sess' = w.sess
  BY DEF Visit, Now
<1>3. Outcome(Now, w, log)
  BY <1>1, <1>2, VisitKeeps
<1>4. Now' = w
  BY <1>2, <1>3, NowIs DEF Outcome, Running, WorldOK
<1>5. QED
  BY <1>1, <1>3, <1>4

\* The visit of an item.
LEMMA VisitInv ==
  ASSUME Inv, NEW fd \in Fd, Visit(fd), UNCHANGED <<at, done, log>>
  PROVE  Inv'
<1>1. at = "check" /\ Running(Now', log')
  BY VisitStep DEF Outcome
<1>2. process' \in {"running", "aborted"} /\ loop' \in [r : SUBSET Fd, w : SUBSET Fd] /\ ready' \subseteq KernelFd
  BY DEF Inv, Visit
<1>3. Progress'
  BY <1>1 DEF Inv, Progress
<1>4. QED
  BY <1>1, <1>2, <1>3 DEF Inv, Running

\* selector_destroy, in which the log closes its file.
LEMMA DestroyInv ==
  ASSUME Inv, Destroy
  PROVE  Inv'
<1> DEFINE t == selector_destroy(sel)
<1>1. Now \in World /\ CleanTable(sel)
  BY NowIs DEF Inv, WorldOK
<1>2. CleanTable(t) /\ t.fds = [fd \in Fd |-> UnusedItem] /\ UsedFds(t) = {}
  BY <1>1, AllUnregistered DEF Becomes
<1>3. /\ at' = "finalize" /\ sel' = t /\ sess' = NoSessions /\ ready' = {}
      /\ log' = IF log # -1 /\ ~ITEM_USED(t.fds[log]) THEN -1 ELSE log
      /\ open' = [fd \in KernelFd |-> IF fd = log /\ log' = -1 THEN "free" ELSE open[fd]]
      /\ UNCHANGED <<process, loop, done>> /\ at = "destroy"
  BY DEF Destroy
<1> HIDE DEF t
<1>4. log' = -1
  <2>1. log # -1 => log \in Fd
    BY DEF Inv, Progress
  <2>2. log \in Fd => t.fds[log].fd = FD_UNUSED
    BY <1>2 DEF UnusedItem
  <2>3. QED
    BY <1>3, <2>1, <2>2 DEF ITEM_USED
<1>5. open' \in [KernelFd -> {"free", "socket", "file", "leaked"}]
  <2>1. open \in [KernelFd -> {"free", "socket", "file", "leaked"}]
    BY <1>1, NowIs, WorldType
  <2>2. QED
    BY <1>3, <2>1
<1>6. Now' \in World /\ Now'.sel = t
  BY <1>2, <1>3, <1>5, NoSessionsType DEF Now, World, CleanTable
<1>7. WorldOK(Now', log')
  BY <1>2, <1>6, NobodyThere
<1>8. ~Iterating'
  BY <1>3 DEF Inv, Progress, Iterating
<1>9. Progress'
  BY <1>2, <1>3, <1>4, <1>8 DEF Progress
<1>10. QED
  BY <1>3, <1>7, <1>9 DEF Inv

\* The exit.
LEMMA FinishInv ==
  ASSUME Inv, Finish
  PROVE  Inv'
<1>1. Now \in World /\ CleanTable(sel) /\ UsedFds(sel) = {} /\ log = -1 /\ ~Iterating
  BY NowIs DEF Inv, WorldOK, Progress, Finish
<1>2. at' = "end" /\ open' = [fd \in KernelFd |-> "free"] /\ UNCHANGED <<process, loop, sel, sess, ready, done, log>>
  BY DEF Finish
<1>3. Now' \in World /\ Now'.sel = sel
  <2>1. open' \in [KernelFd -> {"free", "socket", "file", "leaked"}]
    BY <1>2
  <2>2. QED
    BY <1>1, <1>2, <2>1 DEF Now, World
<1>4. WorldOK(Now', log')
  BY <1>1, <1>3, NobodyThere
<1>5. Progress'
  BY <1>1, <1>2 DEF Progress, Iterating
<1>6. QED
  BY <1>2, <1>4, <1>5 DEF Inv

\* Every step of the program, and a stuttering one, keeps the invariant.
THEOREM NextInv == Inv /\ [Next]_all => Inv'
<1> SUFFICES ASSUME Inv, [Next]_all PROVE Inv'
  OBVIOUS
<1>1. CASE OpenSockets
  BY <1>1, OpenSocketsInv
<1>2. CASE NewSelector
  BY <1>2, NewSelectorInv
<1>3. CASE StartLogger
  BY <1>3, StartLoggerInv
<1>4. CASE Return
  BY <1>4, ReturnInv
<1>5. CASE sigterm_handler \/ TestDone \/ CallSelect \/ Arrival
  BY <1>5, LoopStepInv
<1>6. CASE Iterate
  BY <1>6, VisitInv, LoopStepInv DEF Iterate
<1>7. CASE Destroy
  BY <1>7, DestroyInv
<1>8. CASE Finish
  BY <1>8, FinishInv
<1>9. CASE UNCHANGED all
  BY <1>9 DEF all, vars, Inv, Progress, Iterating, Now
<1>10. QED
  BY <1>1, <1>2, <1>3, <1>4, <1>5, <1>6, <1>7, <1>8, <1>9 DEF Next, Main

\* The invariant holds throughout.
THEOREM Invariant == Spec => []Inv
BY InitInv, NextInv, PTL DEF Spec

-----------------------------------------------------------------------------
(* The properties.                                                         *)

\* The selector's table, its prototype sets and max_fd agree after every handler.
THEOREM TableStaysConsistent == Spec => []TableConsistent
<1>1. Inv => TableConsistent
  BY NowIs DEF Inv, WorldOK, CleanTable, TableConsistent, TypeOK, Now
<1>2. QED
  BY <1>1, Invariant, PTL

\* pselect is never asked about a closed descriptor, and no item but an unused log's
\* names one: the main loop only ends by a signal or by abort().
THEOREM RegisteredStaysOpen == Spec => []RegisteredIsOpen
<1>1. Inv => RegisteredIsOpen
  <2> SUFFICES ASSUME Inv PROVE RegisteredIsOpen
    OBVIOUS
  <2>1. process # "stopped"
    BY DEF Inv
  <2>2. QED
    BY <2>1, OfInterestNow DEF RegisteredIsOpen, UsedFds
<1>2. QED
  BY <1>1, Invariant, PTL

\* The file that is closed at the end of a body is the one that was dispatched.
THEOREM ArmedStaysCurrent == Spec => []ArmedIsCurrent
<1>1. Inv => ArmedIsCurrent
  <2> SUFFICES ASSUME Inv, NEW f \in UsedFds(sel), sel.fds[f].handler = "file",
                      "WRITE" \in sel.fds[f].interest
               PROVE  LET fd == sel.fds[f].data
                      IN  sess[fd].output = f /\ sess[fd].turn \in {"disk", "error"} /\ fd \in UsedFds(sel)
    BY DEF ArmedIsCurrent
  <2>1. ItemOK(Now, log, f)
    BY NowIs DEF Inv, WorldOK
  <2>2. FileOK(Now, f)
    BY <2>1, NowIs DEF ItemOK, IsA
  <2>3. QED
    BY <2>2, NowIs DEF FileOK, IsA
<1>2. QED
  BY <1>1, Invariant, PTL

\* logger_finalize never unregisters from the selector that has been freed.
THEOREM LogIsClosedFirst == Spec => []LogClosedFirst
<1>1. Inv => LogClosedFirst
  BY DEF Inv, Progress, LogClosedFirst
<1>2. QED
  BY <1>1, Invariant, PTL

\* DeafOnlyWhenExhausted, of one listening socket.
DeafStep(l) ==
  at # "destroy" /\ l \in UsedFds(sel) /\ l \notin UsedFds(sel') =>
    \/ \A fd \in Fd \cap KernelFd : open[fd] # "free"
    \/ \E fd \in UsedFds(sel) : sel.fds[fd].handler = "log" /\ fd # log

\* A listening socket is only lost when descriptors have run out, or a log's was
\* closed for want of memory.
THEOREM DeafOnlyThen == Spec => DeafOnlyWhenExhausted
<1>1. ASSUME Inv, Next, NEW l \in Passive, at # "destroy", l \in UsedFds(sel), l \notin UsedFds(sel')
      PROVE  \/ \A fd \in Fd \cap KernelFd : open[fd] # "free"
             \/ \E fd \in UsedFds(sel) : sel.fds[fd].handler = "log" /\ fd # log
  <2>1. CASE \E fd \in Fd : Visit(fd)
    <3>1. Outcome(Now, Now', log)
      BY <1>1, <2>1, VisitStep
    <3>2. Full(Now, log)
      BY <1>1, <3>1 DEF Outcome, Listening, Now
    <3>3. QED
      BY <3>2, NowIs DEF Full
  <2>2. CASE NewSelector
    BY <1>1, <2>2 DEF NewSelector, Inv, Progress
  <2>3. CASE StartLogger
    <3>1. CleanTable(sel)
      BY <1>1, NowIs DEF Inv, WorldOK
    <3>2. PICK f \in Nat : sel' = sel \/ sel' = selector_register(sel, f, "log", {}, 0).s
      BY <2>3, LowestFree DEF StartLogger
    <3>3. CASE f \in Fd \ UsedFds(sel)
      <4>1. {} \in SUBSET Op /\ 0 \in Int
        OBVIOUS
      <4>2. Becomes(selector_register(sel, f, "log", {}, 0).s,
                    [sel.fds EXCEPT ![f] = [fd |-> f, interest |-> {}, handler |-> "log", data |-> 0]],
                    UsedFds(sel) \cup {f})
        BY <3>1, <3>3, <4>1, Registered
      <4>3. QED
        BY <1>1, <3>2, <4>2 DEF Becomes
    <3>4. CASE f \notin Fd \ UsedFds(sel)
      BY <1>1, <3>1, <3>2, <3>4, RegisterRefused
    <3>5. QED
      BY <3>3, <3>4
  <2>4. CASE Destroy
    BY <1>1, <2>4 DEF Destroy
  <2>5. CASE OpenSockets \/ TestDone \/ CallSelect \/ Return \/ Finish \/ sigterm_handler \/ Arrival \/ Abort
    BY <1>1, <2>5 DEF OpenSockets, TestDone, CallSelect, Return, Select, Finish, sigterm_handler, Arrival,
                      Arrive, Abort, vars
  <2>6. QED
    BY <1>1, <2>1, <2>2, <2>3, <2>4, <2>5 DEF Next, Main, Iterate
<1>2. ASSUME Inv, UNCHANGED all, NEW l \in Passive, l \in UsedFds(sel) PROVE l \in UsedFds(sel')
  BY <1>2 DEF all, vars
<1>3. Inv /\ [Next]_all =>
        [\A l \in Passive : DeafStep(l)]_all
  BY <1>1, <1>2 DEF DeafStep
<1>4. QED
  BY <1>3, Invariant, PTL DEF Spec, DeafOnlyWhenExhausted, DeafStep
==============================================================================
