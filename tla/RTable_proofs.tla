---------------------------- MODULE RTable_proofs ----------------------------
(***************************************************************************)
(* Proofs about RTable, for every address width, TCAM size, set of         *)
(* interfaces and set of routes with contiguous masks.                     *)
(***************************************************************************)
EXTENDS RTable, FiniteSetTheorems,
        WellFoundedInduction, TLAPS

\* The bubble sort of trigger_rtable_modified, on lists of any entries.
CONSTANTS Entries, MAX_LEN
VARIABLES list, cur, swapped, done, orig

Sort == INSTANCE RTableSort

Contiguously(s) == \A k \in DOMAIN s : Contiguous(s[k].mask)

(* The rows in use come first, and no row has a longer mask than one above. *)
RowsInOrder(h) ==
    \A i, j \in 1 .. ROWS :
       i < j /\ h[j].port # NoPort =>
          h[i].port # NoPort /\ PopCount(h[j].mask) <= PopCount(h[i].mask)

(* The inductive invariant: once the first rewrite has begun the list is   *)
(* sorted, the rows written so far are those of the list, and the others   *)
(* still those the rewrite found, which were in order.                     *)
IInv ==
    /\ TypeOK
    /\ Contiguously(rtable)
    /\ InactiveOnlyWhenDown
    /\ row # 0 =>
          /\ Sorted(rtable)
          /\ \A i \in 1 .. ROWS : i < row => hw[i] = HwRow(rtable, i)
    /\ row = 0 => \A i \in 1 .. ROWS : hw[i] = ResetRow
    /\ row \in 1 .. ROWS =>
          /\ RowsInOrder(before)
          /\ \A i \in 1 .. ROWS : row <= i => hw[i] = before[i]

-----------------------------------------------------------------------------
(* A non-empty set of naturals has a least element. *)
LEMMA LeastNat ==
    ASSUME NEW S, S \subseteq Nat, S # {}
    PROVE  \E m \in S : \A k \in S : m <= k
<1>1. PICK m \in S : \A y \in S : ~(<<y, m>> \in OpToRel(<, Nat))
  BY NatLessThanWellFounded, WFMin, Zenon
<1>2. \A y \in S : ~(y < m)
  BY <1>1, Zenon DEF OpToRel
<1> QED BY <1>2

(* Among contiguous masks the numeric order used by trigger_rtable_modified *)
(* implies the population-count order used by get_next_hop.                 *)
LEMMA MaskOrder ==
    ASSUME NEW a \in Addr, NEW b \in Addr, Contiguous(b), ~BitsLess(a, b)
    PROVE  PopCount(b) <= PopCount(a)
<1>1. SetBits(b) \subseteq SetBits(a)
  <2> DEFINE D == {i \in Bits : a[i] # b[i]}
  <2>1. CASE D = {}
    BY <2>1 DEF SetBits
  <2>2. CASE D # {}
    <3>1. D \subseteq Nat
      BY DEF Bits
    <3>2. PICK m \in D : \A k \in D : m <= k
      BY <2>2, <3>1, LeastNat, Zenon
    <3>3. \A j \in Bits : j < m => a[j] = b[j]
      BY <3>1, <3>2 DEF Bits
    <3>4. m \in Bits /\ a[m] = 1 /\ b[m] = 0
      BY <3>2, <3>3, RTableAssumption, WAssumption DEF Addr, BitsLess, Bits
    <3>5. \A i \in Bits : m < i => b[i] # 1
      BY <3>4 DEF Contiguous
    <3> QED BY <3>3, <3>4, <3>5, RTableAssumption, WAssumption DEF SetBits, Bits
  <2> QED BY <2>1, <2>2
<1>2. IsFiniteSet(SetBits(a))
  <2>1. IsFiniteSet(1 .. W)
    BY FS_Interval, RTableAssumption, WAssumption
  <2>2. SetBits(a) \subseteq 1 .. W
    BY DEF SetBits, Bits
  <2> QED BY <2>1, <2>2, FS_Subset, Zenon
<1> QED BY <1>1, <1>2, FS_Subset, FS_CardinalityType DEF PopCount

(* A function on 1 .. n is a sequence of length n. *)
LEMMA FunctionIsSeq ==
    ASSUME NEW S, NEW n \in Nat, NEW f, f = [k \in 1 .. n |-> f[k]],
           \A k \in 1 .. n : f[k] \in S
    PROVE  f \in Seq(S) /\ Len(f) = n /\ DOMAIN f = 1 .. n
<1>1. f \in [1 .. n -> S]
  OBVIOUS
<1> QED BY <1>1

LEMMA AppendProps ==
    ASSUME NEW S, NEW s \in Seq(S), NEW e \in S
    PROVE  /\ Append(s, e) \in Seq(S)
           /\ DOMAIN Append(s, e) = 1 .. Len(s) + 1
           /\ \A k \in 1 .. Len(s) + 1 :
                 (k \in DOMAIN s /\ Append(s, e)[k] = s[k]) \/ Append(s, e)[k] = e
OBVIOUS

-----------------------------------------------------------------------------
(* The order of the sort. *)

(* BitsLess is a strict total order on addresses. *)
LEMMA BitsLessTotal ==
    ASSUME NEW a \in Addr, NEW b \in Addr
    PROVE  BitsLess(a, b) \/ BitsLess(b, a) \/ a = b
<1> DEFINE D == {i \in Bits : a[i] # b[i]}
<1>1. CASE D = {}
  BY <1>1 DEF Addr
<1>2. CASE D # {}
  <2>1. D \subseteq Nat
    BY DEF Bits
  <2>2. PICK m \in D : \A k \in D : m <= k
    BY <1>2, <2>1, LeastNat, Zenon
  <2>3. \A j \in Bits : j < m => a[j] = b[j]
    BY <2>1, <2>2 DEF Bits
  <2>4. m \in Bits /\ (a[m] < b[m] \/ b[m] < a[m])
    BY <2>2 DEF Addr
  <2> QED BY <2>3, <2>4 DEF BitsLess
<1> QED BY <1>1, <1>2

LEMMA BitsLessTransitive ==
    ASSUME NEW a \in Addr, NEW b \in Addr, NEW c \in Addr,
           BitsLess(a, b), BitsLess(b, c)
    PROVE  BitsLess(a, c)
<1>1. PICK i \in Bits : a[i] < b[i] /\ \A j \in Bits : j < i => a[j] = b[j]
  BY DEF BitsLess
<1>2. PICK k \in Bits : b[k] < c[k] /\ \A j \in Bits : j < k => b[j] = c[j]
  BY DEF BitsLess
<1>3. /\ i \in Nat /\ k \in Nat
      /\ \A j \in Bits : j \in Nat /\ a[j] \in {0, 1} /\ b[j] \in {0, 1} /\ c[j] \in {0, 1}
  BY DEF Bits, Addr
<1>4. CASE i < k
  BY <1>1, <1>2, <1>3, <1>4 DEF BitsLess
<1>5. CASE ~(i < k)
  BY <1>1, <1>2, <1>3, <1>5 DEF BitsLess
<1> QED BY <1>4, <1>5

LEMMA BitsLessIrreflexive ==
    ASSUME NEW a \in Addr
    PROVE  ~BitsLess(a, a)
BY DEF BitsLess, Addr

(* ~Swap is a total preorder: asymmetry and negative transitivity of Swap. *)
LEMMA SwapAsymmetric ==
    ASSUME NEW x \in Entry, NEW y \in Entry, Swap(x, y)
    PROVE  ~Swap(y, x)
<1>1. x.mask \in Addr /\ y.mask \in Addr /\ x.ip \in Addr /\ y.ip \in Addr
  BY DEF Entry
<1> QED BY <1>1, BitsLessTransitive, BitsLessIrreflexive, Zenon DEF Swap

LEMMA SwapTransitive ==
    ASSUME NEW x \in Entry, NEW y \in Entry, NEW z \in Entry, ~Swap(x, y), ~Swap(y, z)
    PROVE  ~Swap(x, z)
<1>1. /\ x.mask \in Addr /\ y.mask \in Addr /\ z.mask \in Addr
      /\ x.ip \in Addr /\ y.ip \in Addr /\ z.ip \in Addr
  BY DEF Entry
<1>2. /\ x.mask = y.mask \/ BitsLess(y.mask, x.mask)
      /\ y.mask = z.mask \/ BitsLess(z.mask, y.mask)
  BY <1>1, BitsLessTotal, Zenon DEF Swap
<1>3. /\ x.mask = y.mask => x.ip = y.ip \/ BitsLess(y.ip, x.ip)
      /\ y.mask = z.mask => y.ip = z.ip \/ BitsLess(z.ip, y.ip)
  BY <1>1, BitsLessTotal, Zenon DEF Swap
<1>4. ASSUME BitsLess(z.mask, x.mask) PROVE ~Swap(x, z)
  BY <1>1, <1>4, BitsLessTransitive, BitsLessIrreflexive, Zenon DEF Swap
<1>5. CASE x.mask = y.mask /\ y.mask = z.mask
  <2>1. ASSUME BitsLess(z.ip, x.ip) PROVE ~Swap(x, z)
    BY <1>1, <1>5, <2>1, BitsLessTransitive, BitsLessIrreflexive, Zenon DEF Swap
  <2>2. CASE x.ip = y.ip /\ y.ip = z.ip
    BY <1>1, <1>5, <2>2, BitsLessIrreflexive, Zenon DEF Swap
  <2>3. CASE ~(x.ip = y.ip /\ y.ip = z.ip)
    <3>1. BitsLess(z.ip, x.ip)
      BY <1>1, <1>3, <1>5, <2>3, BitsLessTransitive, Zenon
    <3> QED BY <2>1, <3>1
  <2> QED BY <2>2, <2>3
<1>6. CASE ~(x.mask = y.mask /\ y.mask = z.mask)
  <2>1. BitsLess(z.mask, x.mask)
    BY <1>1, <1>2, <1>6, BitsLessTransitive, Zenon
  <2> QED BY <1>4, <2>1
<1> QED BY <1>5, <1>6

(* Precedes is a strict total order on the indices of a list. *)
LEMMA PrecedesOrder ==
    ASSUME NEW s \in Seq(Entry),
           NEW a \in DOMAIN s, NEW b \in DOMAIN s, NEW c \in DOMAIN s
    PROVE  /\ ~Precedes(s, a, a)
           /\ a # b => Precedes(s, a, b) \/ Precedes(s, b, a)
           /\ Precedes(s, a, b) /\ Precedes(s, b, c) => Precedes(s, a, c)
<1>1. s[a] \in Entry /\ s[b] \in Entry /\ s[c] \in Entry /\ a \in Nat /\ b \in Nat /\ c \in Nat
  OBVIOUS
<1>2. ~Precedes(s, a, a)
  BY <1>1, SwapAsymmetric DEF Precedes
<1>3. a # b => Precedes(s, a, b) \/ Precedes(s, b, a)
  BY <1>1, SwapAsymmetric DEF Precedes
<1>4. ASSUME Precedes(s, a, b), Precedes(s, b, c) PROVE Precedes(s, a, c)
  <2>1. ~Swap(s[a], s[b]) /\ ~Swap(s[b], s[c])
    BY <1>4 DEF Precedes
  <2>2. ~Swap(s[a], s[c])
    BY <1>1, <2>1, SwapTransitive
  <2>3. CASE ~Swap(s[c], s[a])
    <3>1. ~Swap(s[c], s[b]) /\ ~Swap(s[b], s[a])
      BY <1>1, <2>1, <2>3, SwapTransitive
    <3>2. a < b /\ b < c
      BY <1>4, <3>1 DEF Precedes
    <3> QED BY <1>1, <2>2, <3>2 DEF Precedes
  <2> QED BY <2>2, <2>3 DEF Precedes
<1> QED BY <1>2, <1>3, <1>4

(* The ranks of the indices K are 0 .. Cardinality(K) - 1, each taken once, *)
(* in the order Precedes.                                                   *)
LEMMA RankProps ==
    ASSUME NEW s \in Seq(Entry), NEW K \in SUBSET DOMAIN s
    PROVE  /\ IsFiniteSet(K) /\ Cardinality(K) \in Nat
           /\ \A j, k \in K : Precedes(s, j, k) => Rank(s, K, j) < Rank(s, K, k)
           /\ \A i \in 1 .. Cardinality(K) : \E k \in K : Rank(s, K, k) = i - 1
<1> DEFINE P(k) == {j \in K : Precedes(s, j, k)}
           n == Cardinality(K)
<1>1. IsFiniteSet(K) /\ n \in Nat
  <2>1. DOMAIN s = 1 .. Len(s) /\ Len(s) \in Nat
    OBVIOUS
  <2>2. IsFiniteSet(DOMAIN s)
    BY <2>1, FS_Interval
  <2> QED BY <2>2, FS_Subset, FS_CardinalityType
<1>2. \A k \in K : IsFiniteSet(P(k)) /\ Cardinality(P(k)) \in Nat
  <2> SUFFICES ASSUME NEW k \in K PROVE IsFiniteSet(P(k)) /\ Cardinality(P(k)) \in Nat
    BY Zenon
  <2>1. P(k) \subseteq K
    OBVIOUS
  <2> HIDE DEF P
  <2> QED BY <1>1, <2>1, FS_Subset, FS_CardinalityType
<1>3. ASSUME NEW j \in K, NEW k \in K, Precedes(s, j, k)
      PROVE  Cardinality(P(j)) < Cardinality(P(k))
  <2>1. P(j) \subseteq P(k) /\ j \in P(k) /\ j \notin P(j)
    BY <1>3, PrecedesOrder
  <2> HIDE DEF P
  <2> QED BY <1>2, <2>1, FS_Subset
<1>4. \A k \in K : Cardinality(P(k)) \in 0 .. n - 1
  <2> SUFFICES ASSUME NEW k \in K PROVE Cardinality(P(k)) \in 0 .. n - 1
    OBVIOUS
  <2>1. P(k) \subseteq K /\ k \notin P(k)
    BY PrecedesOrder
  <2>2. Cardinality(P(k)) \in Nat
    BY <1>2, Zenon
  <2> HIDE DEF P
  <2>3. Cardinality(P(k)) <= n /\ (n = Cardinality(P(k)) => P(k) = K)
    BY <1>1, <2>1, FS_Subset
  <2> QED BY <1>1, <2>1, <2>2, <2>3
<1> DEFINE f == [k \in K |-> Cardinality(P(k))]
<1>5. f \in Surjection(K, 0 .. n - 1)
  <2>1. f \in [K -> 0 .. n - 1]
    BY <1>4
  <2>2. ASSUME NEW j \in K, NEW k \in K, j # k PROVE f[j] # f[k]
    <3>1. Precedes(s, j, k) \/ Precedes(s, k, j)
      BY <2>2, PrecedesOrder
    <3>2. f[j] \in Nat /\ f[k] \in Nat /\ (f[j] < f[k] \/ f[k] < f[j])
      <4> HIDE DEF P
      <4> QED BY <1>2, <1>3, <3>1
    <3> QED BY <3>2
  <2> HIDE DEF f
  <2>3. f \in Injection(K, 0 .. n - 1)
    BY <2>1, <2>2 DEF Injection, IsInjective
  <2>4. IsFiniteSet(0 .. n - 1) /\ Cardinality(0 .. n - 1) = n
    <3> HIDE DEF n
    <3>1. 0 \in Int /\ n - 1 \in Int
      BY <1>1
    <3> QED BY <1>1, <3>1, FS_Interval
  <2> QED BY <2>3, <2>4, FS_Injection
<1>6. \A i \in 1 .. n : \E k \in K : f[k] = i - 1
  <2> HIDE DEF f
  <2>1. \A t \in 0 .. n - 1 : \E k \in K : f[k] = t
    BY <1>5 DEF Surjection
  <2> HIDE DEF n, P
  <2>2. TAKE i \in 1 .. n
  <2>3. i - 1 \in 0 .. n - 1
    BY <1>1
  <2> QED BY <2>1, <2>3
<1> QED BY <1>1, <1>3, <1>6, Zenon DEF Rank

(* What the sort leaves behind. *)
LEMMA SortedSeqProps ==
    ASSUME NEW s \in Seq(Entry), NEW K \in SUBSET DOMAIN s,
           NEW r, r = SortedSeq(s, K)
    PROVE  /\ r \in Seq(Entry)
           /\ Sorted(r)
           /\ \A i \in DOMAIN r : \E k \in K : r[i] = s[k]
<1> DEFINE n == Cardinality(K)
           c(i) == CHOOSE k \in K : Rank(s, K, k) = i - 1
<1>1. n \in Nat
  BY RankProps
<1>2. \A i \in 1 .. n : c(i) \in K /\ Rank(s, K, c(i)) = i - 1
  BY RankProps
<1>3. r = [i \in 1 .. n |-> s[c(i)]]
  BY DEF SortedSeq
<1> HIDE DEF c
<1>4. \A i \in 1 .. n : c(i) \in DOMAIN s /\ s[c(i)] \in Entry
  BY <1>2
<1>5. r \in Seq(Entry) /\ DOMAIN r = 1 .. n
  BY <1>1, <1>3, <1>4
<1>6. ASSUME NEW i \in 1 .. n, NEW j \in 1 .. n, i < j PROVE ~Swap(r[i], r[j])
  <2>1. SUFFICES ASSUME Swap(s[c(i)], s[c(j)]) PROVE FALSE
    BY <1>3
  <2>2. Precedes(s, c(j), c(i))
    BY <1>4, <2>1, SwapAsymmetric DEF Precedes
  <2>3. Rank(s, K, c(j)) < Rank(s, K, c(i))
    BY <1>2, <2>2, RankProps
  <2> QED BY <1>2, <1>6, <2>3
<1>7. Sorted(r)
  BY <1>5, <1>6 DEF Sorted
<1> QED BY <1>2, <1>3, <1>5, <1>7

-----------------------------------------------------------------------------
(* Counting active entries. *)
Count(s, k) == Cardinality(ActiveUpTo(s, k))

LEMMA CountType ==
    ASSUME NEW s, NEW k \in Nat
    PROVE  IsFiniteSet(ActiveUpTo(s, k)) /\ Count(s, k) \in Nat
<1>1. IsFiniteSet(1 .. k)
  BY FS_Interval
<1> QED BY <1>1, FS_Subset, FS_CardinalityType DEF ActiveUpTo, Count

LEMMA CountMonotone ==
    ASSUME NEW s, NEW j \in Nat, NEW k \in Nat, j <= k
    PROVE  Count(s, j) <= Count(s, k)
<1>1. ActiveUpTo(s, j) \subseteq ActiveUpTo(s, k)
  BY DEF ActiveUpTo
<1> QED BY <1>1, CountType, FS_Subset DEF Count

LEMMA CountStep ==
    ASSUME NEW s, NEW k \in Nat \ {0}
    PROVE  Count(s, k) = IF s[k].is_active THEN Count(s, k - 1) + 1
                                           ELSE Count(s, k - 1)
<1>1. CASE s[k].is_active
  <2>1. ActiveUpTo(s, k) = ActiveUpTo(s, k - 1) \cup {k} /\ k \notin ActiveUpTo(s, k - 1)
    BY <1>1 DEF ActiveUpTo
  <2>2. IsFiniteSet(ActiveUpTo(s, k - 1))
    BY CountType
  <2> QED BY <1>1, <2>1, <2>2, FS_AddElement, Zenon DEF Count
<1>2. CASE ~s[k].is_active
  <2>1. ActiveUpTo(s, k) = ActiveUpTo(s, k - 1)
    BY <1>2 DEF ActiveUpTo
  <2> QED BY <1>2, <2>1 DEF Count
<1> QED BY <1>1, <1>2

LEMMA CountStrict ==
    ASSUME NEW s, NEW j \in Nat, NEW k \in Nat, j < k, s[k].is_active
    PROVE  Count(s, j) < Count(s, k)
<1>1. k \in Nat \ {0} /\ k - 1 \in Nat /\ j <= k - 1
  OBVIOUS
<1>2. Count(s, k) = Count(s, k - 1) + 1
  BY <1>1, CountStep
<1>3. Count(s, j) <= Count(s, k - 1)
  BY <1>1, CountMonotone
<1> QED BY <1>1, <1>2, <1>3, CountType

LEMMA CountZero == \A s : Count(s, 0) = 0
<1> SUFFICES ASSUME NEW s PROVE Count(s, 0) = 0
  OBVIOUS
<1>1. ActiveUpTo(s, 0) = {}
  BY DEF ActiveUpTo
<1> QED BY <1>1, FS_EmptySet DEF Count

(* Two entries of the list are never the same row. *)
LEMMA NthUnique ==
    ASSUME NEW s \in Seq(Entry), NEW j \in DOMAIN s, NEW k \in DOMAIN s, NEW i,
           IsNth(s, j, i), IsNth(s, k, i)
    PROVE  j = k
<1>1. j \in Nat /\ k \in Nat
  OBVIOUS
<1>2. Count(s, j) = i /\ Count(s, k) = i /\ s[j].is_active /\ s[k].is_active
  BY DEF IsNth, Count
<1>3. ~(j < k) /\ ~(k < j)
  BY <1>1, <1>2, CountStrict, CountType
<1> QED BY <1>1, <1>3

(* Every row below the number of an active entry is in use. *)
LEMMA NthExists ==
    ASSUME NEW s \in Seq(Entry), NEW k \in DOMAIN s,
           NEW i \in Nat \ {0}, i <= Count(s, k)
    PROVE  \E j \in DOMAIN s : IsNth(s, j, i)
<1> DEFINE S == {j \in 1 .. k : i <= Count(s, j)}
<1>1. k \in S /\ S \subseteq Nat /\ k \in Nat /\ S \subseteq DOMAIN s
  OBVIOUS
<1>2. PICK m \in S : \A j \in S : m <= j
  BY <1>1, LeastNat, Zenon
<1>3. m \in Nat \ {0} /\ m - 1 \in Nat /\ m \in 1 .. k
  BY <1>2
<1>4. Count(s, m - 1) < i
  <2>1. CASE m = 1
    BY <2>1, CountZero
  <2>2. CASE m # 1
    <3>1. m - 1 \in 1 .. k /\ m - 1 \notin S
      BY <1>1, <1>2, <1>3, <2>2
    <3> QED BY <1>3, <3>1, CountType
  <2> QED BY <2>1, <2>2
<1>5. i <= Count(s, m)
  BY <1>2
<1>6. Count(s, m) = i /\ s[m].is_active
  BY <1>3, <1>4, <1>5, CountStep, CountType
<1> QED BY <1>1, <1>2, <1>6 DEF IsNth, Count

RowOf(e) == [ip |-> e.ip, mask |-> e.mask, gw |-> e.gw, port |-> e.iface]

(* The row of an active entry holds that entry. *)
LEMMA HwRowOfEntry ==
    ASSUME NEW s \in Seq(Entry), NEW k \in DOMAIN s, NEW i, IsNth(s, k, i)
    PROVE  HwRow(s, i) = RowOf(s[k])
<1> DEFINE c == CHOOSE j \in DOMAIN s : IsNth(s, j, i)
<1>1. c \in DOMAIN s /\ IsNth(s, c, i)
  OBVIOUS
<1>2. c = k
  BY <1>1, NthUnique
<1> QED BY <1>2, Zenon DEF HwRow, RowOf

LEMMA HwRowEmpty ==
    ASSUME NEW s, NEW i, ~\E k \in DOMAIN s : IsNth(s, k, i)
    PROVE  HwRow(s, i) = ZeroRow
BY DEF HwRow

LEMMA HwRowType ==
    ASSUME NEW s \in Seq(Entry), NEW i
    PROVE  HwRow(s, i) \in Row
<1>1. CASE \E k \in DOMAIN s : IsNth(s, k, i)
  <2>1. PICK k \in DOMAIN s : IsNth(s, k, i)
    BY <1>1
  <2>2. s[k] \in Entry
    OBVIOUS
  <2>3. RowOf(s[k]) \in Row
    BY <2>2 DEF RowOf, Row, Entry
  <2> QED BY <2>1, <2>3, HwRowOfEntry
<1>2. CASE ~\E k \in DOMAIN s : IsNth(s, k, i)
  BY <1>2, HwRowEmpty DEF ZeroRow, Row, Zero, Addr
<1> QED BY <1>1, <1>2

-----------------------------------------------------------------------------
(* The two lookups. *)
LEMMA RowMatches ==
    ASSUME NEW e, NEW d
    PROVE  Matches(RowOf(e), d) <=> Matches(e, d)
BY DEF Matches, RowOf

LEMMA ZeroRowMatches == \A d : Matches(ZeroRow, d)
BY DEF Matches, ZeroRow, Zero

LEMMA PopCountType == \A m : PopCount(m) \in Nat
<1> SUFFICES ASSUME NEW m PROVE PopCount(m) \in Nat
  OBVIOUS
<1>1. IsFiniteSet(1 .. W)
  BY FS_Interval, RTableAssumption, WAssumption
<1>2. SetBits(m) \subseteq 1 .. W
  BY DEF SetBits, Bits
<1> QED BY <1>1, <1>2, FS_Subset, FS_CardinalityType, Zenon DEF PopCount

LEMMA BestUnique ==
    ASSUME NEW s \in Seq(Entry), NEW d, NEW j \in DOMAIN s, NEW k \in DOMAIN s,
           Best(s, d, j), Best(s, d, k)
    PROVE  j = k
<1>1. j \in Nat /\ k \in Nat
  OBVIOUS
<1>2. PopCount(s[j].mask) \in Nat /\ PopCount(s[k].mask) \in Nat
  BY PopCountType
<1> QED BY <1>1, <1>2 DEF Best

(* The entry in the first matching row is the one get_next_hop selects. *)
LEMMA FirstIsBest ==
    ASSUME NEW s \in Seq(Entry), Sorted(s), Contiguously(s), NEW d,
           NEW i \in 1 .. ROWS, NEW k \in DOMAIN s, IsNth(s, k, i), Matches(s[k], d),
           \A c \in 1 .. ROWS : c < i => ~Matches(HwRow(s, c), d)
    PROVE  Best(s, d, k)
<1> SUFFICES ASSUME NEW j \in DOMAIN s, s[j].is_active, Matches(s[j], d)
             PROVE  IF j < k THEN PopCount(s[j].mask) < PopCount(s[k].mask)
                             ELSE PopCount(s[j].mask) <= PopCount(s[k].mask)
  BY DEF Best, IsNth
<1>1. j \in Nat \ {0} /\ k \in Nat /\ i \in Nat
  OBVIOUS
<1>2. ~(j < k)
  <2> SUFFICES ASSUME j < k PROVE FALSE
    OBVIOUS
  <2> DEFINE c == Count(s, j)
  <2>1. c < i /\ c \in Nat
    BY <1>1, CountStrict, CountType DEF IsNth, Count
  <2>2. c # 0
    <3>1. Count(s, 0) < Count(s, j)
      BY <1>1, CountStrict
    <3> QED BY <2>1, <3>1, CountZero
  <2>3. c \in 1 .. ROWS
    BY <1>1, <2>1, <2>2, RTableAssumption, WAssumption
  <2>4. IsNth(s, j, c)
    BY DEF IsNth, Count
  <2>5. HwRow(s, c) = RowOf(s[j])
    BY <2>4, HwRowOfEntry
  <2> QED BY <2>1, <2>3, <2>5, RowMatches
<1>3. CASE j = k
  BY <1>1, <1>3, PopCountType
<1>4. CASE k < j
  <2>1. ~BitsLess(s[k].mask, s[j].mask)
    BY <1>4 DEF Sorted, Swap
  <2>2. s[k].mask \in Addr /\ s[j].mask \in Addr
    <3>1. s[k] \in Entry /\ s[j] \in Entry
      OBVIOUS
    <3> QED BY <3>1 DEF Entry
  <2>3. Contiguous(s[j].mask)
    BY DEF Contiguously
  <2> QED BY <1>2, <2>1, <2>2, <2>3, MaskOrder, Zenon
<1> QED BY <1>1, <1>2, <1>3, <1>4

(* A complete image of a sorted list answers every lookup as the list does. *)
LEMMA ImageAgrees ==
    ASSUME NEW s \in Seq(Entry), Sorted(s), Contiguously(s),
           NEW h, \A i \in 1 .. ROWS : h[i] = HwRow(s, i),
           NEW d
    PROVE  LET f == lpm_lookup(h, d)
               g == get_next_hop(s, d)
           IN  IF ~f.found THEN NumActive(s) >= ROWS
               ELSE IF f.out = NoPort THEN ~g.found
               ELSE f = g
<1> DEFINE f == lpm_lookup(h, d)
           g == get_next_hop(s, d)
<1>1. CASE ~\E i \in 1 .. ROWS : FirstMatch(h, d, i)
  <2>1. ~f.found
    BY <1>1 DEF lpm_lookup, NoRoute
  <2>2. \A i \in 1 .. ROWS : ~Matches(h[i], d)
    <3> DEFINE M == {i \in 1 .. ROWS : Matches(h[i], d)}
    <3>1. SUFFICES ASSUME M # {} PROVE FALSE
      OBVIOUS
    <3>2. M \subseteq Nat
      OBVIOUS
    <3> HIDE DEF M
    <3>3. PICK m \in M : \A j \in M : m <= j
      BY <3>1, <3>2, LeastNat, Zenon
    <3> USE DEF M
    <3> QED BY <1>1, <3>3, RTableAssumption, WAssumption DEF FirstMatch
  <2>3. PICK k \in DOMAIN s : IsNth(s, k, ROWS)
    BY <2>2, HwRowEmpty, ZeroRowMatches, RTableAssumption, WAssumption
  <2>4. k \in Nat /\ Len(s) \in Nat /\ k <= Len(s)
    OBVIOUS
  <2>5. Count(s, k) = ROWS /\ Count(s, k) <= Count(s, Len(s))
    BY <2>3, <2>4, CountMonotone DEF IsNth, Count
  <2>6. NumActive(s) = Count(s, Len(s)) /\ Count(s, Len(s)) \in Nat
    BY <2>4, CountType DEF NumActive, Count
  <2> QED BY <2>1, <2>5, <2>6, RTableAssumption, WAssumption
<1>2. CASE \E i \in 1 .. ROWS : FirstMatch(h, d, i)
  <2> DEFINE i == CHOOSE c \in 1 .. ROWS : FirstMatch(h, d, c)
  <2>1. i \in 1 .. ROWS /\ FirstMatch(h, d, i)
    BY <1>2
  <2>2. f = Via(NextHop(h[i].gw, d), h[i].port)
    BY <1>2 DEF lpm_lookup, Hit
  <2> HIDE DEF i
  <2>3. h[i] = HwRow(s, i) /\ Matches(h[i], d)
    BY <2>1 DEF FirstMatch
  <2>4. \A c \in 1 .. ROWS : c < i => ~Matches(HwRow(s, c), d)
    BY <2>1 DEF FirstMatch
  <2>5. CASE \E k \in DOMAIN s : IsNth(s, k, i)
    <3>1. PICK k \in DOMAIN s : IsNth(s, k, i)
      BY <2>5
    <3>2. h[i] = RowOf(s[k])
      BY <2>3, <3>1, HwRowOfEntry
    <3>3. Best(s, d, k)
      BY <2>1, <2>3, <2>4, <3>1, <3>2, RowMatches, FirstIsBest
    <3>4. k = CHOOSE c \in DOMAIN s : Best(s, d, c)
      <4> DEFINE c == CHOOSE c \in DOMAIN s : Best(s, d, c)
      <4>1. c \in DOMAIN s /\ Best(s, d, c)
        BY <3>3
      <4> QED BY <3>3, <4>1, BestUnique
    <3>5. g = Via(NextHop(s[k].gw, d), s[k].iface)
      BY <3>3, <3>4 DEF get_next_hop
    <3>6. f = Via(NextHop(s[k].gw, d), s[k].iface)
      BY <2>2, <3>2 DEF RowOf
    <3>7. s[k].iface # NoPort
      <4>1. s[k] \in Entry
        OBVIOUS
      <4> QED BY <4>1, RTableAssumption, WAssumption DEF Entry
    <3>8. f.found /\ f.out = s[k].iface
      BY <3>6 DEF Via
    <3> QED BY <3>5, <3>6, <3>7, <3>8
  <2>6. CASE ~\E k \in DOMAIN s : IsNth(s, k, i)
    <3>1. f.found /\ f.out = NoPort
      BY <2>2, <2>3, <2>6, HwRowEmpty DEF ZeroRow, Via
    <3>2. ~\E k \in DOMAIN s : Best(s, d, k)
      <4> SUFFICES ASSUME NEW k \in DOMAIN s, Best(s, d, k) PROVE FALSE
        OBVIOUS
      <4> DEFINE c == Count(s, k)
      <4>1. k \in Nat \ {0} /\ s[k].is_active /\ Matches(s[k], d)
        BY DEF Best
      <4>2. c \in Nat /\ c # 0
        <5>1. Count(s, 0) < Count(s, k)
          BY <4>1, CountStrict
        <5> QED BY <4>1, <5>1, CountZero, CountType
      <4>3. IsNth(s, k, c)
        BY <4>1 DEF IsNth, Count
      <4>4. Matches(HwRow(s, c), d)
        BY <4>1, <4>3, HwRowOfEntry, RowMatches
      <4>5. c < i
        BY <2>1, <2>6, <4>2, NthExists
      <4> QED BY <2>1, <2>4, <4>2, <4>4, <4>5, RTableAssumption, WAssumption
    <3>3. ~g.found
      BY <3>2 DEF get_next_hop, NoRoute
    <3> QED BY <3>1, <3>3, Zenon
  <2> QED BY <2>5, <2>6
<1> QED BY <1>1, <1>2

-----------------------------------------------------------------------------
(* A rewrite under way. *)

(* The image of a sorted list is in order. *)
LEMMA ImageInOrder ==
    ASSUME NEW s \in Seq(Entry), Sorted(s), Contiguously(s),
           NEW h, \A i \in 1 .. ROWS : h[i] = HwRow(s, i)
    PROVE  RowsInOrder(h)
<1> SUFFICES ASSUME NEW i \in 1 .. ROWS, NEW j \in 1 .. ROWS, i < j, h[j].port # NoPort
             PROVE  h[i].port # NoPort /\ PopCount(h[j].mask) <= PopCount(h[i].mask)
  BY DEF RowsInOrder
<1>1. PICK k \in DOMAIN s : IsNth(s, k, j)
  BY HwRowEmpty DEF ZeroRow
<1>2. k \in Nat /\ i \in Nat \ {0} /\ j \in Nat /\ Count(s, k) = j
  BY <1>1, RTableAssumption DEF IsNth, Count
<1>3. PICK m \in DOMAIN s : IsNth(s, m, i)
  BY <1>2, NthExists
<1>4. m \in Nat /\ Count(s, m) = i
  BY <1>3 DEF IsNth, Count
<1>5. m < k
  BY <1>2, <1>4, CountMonotone
<1>6. s[m] \in Entry /\ s[k] \in Entry
  OBVIOUS
<1>7. h[i] = RowOf(s[m]) /\ h[j] = RowOf(s[k])
  BY <1>1, <1>3, HwRowOfEntry
<1>8. ~BitsLess(s[m].mask, s[k].mask)
  BY <1>5 DEF Sorted, Swap
<1>9. PopCount(s[k].mask) <= PopCount(s[m].mask)
  BY <1>6, <1>8, MaskOrder DEF Entry, Contiguously
<1> QED BY <1>6, <1>7, <1>9, RTableAssumption DEF RowOf, Entry

(* lpm_lookup answers from the first matching row. *)
LEMMA LookupFirst ==
    ASSUME NEW h, NEW d, NEW i \in 1 .. ROWS, FirstMatch(h, d, i)
    PROVE  lpm_lookup(h, d) = Hit(h[i], d)
<1> DEFINE c == CHOOSE j \in 1 .. ROWS : FirstMatch(h, d, j)
<1>1. c \in 1 .. ROWS /\ FirstMatch(h, d, c)
  OBVIOUS
<1>2. c = i
  <2> HIDE DEF c
  <2>1. ~(c < i) /\ ~(i < c)
    BY <1>1 DEF FirstMatch
  <2> QED BY <1>1, <2>1
<1> QED BY <1>2, Zenon DEF lpm_lookup

LEMMA LookupMisses ==
    ASSUME NEW h, NEW d, \A i \in 1 .. ROWS : ~Matches(h[i], d)
    PROVE  lpm_lookup(h, d) = NoRoute
BY DEF lpm_lookup, FirstMatch

LEMMA FirstMatchExists ==
    ASSUME NEW h, NEW d, NEW k \in 1 .. ROWS, Matches(h[k], d)
    PROVE  \E i \in 1 .. ROWS : i <= k /\ FirstMatch(h, d, i)
<1> DEFINE M == {i \in 1 .. ROWS : Matches(h[i], d)}
<1>1. M \subseteq Nat /\ k \in M
  OBVIOUS
<1>2. \A i \in 1 .. ROWS : i \in M <=> Matches(h[i], d)
  OBVIOUS
<1>3. M \subseteq 1 .. ROWS
  OBVIOUS
<1> HIDE DEF M
<1>4. PICK m \in M : \A j \in M : m <= j
  BY <1>1, LeastNat, Zenon
<1> QED BY <1>1, <1>2, <1>3, <1>4 DEF FirstMatch

(* A row of a table that lost routes stood no higher in the old one. *)
LEMMA SubImageMovesUp ==
    ASSUME NEW h1, NEW h2, RowsInOrder(h2),
           NEW f \in [RealRows(h2) -> RealRows(h1)],
           \A i, j \in RealRows(h2) : i < j => f[i] < f[j]
    PROVE  \A i \in RealRows(h2) : i <= f[i]
<1> DEFINE S == {i \in RealRows(h2) : f[i] < i}
<1>1. \A i \in RealRows(h2) : i \in 1 .. ROWS /\ f[i] \in 1 .. ROWS
  BY DEF RealRows
<1>2. SUFFICES ASSUME S # {} PROVE FALSE
  BY <1>1
<1>3. S \subseteq Nat /\ S \subseteq RealRows(h2) /\ \A i \in S : f[i] < i
  BY <1>1
<1>4. \A i \in RealRows(h2) : i \notin S => i <= f[i]
  BY <1>1
<1> HIDE DEF S
<1>5. PICK m \in S : \A i \in S : m <= i
  BY <1>2, <1>3, LeastNat, Zenon
<1>6. m \in RealRows(h2) /\ m \in 1 .. ROWS /\ f[m] \in 1 .. ROWS /\ f[m] < m
  BY <1>1, <1>3, <1>5
<1>7. m - 1 \in 1 .. ROWS /\ m - 1 < m
  BY <1>6, RTableAssumption
<1>8. m - 1 \in RealRows(h2) /\ m - 1 \notin S
  BY <1>5, <1>6, <1>7 DEF RealRows, RowsInOrder
<1>9. m - 1 <= f[m - 1] /\ f[m - 1] < f[m] /\ f[m - 1] \in 1 .. ROWS
  BY <1>1, <1>4, <1>6, <1>7, <1>8, Zenon
<1> QED BY <1>6, <1>9

-----------------------------------------------------------------------------
(* Invariance. *)
LEMMA InitIInv == Init => IInv
<1> SUFFICES ASSUME Init PROVE IInv
  OBVIOUS
<1>a. PICK n \in 0 .. MAX_INIT : \E f \in [1 .. n -> Routes] :
         rtable = [k \in 1 .. n |-> MkEntry(f[k], TRUE)]
  BY Zenon DEF Init
<1>1. PICK f \in [1 .. n -> Routes] : rtable = [k \in 1 .. n |-> MkEntry(f[k], TRUE)]
  BY <1>a, Zenon
<1>2. n \in Nat /\ \A k \in 1 .. n : f[k] \in Routes
  BY RTableAssumption, WAssumption
<1>3. \A k \in 1 .. n : MkEntry(f[k], TRUE) \in Entry
  BY <1>2, RTableAssumption, WAssumption DEF MkEntry, Entry, Route
<1>4. rtable \in Seq(Entry)
  <2>1. rtable = [k \in 1 .. n |-> rtable[k]] /\ \A k \in 1 .. n : rtable[k] \in Entry
    BY <1>1, <1>3, Zenon
  <2> QED BY <1>2, <2>1, FunctionIsSeq
<1>5. \A k \in DOMAIN rtable : Contiguous(rtable[k].mask) /\ rtable[k].is_active
  BY <1>1, <1>2, RTableAssumption, WAssumption DEF MkEntry
<1>6. ResetRow \in Row
  BY DEF ResetRow, Row, Zero, Ones, Addr
<1>7. hw \in [1 .. ROWS -> Row] /\ before \in [1 .. ROWS -> Row]
  BY <1>6 DEF Init
<1>8. TypeOK
  <2>1. up \subseteq Ifaces /\ dirty \in BOOLEAN
    BY DEF Init
  <2>2. row \in 0 .. ROWS + 1
    BY RTableAssumption, WAssumption DEF Init
  <2> QED BY <1>4, <1>7, <2>1, <2>2 DEF TypeOK
<1>9. row = 0 /\ 0 \notin 1 .. ROWS /\ \A i \in 1 .. ROWS : hw[i] = ResetRow
  BY RTableAssumption DEF Init
<1> QED BY <1>5, <1>8, <1>9 DEF IInv, Contiguously, InactiveOnlyWhenDown

(* A rewrite may begin from any list of contiguous entries in which only     *)
(* static entries of interfaces that are down are inactive.                  *)
LEMMA TriggerIInv ==
    ASSUME IInv, up' \subseteq Ifaces, dirty' \in BOOLEAN,
           NEW s \in Seq(Entry), NEW K \in SUBSET DOMAIN s,
           \A k \in K : /\ Contiguous(s[k].mask)
                        /\ ~s[k].is_active => s[k].is_static /\ s[k].iface \notin up',
           Idle, trigger_rtable_modified(s, K)
    PROVE  IInv'
<1>1. /\ rtable' \in Seq(Entry)
      /\ Sorted(rtable')
      /\ \A i \in DOMAIN rtable' : \E k \in K : rtable'[i] = s[k]
  BY SortedSeqProps DEF trigger_rtable_modified
<1>2. row' = 1 /\ before' = hw /\ hw' = hw
  BY DEF trigger_rtable_modified
<1>3. TypeOK'
  BY <1>1, <1>2, RTableAssumption, WAssumption DEF IInv, TypeOK
<1>4. Contiguously(rtable)'
  BY <1>1 DEF Contiguously
<1>5. InactiveOnlyWhenDown'
  BY <1>1 DEF InactiveOnlyWhenDown
<1>6. Sorted(rtable)' /\ \A i \in 1 .. ROWS : ~(i < row')
  BY <1>1, <1>2, RTableAssumption, WAssumption
<1>7. row' = 1 /\ 1 # 0 /\ \A i \in 1 .. ROWS : hw'[i] = before'[i]
  BY <1>2
<1>8. RowsInOrder(before')
  <2>1. CASE row = 0
    BY <1>2, <2>1 DEF IInv, RowsInOrder, ResetRow
  <2>2. CASE row = ROWS + 1
    <3>1. row # 0 /\ \A i \in 1 .. ROWS : i < row
      BY <2>2, RTableAssumption
    <3> QED BY <1>2, <3>1, ImageInOrder, Zenon DEF IInv, TypeOK
  <2> QED BY <2>1, <2>2, Zenon DEF Idle
<1> QED BY <1>3, <1>4, <1>5, <1>6, <1>7, <1>8, Zenon DEF IInv

LEMMA MkEntryProps ==
    ASSUME NEW r \in Routes, NEW b \in BOOLEAN
    PROVE  MkEntry(r, b) \in Entry /\ Contiguous(MkEntry(r, b).mask)
           /\ MkEntry(r, b).is_active
BY RTableAssumption, WAssumption DEF MkEntry, Entry, Route

LEMMA NextIInv == IInv /\ [Next]_vars => IInv'
<1> SUFFICES ASSUME IInv, [Next]_vars PROVE IInv'
  OBVIOUS
<1>0. /\ rtable \in Seq(Entry) /\ up \subseteq Ifaces /\ dirty \in BOOLEAN
      /\ \A k \in DOMAIN rtable :
            /\ rtable[k] \in Entry /\ Contiguous(rtable[k].mask)
            /\ ~rtable[k].is_active => rtable[k].is_static /\ rtable[k].iface \notin up
  BY DEF IInv, TypeOK, Contiguously, InactiveOnlyWhenDown
<1>1. CASE write_rtable_to_hw
  <2>1. UNCHANGED <<rtable, up, dirty, before>> /\ row' = row + 1 /\ row \in 1 .. ROWS
    BY <1>1 DEF write_rtable_to_hw
  <2>2. hw' = [hw EXCEPT ![row] = HwRow(rtable, row)] /\ HwRow(rtable, row) \in Row
    BY <1>0, <1>1, HwRowType DEF write_rtable_to_hw
  <2>3. TypeOK'
    BY <2>1, <2>2, RTableAssumption, WAssumption DEF IInv, TypeOK
  <2>4. \A i \in 1 .. ROWS : i < row' => hw'[i] = HwRow(rtable, i)
    BY <2>1, <2>2, RTableAssumption, WAssumption DEF IInv, TypeOK
  <2>5. row' # 0 /\ \A i \in 1 .. ROWS : row' <= i => hw'[i] = before'[i]
    BY <2>1, <2>2, RTableAssumption DEF IInv, TypeOK
  <2>6. RowsInOrder(before)' /\ Sorted(rtable)'
    BY <2>1, RTableAssumption DEF IInv, RowsInOrder
  <2> QED BY <2>1, <2>3, <2>4, <2>5, <2>6 DEF IInv, Contiguously, InactiveOnlyWhenDown
<1>2. ASSUME NEW r \in Routes, add_route(r) PROVE IInv'
  <2> DEFINE s == Append(rtable, MkEntry(r, TRUE))
             K == 1 .. Len(rtable) + 1
  <2>1. Idle /\ trigger_rtable_modified(s, K) /\ UNCHANGED <<up, dirty>>
    BY <1>2, Zenon DEF add_route
  <2>a. MkEntry(r, TRUE) \in Entry
    BY MkEntryProps, Zenon
  <2>b. rtable \in Seq(Entry)
    BY <1>0
  <2>2. s \in Seq(Entry) /\ K = DOMAIN s
    BY <2>a, <2>b, AppendProps, Zenon
  <2>3. \A k \in K : (k \in DOMAIN rtable /\ s[k] = rtable[k]) \/ s[k] = MkEntry(r, TRUE)
    BY <2>a, <2>b, AppendProps, Zenon
  <2>4. \A k \in K : /\ Contiguous(s[k].mask)
                     /\ ~s[k].is_active => s[k].is_static /\ s[k].iface \notin up'
    BY <1>0, <2>1, <2>3, MkEntryProps, Zenon
  <2> HIDE DEF s, K
  <2> QED BY <1>0, <2>1, <2>2, <2>4, TriggerIInv
<1>3. ASSUME NEW r \in Routes, del_route(r.ip, r.mask) PROVE IInv'
  <2> DEFINE K == {k \in DOMAIN rtable : ~(rtable[k].ip = r.ip /\ rtable[k].mask = r.mask)}
  <2>1. Idle /\ trigger_rtable_modified(rtable, K) /\ UNCHANGED <<up, dirty>>
    BY <1>3 DEF del_route
  <2>2. K \in SUBSET DOMAIN rtable
    OBVIOUS
  <2> HIDE DEF K
  <2> QED BY <1>0, <2>1, <2>2, TriggerIInv
<1>4. ASSUME NEW i \in Ifaces, iface_down(i) PROVE IInv'
  <2> DEFINE s == [k \in DOMAIN rtable |->
                     [rtable[k] EXCEPT !.is_active = @ /\ rtable[k].iface # i]]
             K == {k \in DOMAIN rtable : rtable[k].is_static \/ rtable[k].iface # i}
  <2>1. Idle /\ trigger_rtable_modified(s, K) /\ up' = up \ {i} /\ dirty' \in BOOLEAN
    BY <1>0, <1>4, Zenon DEF iface_down, deactivate_routes
  <2>2. DOMAIN s = DOMAIN rtable /\ K \in SUBSET DOMAIN s
    OBVIOUS
  <2>3. \A k \in DOMAIN s :
           /\ s[k] \in Entry /\ s[k].mask = rtable[k].mask
           /\ s[k].is_static = rtable[k].is_static /\ s[k].iface = rtable[k].iface
           /\ s[k].is_active <=> rtable[k].is_active /\ rtable[k].iface # i
    BY <1>0, Zenon DEF Entry
  <2>4. s \in Seq(Entry)
    <3>1. rtable \in Seq(Entry)
      BY <1>0
    <3>2. DOMAIN rtable = 1 .. Len(rtable) /\ Len(rtable) \in Nat
      BY <3>1
    <3>3. s = [k \in 1 .. Len(rtable) |-> s[k]]
      BY <3>2
    <3>4. \A k \in 1 .. Len(rtable) : s[k] \in Entry
      BY <2>2, <2>3, <3>2, Zenon
    <3> HIDE DEF s
    <3> QED BY <3>2, <3>3, <3>4, FunctionIsSeq
  <2>5. \A k \in K : /\ Contiguous(s[k].mask)
                     /\ ~s[k].is_active => s[k].is_static /\ s[k].iface \notin up'
    <3> SUFFICES ASSUME NEW k \in K
                 PROVE  /\ Contiguous(s[k].mask)
                        /\ ~s[k].is_active => s[k].is_static /\ s[k].iface \notin up'
      OBVIOUS
    <3>1. k \in DOMAIN s /\ k \in DOMAIN rtable /\ (rtable[k].is_static \/ rtable[k].iface # i)
      BY <2>2
    <3> HIDE DEF s, K
    <3>2. Contiguous(s[k].mask)
      BY <1>0, <2>3, <3>1
    <3>3. ~rtable[k].is_active => rtable[k].is_static /\ rtable[k].iface \notin up
      BY <1>0, <3>1, Zenon
    <3> QED BY <2>1, <2>3, <3>1, <3>2, <3>3, Zenon
  <2> HIDE DEF s, K
  <2> QED BY <1>0, <2>1, <2>2, <2>4, <2>5, TriggerIInv
<1>5. ASSUME NEW i \in Ifaces, iface_up(i) PROVE IInv'
  <2> DEFINE s == [k \in DOMAIN rtable |->
                     [rtable[k] EXCEPT !.is_active = @ \/ rtable[k].iface = i]]
  <2>1. /\ Idle /\ trigger_rtable_modified(s, DOMAIN rtable)
        /\ up' = up \cup {i} /\ up' \subseteq Ifaces /\ dirty' \in BOOLEAN
    BY <1>0, <1>5 DEF iface_up, activate_routes
  <2>2. DOMAIN s = DOMAIN rtable
    OBVIOUS
  <2>3. \A k \in DOMAIN s :
           /\ s[k] \in Entry /\ s[k].mask = rtable[k].mask
           /\ s[k].is_static = rtable[k].is_static /\ s[k].iface = rtable[k].iface
           /\ s[k].is_active <=> rtable[k].is_active \/ rtable[k].iface = i
    BY <1>0 DEF Entry
  <2>4. s \in Seq(Entry)
    <3>1. rtable \in Seq(Entry)
      BY <1>0
    <3>2. DOMAIN rtable = 1 .. Len(rtable) /\ Len(rtable) \in Nat
      BY <3>1
    <3>3. s = [k \in 1 .. Len(rtable) |-> s[k]]
      BY <3>2
    <3>4. \A k \in 1 .. Len(rtable) : s[k] \in Entry
      BY <2>2, <2>3, <3>2, Zenon
    <3> HIDE DEF s
    <3> QED BY <3>2, <3>3, <3>4, FunctionIsSeq
  <2>5. \A k \in DOMAIN rtable :
           /\ Contiguous(s[k].mask)
           /\ ~s[k].is_active => s[k].is_static /\ s[k].iface \notin up'
    <3> SUFFICES ASSUME NEW k \in DOMAIN rtable
                 PROVE  /\ Contiguous(s[k].mask)
                        /\ ~s[k].is_active => s[k].is_static /\ s[k].iface \notin up'
      OBVIOUS
    <3>1. k \in DOMAIN s
      BY <2>2
    <3> HIDE DEF s
    <3>2. Contiguous(s[k].mask)
      BY <1>0, <2>3, <3>1
    <3>3. ~rtable[k].is_active => rtable[k].is_static /\ rtable[k].iface \notin up
      BY <1>0, Zenon
    <3> QED BY <2>1, <2>3, <3>1, <3>2, <3>3, Zenon
  <2> HIDE DEF s
  <2> QED BY <2>1, <2>2, <2>4, <2>5, TriggerIInv
<1>6. CASE dijkstra_trigger
  BY <1>6, Zenon DEF dijkstra_trigger, IInv, TypeOK, Contiguously, InactiveOnlyWhenDown, RowsInOrder
<1>7. CASE dijkstra_thread
  <2> DEFINE S(t) == rtable \o t
             KK(t) == {k \in DOMAIN S(t) : k \in DOMAIN rtable => rtable[k].is_static}
             T(n, f) == [k \in 1 .. n |-> MkEntry(f[k], FALSE)]
  <2>a. PICK n \in 0 .. MAX_DYN : \E f \in [1 .. n -> Routes] :
          trigger_rtable_modified(S(T(n, f)), KK(T(n, f)))
    BY <1>7, Zenon DEF dijkstra_thread
  <2>1. PICK f \in [1 .. n -> Routes] :
          trigger_rtable_modified(S(T(n, f)), KK(T(n, f)))
    BY <2>a, Zenon
  <2> DEFINE t == [k \in 1 .. n |-> MkEntry(f[k], FALSE)]
             s == rtable \o t
             K == {k \in DOMAIN s : k \in DOMAIN rtable => rtable[k].is_static}
  <2>2. trigger_rtable_modified(s, K)
    BY <2>1
  <2>3. Idle /\ UNCHANGED up /\ dirty' \in BOOLEAN
    BY <1>7, Zenon DEF dijkstra_thread
  <2>4. \A k \in 1 .. n : /\ t[k] \in Entry /\ Contiguous(t[k].mask)
                          /\ t[k].is_active
    BY MkEntryProps, Zenon
  <2>5. t \in Seq(Entry) /\ Len(t) = n
    <3>1. n \in Nat /\ t = [k \in 1 .. n |-> t[k]]
      BY RTableAssumption, WAssumption
    <3> HIDE DEF t
    <3> QED BY <2>4, <3>1, FunctionIsSeq
  <2> HIDE DEF t
  <2>6. s \in Seq(Entry) /\ K \in SUBSET DOMAIN s
    BY <1>0, <2>5
  <2>7. \A k \in DOMAIN s :
           (k \in DOMAIN rtable /\ s[k] = rtable[k]) \/
           (\E j \in 1 .. n : s[k] = t[j])
    BY <1>0, <2>5
  <2>8. \A k \in K : /\ Contiguous(s[k].mask)
                     /\ ~s[k].is_active => s[k].is_static /\ s[k].iface \notin up'
    BY <1>0, <2>3, <2>4, <2>6, <2>7, Zenon
  <2> HIDE DEF s, K
  <2> QED BY <1>0, <2>2, <2>3, <2>6, <2>8, TriggerIInv
<1>8. CASE UNCHANGED vars
  BY <1>8 DEF vars, IInv, TypeOK, Contiguously, InactiveOnlyWhenDown, RowsInOrder
<1> QED BY <1>1, <1>2, <1>3, <1>4, <1>5, <1>6, <1>7, <1>8, Zenon DEF Next

(* Every operation on rs->rtable and every row write_rtable_to_hw writes    *)
(* keeps the invariant.                                                    *)
THEOREM IInvInvariant == Spec => []IInv
BY InitIInv, NextIInv, PTL DEF Spec

(* Every variable of the table and of the TCAM keeps its type.             *)
THEOREM TypeCorrect == Spec => []TypeOK
<1>1. IInv => TypeOK
  BY DEF IInv
<1> QED BY <1>1, IInvInvariant, PTL

(* An inactive route is static and its interface is down.                  *)
THEOREM DeadRoutesAreStatic == Spec => []InactiveOnlyWhenDown
<1>1. IInv => InactiveOnlyWhenDown
  BY DEF IInv
<1> QED BY <1>1, IInvInvariant, PTL

(* After a rewrite by write_rtable_to_hw the TCAM and get_next_hop agree   *)
(* on every destination, whatever the sizes and the history.               *)
THEOREM HardwareAgrees == Spec => []HwAgreesWithSw
<1>1. IInv => HwAgreesWithSw
  <2> SUFFICES ASSUME IInv, row = ROWS + 1, NEW d \in Addr
               PROVE  LET h == lpm_lookup(hw, d)
                          s == get_next_hop(rtable, d)
                      IN  IF ~h.found THEN NumActive(rtable) >= ROWS
                          ELSE IF h.out = NoPort THEN ~s.found
                          ELSE h = s
    BY DEF HwAgreesWithSw
  <2>1. rtable \in Seq(Entry) /\ Sorted(rtable) /\ Contiguously(rtable)
    BY RTableAssumption, WAssumption DEF IInv, TypeOK
  <2>2. \A i \in 1 .. ROWS : hw[i] = HwRow(rtable, i)
    BY RTableAssumption, WAssumption DEF IInv
  <2> QED BY <2>1, <2>2, ImageAgrees
<1> QED BY <1>1, IInvInvariant, PTL

(* A rewrite by write_rtable_to_hw that only withdraws routes leaves every *)
(* destination of the new table routed between any two of its row writes.  *)
THEOREM WithdrawalKeepsRoutes == Spec => []WithdrawalIsHitless
<1>1. IInv => WithdrawalIsHitless
  <2> DEFINE after == [i \in 1 .. ROWS |-> HwRow(rtable, i)]
  <2> SUFFICES ASSUME IInv, row \in 1 .. ROWS, IsSubImage(after, before), NEW d \in Addr
               PROVE  LET now == lpm_lookup(hw, d)
                          new == lpm_lookup(after, d)
                      IN  /\ Routed(new) => Routed(now)
                          /\ Routed(now) =>
                                \/ now = new
                                \/ \E i \in RealRows(before) :
                                      /\ Matches(before[i], d)
                                      /\ now = Hit(before[i], d)
                                      /\ \A k \in RealRows(after) :
                                            Matches(after[k], d) =>
                                               PopCount(after[k].mask) <= PopCount(before[i].mask)
    BY DEF WithdrawalIsHitless
  <2> DEFINE now == lpm_lookup(hw, d)
             new == lpm_lookup(after, d)
  <2>1. rtable \in Seq(Entry) /\ Sorted(rtable) /\ Contiguously(rtable)
    BY DEF IInv, TypeOK
  <2>2. \A i \in 1 .. ROWS : after[i] = HwRow(rtable, i)
    OBVIOUS
  <2>3. \A i \in 1 .. ROWS : IF i < row THEN hw[i] = after[i] ELSE hw[i] = before[i]
    BY DEF IInv
  <2> HIDE DEF after
  <2>4. RowsInOrder(after) /\ RowsInOrder(before)
    BY <2>1, <2>2, ImageInOrder DEF IInv
  <2>5. PICK f \in [RealRows(after) -> RealRows(before)] :
           /\ \A i \in RealRows(after) : after[i] = before[f[i]]
           /\ \A i, j \in RealRows(after) : i < j => f[i] < f[j]
    BY DEF IsSubImage
  <2>6. \A i \in RealRows(after) : i <= f[i]
    BY <2>4, <2>5, SubImageMovesUp, Zenon
  <2>7. ASSUME Routed(new)
        PROVE  \E k \in RealRows(after) : FirstMatch(after, d, k)
    <3>1. PICK k \in 1 .. ROWS : FirstMatch(after, d, k)
      BY <2>7 DEF lpm_lookup, Routed, NoRoute
    <3>2. new = Hit(after[k], d)
      BY <3>1, LookupFirst, Zenon
    <3> QED BY <2>7, <3>1, <3>2 DEF Routed, Hit, Via, RealRows
  <2>8. ASSUME NEW k \in RealRows(after), Matches(after[k], d),
               \A i \in 1 .. ROWS : i < row => ~Matches(hw[i], d)
        PROVE  /\ f[k] \in 1 .. ROWS /\ before[f[k]].port # NoPort
               /\ before[f[k]] = after[k] /\ Matches(hw[f[k]], d)
    <3>1. k \in 1 .. ROWS /\ f[k] \in RealRows(before) /\ f[k] \in 1 .. ROWS
      BY Zenon DEF RealRows
    <3>2. ~(k < row)
      BY <2>3, <2>8, <3>1
    <3>3. ~(f[k] < row)
      BY <2>6, <3>1, <3>2
    <3> QED BY <2>3, <2>5, <2>8, <3>1, <3>3, Zenon DEF RealRows
  <2>9. CASE \A i \in 1 .. ROWS : ~Matches(hw[i], d)
    <3>1. ~Routed(now)
      BY <2>9, LookupMisses DEF Routed, NoRoute
    <3>2. ~Routed(new)
      BY <2>7, <2>8, <2>9, Zenon DEF FirstMatch
    <3> QED BY <3>1, <3>2
  <2>10. CASE \E i \in 1 .. ROWS : Matches(hw[i], d)
    <3>1. PICK i \in 1 .. ROWS : FirstMatch(hw, d, i)
      BY <2>10, FirstMatchExists
    <3>2. now = Hit(hw[i], d)
      BY <3>1, LookupFirst
    <3>3. CASE i < row
      <4>1. FirstMatch(after, d, i) /\ hw[i] = after[i]
        BY <2>3, <3>1, <3>3 DEF FirstMatch
      <4>2. new = now
        BY <3>2, <4>1, LookupFirst, Zenon
      <4> QED BY <4>2
    <3>4. CASE ~(i < row)
      <4>1. hw[i] = before[i] /\ Matches(before[i], d)
        BY <2>3, <3>1, <3>4 DEF FirstMatch
      <4>2. \A j \in 1 .. ROWS : j < row => ~Matches(hw[j], d)
        BY <3>1, <3>4 DEF FirstMatch
      <4>3. ASSUME NEW k \in RealRows(after), Matches(after[k], d)
            PROVE  /\ before[i].port # NoPort
                   /\ PopCount(after[k].mask) <= PopCount(before[i].mask)
        <5>1. /\ f[k] \in 1 .. ROWS /\ before[f[k]].port # NoPort
              /\ before[f[k]] = after[k] /\ Matches(hw[f[k]], d)
          BY <2>8, <4>2, <4>3, Zenon
        <5>2. i <= f[k]
          BY <3>1, <5>1 DEF FirstMatch
        <5>3. CASE i = f[k]
          BY <5>1, <5>3, PopCountType
        <5>4. CASE i < f[k]
          BY <2>4, <5>1, <5>4, Zenon DEF RowsInOrder
        <5> QED BY <5>1, <5>2, <5>3, <5>4
      <4>4. Routed(new) => Routed(now)
        BY <2>7, <3>2, <4>1, <4>3 DEF FirstMatch, Routed, Hit, Via
      <4>5. Routed(now) => i \in RealRows(before)
        BY <3>2, <4>1 DEF Routed, Hit, Via, RealRows
      <4> QED BY <3>2, <4>1, <4>3, <4>4, <4>5, Zenon
    <3> QED BY <3>3, <3>4
  <2> QED BY <2>9, <2>10, Zenon
<1> QED BY <1>1, IInvInvariant, PTL

-----------------------------------------------------------------------------
(* The sort itself.  The order there is the one of RTable.                 *)
LEMMA SameOrder ==
    /\ \A a, b : Sort!Swap(a, b) <=> Swap(a, b)
    /\ \A s, K : Sort!SortedSeq(s, K) = SortedSeq(s, K)
<1>1. \A a, b : Sort!Swap(a, b) <=> Swap(a, b)
  BY Zenon DEF Sort!Swap, Swap, Sort!BitsLess, BitsLess, Sort!Bits, Bits
<1>2. \A s, K : Sort!SortedSeq(s, K) = SortedSeq(s, K)
  BY Zenon DEF Sort!SortedSeq, SortedSeq, Sort!Rank, Rank, Sort!Precedes, Precedes,
               Sort!Swap, Swap, Sort!BitsLess, BitsLess, Sort!Bits, Bits,
               Sort!Cardinality, Cardinality
<1> QED BY <1>1, <1>2, Zenon

(* l is o with its entries in the order p, and an entry has passed an      *)
(* earlier one only if the sort wants it to.                               *)
StablyMoved(l, o, p) ==
    /\ DOMAIN l = DOMAIN o /\ p \in [DOMAIN o -> DOMAIN o]
    /\ \A i, j \in DOMAIN o : p[i] = p[j] => i = j
    /\ \A i \in DOMAIN o : l[i] = o[p[i]]
    /\ \A i, j \in DOMAIN o : i < j /\ p[j] < p[i] => Swap(o[p[j]], o[p[i]])

Neighbours(l, n) == \A i \in 1 .. n - 1 : ~Swap(l[i], l[i + 1])

(* A list without neighbours to exchange is sorted.                        *)
LEMMA NeighboursSorted ==
    ASSUME NEW l \in Seq(Entry), Neighbours(l, Len(l))
    PROVE  Sorted(l)
<1>0. DOMAIN l = 1 .. Len(l) /\ Len(l) \in Nat /\ \A k \in 1 .. Len(l) : l[k] \in Entry
  OBVIOUS
<1> SUFFICES ASSUME NEW i \in 1 .. Len(l), NEW j \in 1 .. Len(l), i < j, Swap(l[i], l[j])
             PROVE  FALSE
  BY <1>0 DEF Sorted
<1> DEFINE B == {k \in 1 .. Len(l) : i < k /\ Swap(l[i], l[k])}
<1>1. B \subseteq Nat /\ B # {}
  BY <1>0
<1>2. PICK k \in B : \A h \in B : k <= h
  BY <1>1, LeastNat, Zenon
<1>3. /\ k \in 1 .. Len(l) /\ k - 1 \in 1 .. Len(l) - 1 /\ k - 1 \in 1 .. Len(l)
      /\ i < k /\ k - 1 + 1 = k /\ Swap(l[i], l[k])
  BY <1>0, <1>2
<1>4. ~Swap(l[k - 1], l[k])
  BY <1>3 DEF Neighbours
<1>5. ~Swap(l[i], l[k - 1])
  <2>1. CASE k - 1 = i
    BY <1>0, <2>1, SwapAsymmetric
  <2>2. CASE k - 1 # i
    <3>1. i < k - 1 /\ ~(k <= k - 1)
      BY <1>0, <1>3, <2>2
    <3>2. k - 1 \notin B
      BY <1>2, <3>1
    <3> QED BY <1>3, <3>1, <3>2
  <2> QED BY <2>1, <2>2
<1> QED BY <1>0, <1>3, <1>4, <1>5, SwapTransitive

(* A sorted list that was reached stably is the stable sort.               *)
LEMMA StableSortUnique ==
    ASSUME NEW l \in Seq(Entry), NEW o \in Seq(Entry), NEW p, StablyMoved(l, o, p), Sorted(l)
    PROVE  l = SortedSeq(o, DOMAIN o)
<1> DEFINE D == DOMAIN o
           n == Len(o)
<1>0. D = 1 .. n /\ n \in Nat /\ DOMAIN l = 1 .. n /\ Len(l) = n
  BY DEF StablyMoved
<1>1. /\ p \in [D -> D] /\ \A i, j \in D : p[i] = p[j] => i = j
      /\ \A i \in D : l[i] = o[p[i]]
  BY DEF StablyMoved
<1>2. IsFiniteSet(D) /\ Cardinality(D) = n
  <2>1. IsFiniteSet(1 .. n) /\ Cardinality(1 .. n) = IF 1 > n THEN 0 ELSE n - 1 + 1
    <3> n \in Int /\ 1 \in Int
      BY <1>0
    <3> HIDE DEF n
    <3> QED BY FS_Interval, Zenon
  <2> QED BY <1>0, <2>1
<1>3. \A t \in D : \E i \in D : p[i] = t
  <2>1. p \in Injection(D, D)
    BY <1>1 DEF Injection, IsInjective
  <2>2. p \in Surjection(D, D)
    <3> HIDE DEF D
    <3> QED BY <1>2, <2>1, FS_Injection
  <2> QED BY <2>2 DEF Surjection
<1>4. ASSUME NEW i \in D, NEW j \in D, i < j PROVE Precedes(o, p[i], p[j])
  <2>1. ~Swap(o[p[i]], o[p[j]])
    BY <1>0, <1>1, <1>4 DEF Sorted
  <2>2. p[i] # p[j] /\ p[i] \in 1 .. n /\ p[j] \in 1 .. n
    BY <1>0, <1>1, <1>4
  <2>3. p[j] < p[i] => Swap(o[p[j]], o[p[i]])
    BY <1>4 DEF StablyMoved
  <2> QED BY <1>0, <2>1, <2>2, <2>3 DEF Precedes
<1>5. ASSUME NEW i \in D PROVE Rank(o, D, p[i]) = i - 1
  <2> DEFINE I == 1 .. i - 1
             P == {j \in D : Precedes(o, j, p[i])}
             f == [k \in I |-> p[k]]
  <2>0. I \subseteq D /\ \A k \in I : k < i /\ p[i] \in D
    BY <1>0, <1>1
  <2>1. \A k \in I : p[k] \in P
    BY <1>1, <1>4, <2>0
  <2>2. \A j \in P : \E k \in I : p[k] = j
    <3> TAKE j \in P
    <3>1. PICK k \in D : p[k] = j
      BY <1>3
    <3>2. k < i
      <4>1. k # i
        BY <2>0, <3>1, PrecedesOrder, Zenon
      <4>2. ~(i < k)
        <5> SUFFICES ASSUME i < k PROVE FALSE
          OBVIOUS
        <5>1. Precedes(o, p[i], j) /\ Precedes(o, j, p[i])
          BY <1>4, <3>1
        <5> QED BY <1>1, <5>1, PrecedesOrder
      <4> QED BY <1>0, <4>1, <4>2
    <3>3. k \in I
      BY <1>0, <3>2
    <3> QED BY <3>1, <3>3
  <2>3. f \in Bijection(I, P)
    <3>1. f \in [I -> P]
      BY <2>1
    <3>2. \A a, b \in I : f[a] = f[b] => a = b
      BY <1>1, <2>0
    <3>3. \A t \in P : \E k \in I : f[k] = t
      BY <2>2
    <3> HIDE DEF f, I, P
    <3> QED BY <3>1, <3>2, <3>3 DEF Bijection, Injection, IsInjective, Surjection
  <2>4. IsFiniteSet(I) /\ Cardinality(I) = i - 1
    <3>1. i \in Nat /\ i >= 1 /\ i - 1 \in Int /\ 1 \in Int
      BY <1>0
    <3>2. IsFiniteSet(I) /\ Cardinality(I) = IF 1 > i - 1 THEN 0 ELSE (i - 1) - 1 + 1
      BY <3>1, FS_Interval, Zenon
    <3> QED BY <3>1, <3>2
  <2>5. Cardinality(P) = i - 1
    <3> HIDE DEF f, I, P
    <3> QED BY <2>3, <2>4, FS_Bijection DEF ExistsBijection
  <2> QED BY <2>5 DEF Rank
<1>6. \A j, k \in D : Rank(o, D, j) = Rank(o, D, k) => j = k
  <2> TAKE j \in D, k \in D
  <2>1. PICK a \in D : p[a] = j
    BY <1>3
  <2>2. PICK b \in D : p[b] = k
    BY <1>3
  <2>3. Rank(o, D, j) = a - 1 /\ Rank(o, D, k) = b - 1
    BY <1>5, <2>1, <2>2
  <2> QED BY <1>0, <2>1, <2>2, <2>3
<1>7. ASSUME NEW i \in 1 .. n PROVE l[i] = o[CHOOSE k \in D : Rank(o, D, k) = i - 1]
  <2>1. i \in D /\ p[i] \in D /\ Rank(o, D, p[i]) = i - 1
    BY <1>0, <1>1, <1>5
  <2>2. \A k \in D : Rank(o, D, k) = i - 1 => k = p[i]
    BY <1>6, <2>1
  <2>3. (CHOOSE k \in D : Rank(o, D, k) = i - 1) = p[i]
    <3> HIDE DEF D
    <3> QED BY <2>1, <2>2, Zenon
  <2> QED BY <1>1, <2>1, <2>3, Zenon
<1>8. SortedSeq(o, D) = [i \in 1 .. n |-> o[CHOOSE k \in D : Rank(o, D, k) = i - 1]]
  BY <1>2 DEF SortedSeq
<1>9. l = [i \in 1 .. n |-> l[i]]
  BY <1>0
<1> QED BY <1>7, <1>8, <1>9, Zenon

(* An exchange of two neighbours that the sort wants keeps the move stable. *)
LEMMA ExchangeStable ==
    ASSUME NEW l, NEW o \in Seq(Entry), NEW p, StablyMoved(l, o, p),
           NEW c \in 1 .. Len(o) - 1, Swap(l[c], l[c + 1]),
           NEW m, m = Sort!Exchange(l, c), l = [i \in DOMAIN l |-> l[i]]
    PROVE  \E r : StablyMoved(m, o, r)
<1> DEFINE D == DOMAIN o
           d == c + 1
           r == [p EXCEPT ![c] = p[d], ![d] = p[c]]
<1>1. D = 1 .. Len(o) /\ Len(o) \in Nat /\ c \in D /\ d \in D /\ c # d /\ c < d
  OBVIOUS
<1>2. /\ DOMAIN l = D /\ p \in [D -> D]
      /\ \A i, j \in D : p[i] = p[j] => i = j
      /\ \A i \in D : l[i] = o[p[i]]
      /\ \A i, j \in D : i < j /\ p[j] < p[i] => Swap(o[p[j]], o[p[i]])
  BY DEF StablyMoved
<1>3. m = [l EXCEPT ![c] = l[d], ![d] = l[c]]
  BY DEF Sort!Exchange
<1> HIDE DEF d
<1>4. /\ DOMAIN m = D /\ m[c] = l[d] /\ m[d] = l[c]
      /\ \A i \in D : i # c /\ i # d => m[i] = l[i]
  BY <1>1, <1>2, <1>3
<1>5. /\ r \in [D -> D] /\ r[c] = p[d] /\ r[d] = p[c]
      /\ \A i \in D : i # c /\ i # d => r[i] = p[i]
  BY <1>1, <1>2, Zenon
<1> DEFINE other(i) == IF i = c THEN d ELSE IF i = d THEN c ELSE i
<1> HIDE DEF r
<1>6. ASSUME NEW i \in D
      PROVE  other(i) \in D /\ m[i] = l[other(i)] /\ r[i] = p[other(i)]
  BY <1>1, <1>4, <1>5
<1>7. \A i, j \in D : other(i) = other(j) => i = j
  BY <1>1
<1>8. \A i \in D : m[i] = o[r[i]]
  <2> HIDE DEF other, D
  <2> QED BY <1>2, <1>6
<1>9. \A i, j \in D : r[i] = r[j] => i = j
  <2> HIDE DEF other, D
  <2> QED BY <1>2, <1>6, <1>7
<1>10. ASSUME NEW i \in D, NEW j \in D, i < j, r[j] < r[i] PROVE Swap(o[r[j]], o[r[i]])
  <2>1. CASE i = c /\ j = d
    <3>1. Swap(o[p[c]], o[p[d]])
      BY <1>1, <1>2 DEF d
    <3> QED BY <1>5, <2>1, <3>1
  <2>2. CASE ~(i = c /\ j = d)
    <3>1. other(i) < other(j)
      BY <1>1, <1>10, <2>2 DEF d
    <3> HIDE DEF other, D
    <3>2. /\ other(i) \in D /\ other(j) \in D
          /\ r[i] = p[other(i)] /\ r[j] = p[other(j)]
      BY <1>6, Zenon
    <3> QED BY <1>2, <1>10, <3>1, <3>2, Zenon
  <2> QED BY <2>1, <2>2
<1>11. StablyMoved(m, o, r)
  BY <1>4, <1>5, <1>8, <1>9, <1>10 DEF StablyMoved
<1> QED BY <1>11

(* The lists are lists of entries.                                         *)
SortParameters == Entries \subseteq Entry /\ MAX_LEN \in Nat

(* The inductive invariant of the sort: the list is a stable move of the   *)
(* one it found, and the walker of a pass without exchange has passed no   *)
(* neighbours to exchange.                                                 *)
SortInv ==
    /\ Sort!TypeOK
    /\ \E p : StablyMoved(list, orig, p)
    /\ ~swapped => Neighbours(list, cur)
    /\ done => Neighbours(list, Len(list))

LEMMA SortInit == ASSUME SortParameters, Sort!Init PROVE SortInv
<1>1. PICK n \in 0 .. MAX_LEN : list \in [1 .. n -> Entries]
  BY DEF Sort!Init
<1>2. n \in Nat
  BY <1>1 DEF SortParameters
<1>3. list \in Seq(Entries) /\ Len(list) = n /\ DOMAIN list = 1 .. n
  BY <1>1, <1>2
<1>4. cur = 1 /\ swapped = FALSE /\ done = FALSE /\ orig = list
  BY DEF Sort!Init
<1>5. Sort!TypeOK
  <2>1. swapped \in BOOLEAN /\ done \in BOOLEAN
    BY <1>4, Zenon
  <2>2. orig \in Seq(Entries) /\ Len(list) = Len(orig)
    BY <1>3, <1>4
  <2> QED BY <1>3, <1>4, <2>1, <2>2, Zenon DEF Sort!TypeOK
<1>6. StablyMoved(list, orig, [i \in DOMAIN list |-> i])
  BY <1>2, <1>3, <1>4 DEF StablyMoved
<1>7. Neighbours(list, cur)
  BY <1>4 DEF Neighbours
<1> QED BY <1>4, <1>5, <1>6, <1>7, Zenon DEF SortInv

LEMMA SortStep == ASSUME SortParameters, SortInv, [Sort!Next]_Sort!sortVars PROVE SortInv'
<1>1. /\ list \in Seq(Entries) /\ orig \in Seq(Entries) /\ Len(list) = Len(orig)
      /\ cur = 1 \/ cur \in DOMAIN list
      /\ swapped \in BOOLEAN /\ done \in BOOLEAN
  BY DEF SortInv, Sort!TypeOK
<1>2. /\ list \in Seq(Entry) /\ orig \in Seq(Entry) /\ Len(list) \in Nat
      /\ DOMAIN list = 1 .. Len(list) /\ DOMAIN orig = 1 .. Len(list) /\ cur \in Nat \ {0}
      /\ list = [i \in DOMAIN list |-> list[i]]
  BY <1>1 DEF SortParameters
<1>3. PICK p : StablyMoved(list, orig, p)
  BY DEF SortInv
<1>4. CASE Sort!Step
  <2> DEFINE x == Swap(list[cur], list[cur + 1])
  <2>1. /\ ~done /\ cur < Len(list) /\ cur' = cur + 1 /\ done' = done /\ orig' = orig
        /\ list' = IF x THEN Sort!Exchange(list, cur) ELSE list
        /\ swapped' <=> swapped \/ x
    BY <1>4, SameOrder, Zenon DEF Sort!Step
  <2>2. x \in BOOLEAN /\ swapped' \in BOOLEAN
    <3>1. x \in BOOLEAN
      BY Zenon DEF Swap
    <3>2. swapped' = (swapped \/ Sort!Swap(list[cur], list[cur + 1]))
      BY <1>4 DEF Sort!Step
    <3> QED BY <3>1, <3>2, Zenon
  <2> HIDE DEF x
  <2>3. cur \in 1 .. Len(orig) - 1 /\ cur \in DOMAIN list /\ cur + 1 \in DOMAIN list
    BY <1>1, <1>2, <2>1
  <2>4. CASE x
    <3>1. list' = Sort!Exchange(list, cur) /\ swapped'
      BY <2>1, <2>4
    <3>2. \E r : StablyMoved(list', orig, r)
      BY <1>2, <1>3, <2>3, <2>4, <3>1, ExchangeStable DEF x
    <3>3. list' \in Seq(Entries) /\ Len(list') = Len(list) /\ DOMAIN list' = DOMAIN list
      BY <1>1, <2>3, <3>1 DEF Sort!Exchange
    <3>4. Sort!TypeOK'
      BY <1>1, <2>1, <2>2, <2>3, <3>3, Zenon DEF Sort!TypeOK
    <3> QED BY <2>1, <3>1, <3>2, <3>4 DEF SortInv
  <2>5. CASE ~x
    <3>1. list' = list /\ (swapped' <=> swapped)
      BY <2>1, <2>5
    <3>2. ~swapped => Neighbours(list, cur + 1)
      <4> SUFFICES ASSUME ~swapped, NEW i \in 1 .. (cur + 1) - 1
                   PROVE  ~Swap(list[i], list[i + 1])
        BY DEF Neighbours
      <4>1. CASE i = cur
        BY <2>5, <4>1 DEF x
      <4>2. CASE i # cur
        BY <1>2, <4>2 DEF SortInv, Neighbours
      <4> QED BY <4>1, <4>2
    <3>3. Sort!TypeOK'
      BY <1>1, <2>1, <2>2, <2>3, <3>1, Zenon DEF Sort!TypeOK
    <3>4. Neighbours(list', cur') <=> Neighbours(list, cur + 1)
      BY <2>1, <3>1
    <3> QED BY <1>3, <2>1, <3>1, <3>2, <3>3, <3>4, Zenon DEF SortInv
  <2> QED BY <2>4, <2>5
<1>5. CASE Sort!PassEnd
  <2>1. ~done /\ cur >= Len(list) /\ list' = list /\ orig' = orig
    BY <1>5 DEF Sort!PassEnd
  <2>2. CASE swapped
    <3>1. cur' = 1 /\ swapped' = FALSE /\ done' = done
      BY <1>5, <2>2 DEF Sort!PassEnd
    <3>2. Sort!TypeOK'
      BY <1>1, <2>1, <3>1, Zenon DEF Sort!TypeOK
    <3>3. Neighbours(list', cur')
      BY <3>1 DEF Neighbours
    <3> QED BY <1>3, <2>1, <3>1, <3>2, <3>3, Zenon DEF SortInv
  <2>3. CASE ~swapped
    <3>1. cur' = cur /\ swapped' = swapped /\ done' = TRUE
      BY <1>5, <2>3 DEF Sort!PassEnd
    <3>2. Sort!TypeOK'
      BY <1>1, <2>1, <3>1, Zenon DEF Sort!TypeOK
    <3>3. Neighbours(list, cur)
      BY <2>3 DEF SortInv
    <3>4. Neighbours(list, Len(list))
      BY <1>2, <2>1, <3>3 DEF Neighbours
    <3>5. Neighbours(list', cur') /\ Neighbours(list', Len(list'))
      BY <2>1, <3>1, <3>3, <3>4
    <3> QED BY <1>3, <2>1, <3>2, <3>5 DEF SortInv
  <2> QED BY <2>2, <2>3
<1>6. CASE UNCHANGED Sort!sortVars
  <2>1. list' = list /\ cur' = cur /\ swapped' = swapped /\ done' = done /\ orig' = orig
    BY <1>6 DEF Sort!sortVars
  <2> QED BY <2>1, Zenon DEF SortInv, Sort!TypeOK, Neighbours, StablyMoved
<1> QED BY <1>4, <1>5, <1>6 DEF Sort!Next

(* For lists of any length and any entries, the bubble sort of             *)
(* trigger_rtable_modified leaves the stable sort of the list it found:    *)
(* the result that the model of the routing table takes it to have.        *)
THEOREM SortIsStable == ASSUME SortParameters PROVE Sort!Spec => []Sort!SortsStably
<1>1. Sort!Init => SortInv
  BY SortInit
<1>2. SortInv /\ [Sort!Next]_Sort!sortVars => SortInv'
  BY SortStep
<1>3. SortInv => Sort!SortsStably
  <2> SUFFICES ASSUME SortInv, done PROVE list = SortedSeq(orig, DOMAIN orig)
    BY SameOrder DEF SortInv, Sort!SortsStably
  <2>1. list \in Seq(Entry) /\ orig \in Seq(Entry)
    BY DEF SortInv, Sort!TypeOK, SortParameters
  <2>2. Sorted(list)
    BY <2>1, NeighboursSorted DEF SortInv
  <2> QED BY <2>1, <2>2, StableSortUnique DEF SortInv
<1> QED BY <1>1, <1>2, <1>3, PTL DEF Sort!Spec
=============================================================================
