----------------------------- MODULE Arp_proofs -----------------------------
(***************************************************************************)
(* Proofs about Arp, for every set of packets and addresses, every size of *)
(* the CAM and every limit on requests.                                    *)
(***************************************************************************)
EXTENDS Arp, FiniteSetTheorems, TLAPS

CacheEntry == [ip : Ips, mac : Macs, static : BOOLEAN, age : 0 .. MaxTTL + 1]
QueueEntry == [ip : Ips, requests : 1 .. MAX_REQUESTS, since : 0 .. 2, packets : Seq(Packet)]

-----------------------------------------------------------------------------
(* Lists from which entries are removed. *)
Below(K, k) == Cardinality({j \in K : j < k})

(* The entries of a finite set of indices are counted off from 0. *)
LEMMA BelowProps ==
    ASSUME NEW n \in Nat, NEW K \in SUBSET (1 .. n)
    PROVE  /\ Cardinality(K) \in Nat
           /\ \A j, k \in K : j < k => Below(K, j) < Below(K, k)
           /\ \A k \in K : Below(K, k) \in Nat /\ Below(K, k) + 1 \in 1 .. Cardinality(K)
           /\ \A i \in 1 .. Cardinality(K) : \E k \in K : Below(K, k) = i - 1
<1> DEFINE P(k) == {j \in K : j < k}
           c == Cardinality(K)
<1>0. \A k \in K : k \in Nat
  OBVIOUS
<1>1. IsFiniteSet(K) /\ c \in Nat
  <2>1. IsFiniteSet(1 .. n)
    BY FS_Interval
  <2> QED BY <2>1, FS_Subset, FS_CardinalityType, Zenon
<1>2. \A k \in K : IsFiniteSet(P(k)) /\ Cardinality(P(k)) \in Nat
  <2> SUFFICES ASSUME NEW k \in K PROVE IsFiniteSet(P(k)) /\ Cardinality(P(k)) \in Nat
    OBVIOUS
  <2>1. P(k) \subseteq K
    OBVIOUS
  <2> HIDE DEF P
  <2> QED BY <1>1, <2>1, FS_Subset, FS_CardinalityType
<1>3. ASSUME NEW j \in K, NEW k \in K, j < k
      PROVE  Cardinality(P(j)) < Cardinality(P(k))
  <2>1. \A x \in K : x < j => x < k
    BY <1>0, <1>3
  <2>2. P(j) \subseteq P(k) /\ j \in P(k) /\ j \notin P(j)
    <3>1. ~(j < j)
      BY <1>0
    <3>2. \A x : x \in P(j) <=> x \in K /\ x < j
      OBVIOUS
    <3>3. \A x : x \in P(k) <=> x \in K /\ x < k
      OBVIOUS
    <3> HIDE DEF P
    <3> QED BY <1>3, <2>1, <3>1, <3>2, <3>3, Zenon
  <2> HIDE DEF P
  <2> QED BY <1>2, <2>2, FS_Subset
<1>4. \A k \in K : Cardinality(P(k)) \in 0 .. c - 1
  <2> SUFFICES ASSUME NEW k \in K PROVE Cardinality(P(k)) \in 0 .. c - 1
    OBVIOUS
  <2>1. P(k) \subseteq K /\ k \notin P(k)
    BY <1>0
  <2>2. Cardinality(P(k)) \in Nat
    BY <1>2
  <2> HIDE DEF P
  <2>3. Cardinality(P(k)) <= c /\ (c = Cardinality(P(k)) => P(k) = K)
    BY <1>1, <2>1, FS_Subset
  <2> QED BY <1>1, <2>1, <2>2, <2>3
<1> DEFINE f == [k \in K |-> Cardinality(P(k))]
<1>5. f \in Surjection(K, 0 .. c - 1)
  <2>1. f \in [K -> 0 .. c - 1]
    BY <1>4
  <2>2. ASSUME NEW j \in K, NEW k \in K, j # k PROVE f[j] # f[k]
    <3>1. f[j] \in Nat /\ f[k] \in Nat /\ (f[j] < f[k] \/ f[k] < f[j])
      <4> HIDE DEF P
      <4> QED BY <1>0, <1>2, <1>3, <2>2
    <3> QED BY <3>1
  <2> HIDE DEF f
  <2>3. f \in Injection(K, 0 .. c - 1)
    BY <2>1, <2>2 DEF Injection, IsInjective
  <2>4. IsFiniteSet(0 .. c - 1) /\ Cardinality(0 .. c - 1) = c
    <3> HIDE DEF c
    <3>1. 0 \in Int /\ c - 1 \in Int
      BY <1>1
    <3> QED BY <1>1, <3>1, FS_Interval
  <2> QED BY <2>3, <2>4, FS_Injection
<1>6. \A i \in 1 .. c : \E k \in K : f[k] = i - 1
  <2> HIDE DEF f
  <2>1. \A t \in 0 .. c - 1 : \E k \in K : f[k] = t
    BY <1>5 DEF Surjection
  <2> QED BY <1>1, <2>1
<1>7. \A k \in K : f[k] \in Nat /\ f[k] + 1 \in 1 .. c
  BY <1>1, <1>4
<1> QED BY <1>1, <1>3, <1>6, <1>7 DEF Below

(* Keep(s, K) holds the entries of s at the indices K, each once and in    *)
(* their order: g says where each comes from.                              *)
Kept(s, K, g) ==
    /\ g \in [1 .. Cardinality(K) -> K]
    /\ \A i \in 1 .. Cardinality(K) : Keep(s, K)[i] = s[g[i]]
    /\ \A i, j \in 1 .. Cardinality(K) : i < j => g[i] < g[j]
    /\ \A k \in K : \E i \in 1 .. Cardinality(K) : g[i] = k

LEMMA KeepProps ==
    ASSUME NEW S, NEW s \in Seq(S), NEW K \in SUBSET DOMAIN s
    PROVE  /\ Keep(s, K) \in Seq(S) /\ Len(Keep(s, K)) = Cardinality(K)
           /\ Cardinality(K) \in Nat
           /\ \E g : Kept(s, K, g)
<1> DEFINE n == Cardinality(K)
           c(i) == CHOOSE k \in K : Below(K, k) = i - 1
<1>1. Len(s) \in Nat /\ DOMAIN s = 1 .. Len(s)
  OBVIOUS
<1>2. /\ n \in Nat
      /\ \A j, k \in K : j < k => Below(K, j) < Below(K, k)
      /\ \A k \in K : Below(K, k) \in Nat /\ Below(K, k) + 1 \in 1 .. n
      /\ \A i \in 1 .. n : \E k \in K : Below(K, k) = i - 1
  BY <1>1, BelowProps, Zenon
<1>3. \A i \in 1 .. n : c(i) \in K /\ Below(K, c(i)) = i - 1
  BY <1>2
<1>4. Keep(s, K) = [i \in 1 .. n |-> s[c(i)]]
  BY DEF Keep, Below
<1>5. \A k \in K : k \in Nat /\ s[k] \in S
  BY <1>1
<1> HIDE DEF c
<1>6. Keep(s, K) \in Seq(S) /\ Len(Keep(s, K)) = n
  BY <1>2, <1>3, <1>4, <1>5
<1> DEFINE g == [i \in 1 .. n |-> c(i)]
<1>7. g \in [1 .. n -> K] /\ \A i \in 1 .. n : Keep(s, K)[i] = s[g[i]]
  BY <1>3, <1>4
<1>8. ASSUME NEW j \in K, NEW k \in K, Below(K, j) = Below(K, k) PROVE j = k
  <2>1. ~(j < k) /\ ~(k < j)
    BY <1>2, <1>8
  <2> QED BY <1>5, <2>1
<1>9. \A i, j \in 1 .. n : i < j => g[i] < g[j]
  <2> SUFFICES ASSUME NEW i \in 1 .. n, NEW j \in 1 .. n, i < j PROVE c(i) < c(j)
    OBVIOUS
  <2>1. /\ c(i) \in K /\ c(j) \in K
        /\ Below(K, c(i)) = i - 1 /\ Below(K, c(j)) = j - 1 /\ i - 1 < j - 1
    BY <1>2, <1>3
  <2>2. c(i) # c(j)
    BY <2>1
  <2>3. ~(c(j) < c(i))
    <3>1. c(j) < c(i) => j - 1 < i - 1
      BY <1>2, <2>1
    <3> QED BY <1>2, <2>1, <3>1
  <2> QED BY <1>5, <2>1, <2>2, <2>3
<1>10. \A k \in K : \E i \in 1 .. n : g[i] = k
  <2> SUFFICES ASSUME NEW k \in K PROVE \E i \in 1 .. n : c(i) = k
    OBVIOUS
  <2>1. Below(K, k) \in Nat /\ Below(K, k) + 1 \in 1 .. n
    BY <1>2
  <2>2. Below(K, c(Below(K, k) + 1)) = Below(K, k) /\ c(Below(K, k) + 1) \in K
    BY <1>3, <2>1
  <2> QED BY <1>8, <2>1, <2>2
<1> HIDE DEF g
<1>11. Kept(s, K, g)
  BY <1>7, <1>9, <1>10 DEF Kept
<1> QED BY <1>2, <1>6, <1>11

(* Removing nothing leaves the list as it is. *)
LEMMA KeepAll ==
    ASSUME NEW S, NEW s \in Seq(S)
    PROVE  Keep(s, DOMAIN s) = s
<1> DEFINE n == Len(s)
<1>1. n \in Nat /\ DOMAIN s = 1 .. n /\ s = [i \in 1 .. n |-> s[i]]
  OBVIOUS
<1>2. Cardinality(1 .. n) = n
  <2> HIDE DEF n
  <2>1. Cardinality(1 .. n) = IF 1 > n THEN 0 ELSE n - 1 + 1
    <3>1. 1 \in Int /\ n \in Int
      BY <1>1
    <3> QED BY <3>1, FS_Interval, Zenon
  <2> QED BY <1>1, <2>1
<1>3. \A k \in 1 .. n : Below(1 .. n, k) = k - 1
  <2> SUFFICES ASSUME NEW k \in 1 .. n PROVE Below(1 .. n, k) = k - 1
    OBVIOUS
  <2>1. {j \in 1 .. n : j < k} = 1 .. k - 1
    BY <1>1
  <2>2. 1 \in Int /\ k - 1 \in Int /\ k - 1 \in Nat
    BY <1>1
  <2>3. Cardinality(1 .. k - 1) = k - 1
    BY <2>2, FS_Interval
  <2> QED BY <2>1, <2>3, Zenon DEF Below
<1>4. \A i \in 1 .. n : (CHOOSE k \in 1 .. n : Below(1 .. n, k) = i - 1) = i
  <2> SUFFICES ASSUME NEW i \in 1 .. n
               PROVE  (CHOOSE k \in 1 .. n : Below(1 .. n, k) = i - 1) = i
    OBVIOUS
  <2> DEFINE c == CHOOSE k \in 1 .. n : Below(1 .. n, k) = i - 1
  <2>1. c \in 1 .. n /\ Below(1 .. n, c) = i - 1
    BY <1>3
  <2> HIDE DEF c
  <2>2. c - 1 = i - 1
    BY <1>3, <2>1
  <2>3. c = i
    BY <1>1, <2>1, <2>2
  <2> QED BY <2>3 DEF c
<1>5. Keep(s, DOMAIN s) = [i \in 1 .. n |-> s[CHOOSE k \in 1 .. n : Below(1 .. n, k) = i - 1]]
  BY <1>1, <1>2 DEF Keep, Below
<1> QED BY <1>1, <1>4, <1>5, Zenon
-----------------------------------------------------------------------------
(* The copy of the cache in the CAM. *)
RowOf(e) == [ip |-> e.ip, mac |-> e.mac]
Statics(cache) == {k \in DOMAIN cache : cache[k].static}
Dynamics(cache) == {k \in DOMAIN cache : ~cache[k].static}
Ordered(cache) == Keep(cache, Statics(cache)) \o Keep(cache, Dynamics(cache))

LEMMA RowFields == \A e : RowOf(e).ip = e.ip /\ RowOf(e).mac = e.mac
BY DEF RowOf

LEMMA Concat ==
    ASSUME NEW S, NEW a \in Seq(S), NEW b \in Seq(S)
    PROVE  /\ a \o b \in Seq(S) /\ Len(a \o b) = Len(a) + Len(b)
           /\ DOMAIN (a \o b) = 1 .. Len(a) + Len(b)
           /\ \A i \in 1 .. Len(a) : (a \o b)[i] = a[i]
           /\ \A i \in 1 .. Len(a) + Len(b) : Len(a) < i =>
                 i - Len(a) \in 1 .. Len(b) /\ (a \o b)[i] = b[i - Len(a)]
OBVIOUS

LEMMA WriteRows ==
    ASSUME NEW cache
    PROVE  write_arp_cache_to_hw(cache) =
              [r \in 1 .. CAM_WIDTH |->
                 IF r <= Len(Ordered(cache)) THEN RowOf(Ordered(cache)[r]) ELSE None]
BY DEF write_arp_cache_to_hw, Ordered, Statics, Dynamics, RowOf

(* Every entry written is one of the cache, and a dynamic one comes after  *)
(* all the static ones.                                                    *)
LEMMA OrderedProps ==
    ASSUME NEW cache \in Seq(CacheEntry)
    PROVE  /\ Ordered(cache) \in Seq(CacheEntry)
           /\ \A r \in DOMAIN Ordered(cache) : \E j \in DOMAIN cache :
                 /\ Ordered(cache)[r] = cache[j]
                 /\ \A k \in DOMAIN cache : cache[k].static /\ ~cache[j].static =>
                       \E q \in 1 .. r : Ordered(cache)[q] = cache[k]
<1> DEFINE S == Statics(cache)
           D == Dynamics(cache)
           A == Keep(cache, S)
           B == Keep(cache, D)
<1>1. S \in SUBSET DOMAIN cache /\ D \in SUBSET DOMAIN cache
  BY DEF Statics, Dynamics
<1>2. \A k \in DOMAIN cache : (k \in S <=> cache[k].static) /\ (k \in D <=> ~cache[k].static)
  BY DEF Statics, Dynamics
<1> DEFINE m == Cardinality(S)
           n == Cardinality(D)
<1>3. A \in Seq(CacheEntry) /\ Len(A) = m /\ m \in Nat
  BY <1>1, KeepProps
<1>4. B \in Seq(CacheEntry) /\ Len(B) = n /\ n \in Nat
  BY <1>1, KeepProps
<1>g. PICK g : Kept(cache, S, g)
  BY <1>1, KeepProps, Zenon
<1>h. PICK h : Kept(cache, D, h)
  BY <1>1, KeepProps, Zenon
<1>5. /\ g \in [1 .. m -> S] /\ \A i \in 1 .. m : A[i] = cache[g[i]]
      /\ \A k \in S : \E i \in 1 .. m : g[i] = k
  BY <1>g DEF Kept
<1>6. h \in [1 .. n -> D] /\ \A i \in 1 .. n : B[i] = cache[h[i]]
  BY <1>h DEF Kept
<1> HIDE DEF S, D, A, B, m, n
<1>7. /\ A \o B \in Seq(CacheEntry) /\ DOMAIN (A \o B) = 1 .. m + n
      /\ \A i \in 1 .. m : (A \o B)[i] = A[i]
      /\ \A i \in 1 .. m + n : m < i => i - m \in 1 .. n /\ (A \o B)[i] = B[i - m]
  BY <1>3, <1>4, Concat, ZenonT(30)
<1>8. ASSUME NEW r \in 1 .. m + n
      PROVE  \E j \in DOMAIN cache :
                 /\ (A \o B)[r] = cache[j]
                 /\ \A k \in DOMAIN cache : cache[k].static /\ ~cache[j].static =>
                       \E q \in 1 .. r : (A \o B)[q] = cache[k]
  <2>1. CASE r <= m
    <3>1. r \in 1 .. m
      BY <1>3, <1>4, <2>1
    <3>2. g[r] \in S /\ g[r] \in DOMAIN cache /\ (A \o B)[r] = cache[g[r]]
      BY <1>1, <1>5, <1>7, <3>1, Zenon
    <3>3. cache[g[r]].static
      BY <1>2, <3>2
    <3> QED BY <3>2, <3>3
  <2>2. CASE m < r
    <3>1. r - m \in 1 .. n /\ (A \o B)[r] = B[r - m]
      BY <1>7, <2>2, Zenon
    <3>2. h[r - m] \in DOMAIN cache /\ (A \o B)[r] = cache[h[r - m]]
      BY <1>1, <1>6, <3>1
    <3>3. \A k \in DOMAIN cache : cache[k].static => \E q \in 1 .. r : (A \o B)[q] = cache[k]
      <4> SUFFICES ASSUME NEW k \in DOMAIN cache, cache[k].static
                   PROVE  \E q \in 1 .. r : (A \o B)[q] = cache[k]
        BY Zenon
      <4>1. k \in S
        BY <1>2
      <4>2. PICK i \in 1 .. m : g[i] = k
        BY <1>5, <4>1
      <4>3. i \in 1 .. r /\ (A \o B)[i] = cache[k]
        BY <1>3, <1>4, <1>5, <1>7, <2>2, <4>2
      <4> QED BY <4>3, Zenon
    <3> QED BY <3>2, <3>3, Zenon
  <2>3. r <= m \/ m < r
    BY <1>3, <1>4
  <2> QED BY <2>1, <2>2, <2>3, Zenon
<1>9. Ordered(cache) = A \o B
  BY DEF Ordered, A, B, S, D
<1> DEFINE o == A \o B
<1>10. o \in Seq(CacheEntry) /\ DOMAIN o = 1 .. m + n
  BY <1>7
<1>11. \A r \in 1 .. m + n : \E j \in DOMAIN cache :
          /\ o[r] = cache[j]
          /\ \A k \in DOMAIN cache : cache[k].static /\ ~cache[j].static =>
                \E q \in 1 .. r : o[q] = cache[k]
  BY <1>8, Zenon
<1>12. Ordered(cache) = o
  BY <1>9
<1> HIDE DEF o
<1> QED BY <1>10, <1>11, <1>12

(* The rows depend on nothing but addresses and static flags. *)
LEMMA KeepSame ==
    ASSUME NEW S, NEW T, NEW s \in Seq(S), NEW t \in Seq(T), DOMAIN s = DOMAIN t,
           NEW K \in SUBSET DOMAIN s, \A k \in DOMAIN s : RowOf(s[k]) = RowOf(t[k])
    PROVE  /\ Len(Keep(s, K)) = Len(Keep(t, K)) /\ Len(Keep(s, K)) \in Nat
           /\ \A i \in 1 .. Len(Keep(s, K)) : RowOf(Keep(s, K)[i]) = RowOf(Keep(t, K)[i])
<1> DEFINE n == Cardinality(K)
           c(i) == CHOOSE k \in K : Below(K, k) = i - 1
<1>1. Len(s) \in Nat /\ DOMAIN s = 1 .. Len(s)
  OBVIOUS
<1>2. \A i \in 1 .. n : c(i) \in K
  BY <1>1, BelowProps, Zenon
<1>3. Keep(s, K) = [i \in 1 .. n |-> s[c(i)]] /\ Keep(t, K) = [i \in 1 .. n |-> t[c(i)]]
  BY DEF Keep, Below
<1>4. Len(Keep(s, K)) = n /\ Len(Keep(t, K)) = n /\ n \in Nat
  BY KeepProps
<1> HIDE DEF c, n
<1> QED BY <1>2, <1>3, <1>4

LEMMA WriteSame ==
    ASSUME NEW s \in Seq(CacheEntry), NEW t \in Seq(CacheEntry), DOMAIN s = DOMAIN t,
           \A k \in DOMAIN s : RowOf(s[k]) = RowOf(t[k]),
           Statics(s) = Statics(t), Dynamics(s) = Dynamics(t)
    PROVE  write_arp_cache_to_hw(s) = write_arp_cache_to_hw(t)
<1> DEFINE S == Statics(s)
           D == Dynamics(s)
           A == Keep(s, S)
           B == Keep(s, D)
           AA == Keep(t, S)
           BB == Keep(t, D)
<1>1. S \in SUBSET DOMAIN s /\ D \in SUBSET DOMAIN s
  BY DEF Statics, Dynamics
<1>2. /\ Len(A) = Len(AA) /\ Len(A) \in Nat /\ Len(B) = Len(BB) /\ Len(B) \in Nat
      /\ \A i \in 1 .. Len(A) : RowOf(A[i]) = RowOf(AA[i])
      /\ \A i \in 1 .. Len(B) : RowOf(B[i]) = RowOf(BB[i])
  BY <1>1, KeepSame
<1>3. A \in Seq(CacheEntry) /\ B \in Seq(CacheEntry) /\ AA \in Seq(CacheEntry) /\ BB \in Seq(CacheEntry)
  BY <1>1, KeepProps
<1>4. Ordered(s) = A \o B /\ Ordered(t) = AA \o BB
  BY DEF Ordered
<1> HIDE DEF S, D, A, B, AA, BB
<1> DEFINE m == Len(A)
           n == Len(B)
<1>5. /\ Len(A \o B) = m + n /\ Len(AA \o BB) = m + n
      /\ \A i \in 1 .. m : (A \o B)[i] = A[i] /\ (AA \o BB)[i] = AA[i]
      /\ \A i \in 1 .. m + n : m < i => /\ i - m \in 1 .. n
                                       /\ (A \o B)[i] = B[i - m] /\ (AA \o BB)[i] = BB[i - m]
  <2>1. /\ Len(A \o B) = Len(A) + Len(B)
        /\ \A i \in 1 .. Len(A) : (A \o B)[i] = A[i]
        /\ \A i \in 1 .. Len(A) + Len(B) : Len(A) < i =>
              i - Len(A) \in 1 .. Len(B) /\ (A \o B)[i] = B[i - Len(A)]
    BY <1>3, Concat
  <2>2. /\ Len(AA \o BB) = Len(AA) + Len(BB)
        /\ \A i \in 1 .. Len(AA) : (AA \o BB)[i] = AA[i]
        /\ \A i \in 1 .. Len(AA) + Len(BB) : Len(AA) < i =>
              i - Len(AA) \in 1 .. Len(BB) /\ (AA \o BB)[i] = BB[i - Len(AA)]
    BY <1>3, Concat
  <2> QED BY <1>2, <2>1, <2>2
<1>6. \A i \in 1 .. m + n : RowOf((A \o B)[i]) = RowOf((AA \o BB)[i])
  <2> SUFFICES ASSUME NEW i \in 1 .. m + n PROVE RowOf((A \o B)[i]) = RowOf((AA \o BB)[i])
    BY Zenon
  <2>1. CASE i \in 1 .. m
    BY <1>2, <1>5, <2>1
  <2>2. CASE m < i
    BY <1>2, <1>5, <2>2
  <2> QED BY <1>2, <2>1, <2>2
<1>7. \A r \in 1 .. CAM_WIDTH : (IF r <= Len(Ordered(s)) THEN RowOf(Ordered(s)[r]) ELSE None)
                                = (IF r <= Len(Ordered(t)) THEN RowOf(Ordered(t)[r]) ELSE None)
  BY <1>2, <1>4, <1>5, <1>6
<1> QED BY <1>7, WriteRows, Zenon

(* The rows are those of the cache, or have been nuked. *)
HwRows(h, cache) ==
    /\ h = [r \in 1 .. CAM_WIDTH |-> h[r]]
    /\ \A r \in 1 .. CAM_WIDTH : h[r] \in {None, write_arp_cache_to_hw(cache)[r]}

LEMMA WrittenRows == \A cache : HwRows(write_arp_cache_to_hw(cache), cache)
<1> TAKE cache
<1> DEFINE w == write_arp_cache_to_hw(cache)
<1>1. w = [r \in 1 .. CAM_WIDTH |-> w[r]]
  BY Zenon DEF write_arp_cache_to_hw
<1> HIDE DEF w
<1>2. \A r \in 1 .. CAM_WIDTH : w[r] \in {None, w[r]}
  OBVIOUS
<1> QED BY <1>1, <1>2, Zenon DEF HwRows, w

LEMMA RowsAreCurrent ==
    ASSUME arp_cache \in Seq(CacheEntry), HwRows(hw, arp_cache)
    PROVE  HardwareIsCurrent
<1> DEFINE o == Ordered(arp_cache)
<1> SUFFICES ASSUME NEW r \in 1 .. CAM_WIDTH, hw[r] # None
             PROVE  \E j \in DOMAIN arp_cache :
                      /\ arp_cache[j].ip = hw[r].ip /\ arp_cache[j].mac = hw[r].mac
                      /\ \A k \in DOMAIN arp_cache : arp_cache[k].static /\ ~arp_cache[j].static =>
                            \E q \in 1 .. r : hw[q] = None \/ hw[q].ip = arp_cache[k].ip
  BY DEF HardwareIsCurrent
<1>1. \A q \in 1 .. CAM_WIDTH :
         hw[q] # None => q <= Len(o) /\ hw[q] = RowOf(o[q])
  BY WriteRows, Zenon DEF HwRows
<1>2. o \in Seq(CacheEntry)
  BY OrderedProps
<1>3. r \in DOMAIN o /\ DOMAIN o = 1 .. Len(o) /\ Len(o) \in Nat
  BY <1>1, <1>2
<1>4. PICK j \in DOMAIN arp_cache :
         /\ o[r] = arp_cache[j]
         /\ \A k \in DOMAIN arp_cache : arp_cache[k].static /\ ~arp_cache[j].static =>
               \E q \in 1 .. r : o[q] = arp_cache[k]
  BY <1>3, OrderedProps, SMTT(30)
<1> HIDE DEF o
<1>5. arp_cache[j].ip = hw[r].ip /\ arp_cache[j].mac = hw[r].mac
  BY <1>1, <1>4, RowFields
<1>6. ASSUME NEW k \in DOMAIN arp_cache, arp_cache[k].static, ~arp_cache[j].static
      PROVE  \E q \in 1 .. r : hw[q] = None \/ hw[q].ip = arp_cache[k].ip
  <2>1. PICK q \in 1 .. r : o[q] = arp_cache[k]
    BY <1>4, <1>6
  <2>2. q \in 1 .. CAM_WIDTH
    BY ArpAssumption
  <2> QED BY <1>1, <2>1, <2>2, RowFields
<1> QED BY <1>5, <1>6
-----------------------------------------------------------------------------
(* The queue. *)
PacketAt(q, p) == \E k \in DOMAIN q : \E i \in DOMAIN q[k].packets : q[k].packets[i] = p

(* One entry for an address; o are the packets that wait, each in one      *)
(* place, and no two of them have the same identity.                       *)
QueueOK(q, o) ==
    /\ q \in Seq(QueueEntry)
    /\ \A j, k \in DOMAIN q : q[j].ip = q[k].ip => j = k
    /\ o \subseteq Packet
    /\ \A p : p \in o <=> PacketAt(q, p)
    /\ \A k, l \in DOMAIN q : \A i \in DOMAIN q[k].packets, j \in DOMAIN q[l].packets :
          q[k].packets[i] = q[l].packets[j] => k = l /\ i = j
    /\ \A x, y \in o : x.id = y.id => x = y

LEMMA EntryFields ==
    ASSUME NEW q \in Seq(QueueEntry), NEW k \in DOMAIN q
    PROVE  /\ q[k] \in QueueEntry /\ q[k].ip \in Ips /\ q[k].packets \in Seq(Packet)
           /\ DOMAIN q[k].packets = 1 .. Len(q[k].packets) /\ Len(q[k].packets) \in Nat
<1>1. q[k] \in QueueEntry
  OBVIOUS
<1>2. q[k].packets \in Seq(Packet) /\ q[k].ip \in Ips
  BY <1>1 DEF QueueEntry
<1> QED BY <1>1, <1>2

(* Request counts and times are no part of it. *)
LEMMA QueueSame ==
    ASSUME NEW q, NEW o, QueueOK(q, o), NEW r \in Seq(QueueEntry), DOMAIN r = DOMAIN q,
           \A k \in DOMAIN q : r[k].ip = q[k].ip /\ r[k].packets = q[k].packets
    PROVE  QueueOK(r, o)
BY DEF QueueOK, PacketAt

(* r is the queue q with fewer entries, each moved from its place g[k], and *)
(* o2 the packets that are left.                                           *)
Thinned(q, o, r, g, o2) ==
    /\ r \in Seq(QueueEntry)
    /\ g \in [DOMAIN r -> DOMAIN q]
    /\ \A k \in DOMAIN r : r[k] = q[g[k]]
    /\ \A j, k \in DOMAIN r : g[j] = g[k] => j = k
    /\ o2 \subseteq o
    /\ \A p \in o : p \in o2 <=> PacketAt(r, p)

LEMMA QueueFewer ==
    ASSUME NEW q, NEW o, NEW r, NEW g, NEW o2, QueueOK(q, o), Thinned(q, o, r, g, o2)
    PROVE  QueueOK(r, o2)
<1> USE DEF Thinned
<1>1. \A k \in DOMAIN r : g[k] \in DOMAIN q
  OBVIOUS
<1>2. \A j, k \in DOMAIN r : r[j].ip = r[k].ip => j = k
  BY <1>1 DEF QueueOK
<1>3. o2 \subseteq Packet /\ \A x, y \in o2 : x.id = y.id => x = y
  BY DEF QueueOK
<1>4. \A p : PacketAt(r, p) => p \in o
  BY <1>1 DEF QueueOK, PacketAt
<1>5. \A k, l \in DOMAIN r : \A i \in DOMAIN r[k].packets, j \in DOMAIN r[l].packets :
          r[k].packets[i] = r[l].packets[j] => k = l /\ i = j
  <2> SUFFICES ASSUME NEW k \in DOMAIN r, NEW l \in DOMAIN r, NEW i \in DOMAIN r[k].packets,
                      NEW j \in DOMAIN r[l].packets, r[k].packets[i] = r[l].packets[j]
               PROVE  k = l /\ i = j
    OBVIOUS
  <2>1. /\ r[k] = q[g[k]] /\ r[l] = q[g[l]] /\ g[k] \in DOMAIN q /\ g[l] \in DOMAIN q
        /\ i \in DOMAIN q[g[k]].packets /\ j \in DOMAIN q[g[l]].packets
    OBVIOUS
  <2>2. g[k] = g[l] /\ i = j
    BY <2>1 DEF QueueOK
  <2> QED BY <2>2
<1> QED BY <1>2, <1>3, <1>4, <1>5 DEF QueueOK

(* All entries of an address leave with their packets. *)
Released(q, o, A, r, o2) ==
    /\ QueueOK(q, o) /\ A \subseteq DOMAIN q /\ r = Keep(q, DOMAIN q \ A)
    /\ o2 = o \ UNION {Range(q[k].packets) : k \in A}

AfterRelease(q, A, r, o2) ==
    /\ QueueOK(r, o2)
    /\ \A k \in DOMAIN r : \E j \in DOMAIN q : j \notin A /\ r[k] = q[j]

LEMMA QueueRelease ==
    ASSUME NEW q, NEW o, NEW A, NEW r, NEW o2, Released(q, o, A, r, o2)
    PROVE  AfterRelease(q, A, r, o2)
<1> DEFINE K == DOMAIN q \ A
           gone == UNION {Range(q[k].packets) : k \in A}
           n == Cardinality(K)
<1>0. QueueOK(q, o) /\ A \subseteq DOMAIN q /\ r = Keep(q, K) /\ o2 = o \ gone
  BY DEF Released
<1>1. q \in Seq(QueueEntry) /\ K \in SUBSET DOMAIN q
  BY <1>0 DEF QueueOK
<1> HIDE DEF K
<1>2. r \in Seq(QueueEntry) /\ Len(r) = n /\ n \in Nat
  BY <1>0, <1>1, KeepProps
<1>g. PICK g : Kept(q, K, g)
  BY <1>1, KeepProps, Zenon
<1>3. /\ g \in [1 .. n -> K]
      /\ \A i \in 1 .. n : r[i] = q[g[i]]
      /\ \A i, j \in 1 .. n : i < j => g[i] < g[j]
      /\ \A k \in K : \E i \in 1 .. n : g[i] = k
  BY <1>0, <1>g DEF Kept
<1>4. DOMAIN r = 1 .. n
  BY <1>2
<1> HIDE DEF n
<1>5. /\ g \in [DOMAIN r -> DOMAIN q]
      /\ \A k \in DOMAIN r : r[k] = q[g[k]] /\ g[k] \in K
      /\ \A k \in K : \E i \in DOMAIN r : g[i] = k
  BY <1>1, <1>3, <1>4
<1>6. \A j, k \in DOMAIN r : g[j] = g[k] => j = k
  <2> SUFFICES ASSUME NEW j \in 1 .. n, NEW k \in 1 .. n, g[j] = g[k] PROVE j = k
    BY <1>4
  <2>1. g[j] \in Nat /\ ~(g[j] < g[k]) /\ ~(g[k] < g[j])
    <3>1. g[j] \in DOMAIN q
      BY <1>1, <1>3
    <3>2. g[j] \in Nat
      BY <1>1, <3>1
    <3> QED BY <3>2
  <2>2. ~(j < k) /\ ~(k < j)
    BY <1>3, <2>1
  <2> QED BY <1>2, <2>2
<1>7. \A p : p \in gone <=> \E k \in A : \E i \in DOMAIN q[k].packets : q[k].packets[i] = p
  BY DEF Range
<1> HIDE DEF gone
<1>8. ASSUME NEW p \in o PROVE p \in o \ gone <=> PacketAt(r, p)
  <2>0. PICK j \in DOMAIN q : \E i \in DOMAIN q[j].packets : q[j].packets[i] = p
    BY <1>0 DEF QueueOK, PacketAt
  <2>1. PICK i \in DOMAIN q[j].packets : q[j].packets[i] = p
    BY <2>0
  <2>2. \A k \in DOMAIN q : \A l \in DOMAIN q[k].packets : q[k].packets[l] = p => k = j
    BY <1>0, <2>1 DEF QueueOK
  <2>3. p \in gone <=> j \in A
    BY <1>0, <1>7, <2>1, <2>2
  <2>4. j \in K => PacketAt(r, p)
    BY <1>5, <2>1 DEF PacketAt
  <2>5. PacketAt(r, p) => j \in K
    <3> SUFFICES ASSUME NEW k \in DOMAIN r, NEW l \in DOMAIN r[k].packets, r[k].packets[l] = p
                 PROVE  j \in K
      BY DEF PacketAt
    <3>1. r[k] = q[g[k]] /\ g[k] \in K /\ g[k] \in DOMAIN q
      BY <1>1, <1>5
    <3> QED BY <2>2, <3>1
  <2> QED BY <2>3, <2>4, <2>5 DEF K
<1>9. QueueOK(r, o2)
  <2>1. o2 \subseteq o /\ \A p \in o : p \in o2 <=> PacketAt(r, p)
    BY <1>0, <1>8
  <2>2. Thinned(q, o, r, g, o2)
    BY <1>2, <1>5, <1>6, <2>1 DEF Thinned
  <2> QED BY <1>0, <2>2, QueueFewer
<1>10. \A k \in DOMAIN r : \E j \in DOMAIN q : j \notin A /\ r[k] = q[j]
  BY <1>5 DEF K
<1> QED BY <1>9, <1>10, Zenon DEF AfterRelease

(* Entry n gives up its first packet. *)
GivenUp(q, o, n, r, o2) ==
    /\ QueueOK(q, o) /\ n \in DOMAIN q /\ q[n].packets # <<>>
    /\ r = [q EXCEPT ![n].packets = Tail(@)]
    /\ o2 = o \ {Head(q[n].packets)}

AfterGivingUp(q, o, n, r, o2) ==
    /\ Head(q[n].packets) \in o
    /\ QueueOK(r, o2)
    /\ DOMAIN r = DOMAIN q /\ Len(r) = Len(q)
    /\ \A k \in DOMAIN q : /\ r[k].ip = q[k].ip /\ r[k].since = q[k].since
                           /\ r[k].requests = q[k].requests
    /\ \A k \in DOMAIN q \ {n} : r[k] = q[k]

LEMMA QueueTail ==
    ASSUME NEW q, NEW o, NEW n, NEW r, NEW o2, GivenUp(q, o, n, r, o2)
    PROVE  AfterGivingUp(q, o, n, r, o2)
<1> DEFINE s == q[n].packets
           t == Tail(s)
           h == Head(s)
           e == [q[n] EXCEPT !.packets = t]
<1>0. /\ QueueOK(q, o) /\ n \in DOMAIN q /\ q[n].packets # <<>>
      /\ r = [q EXCEPT ![n].packets = Tail(@)] /\ o2 = o \ {h}
  BY DEF GivenUp
<1>1. /\ q \in Seq(QueueEntry) /\ DOMAIN q = 1 .. Len(q) /\ Len(q) \in Nat
      /\ q[n] \in QueueEntry /\ s \in Seq(Packet)
  BY <1>0, EntryFields DEF QueueOK
<1>2. /\ t \in Seq(Packet) /\ h = s[1] /\ 1 \in DOMAIN s
      /\ Len(t) = Len(s) - 1 /\ Len(s) \in Nat /\ DOMAIN t = 1 .. Len(s) - 1 /\ DOMAIN s = 1 .. Len(s)
      /\ \A i \in DOMAIN t : t[i] = s[i + 1] /\ i + 1 \in DOMAIN s
  BY <1>0, <1>1
<1> HIDE DEF t, h
<1>3. /\ e \in QueueEntry /\ e.ip = q[n].ip /\ e.packets = t
      /\ e.since = q[n].since /\ e.requests = q[n].requests
  <2> DEFINE f == q[n]
  <2>1. f \in QueueEntry /\ t \in Seq(Packet)
    BY <1>1, <1>2
  <2> HIDE DEF f
  <2>2. /\ [f EXCEPT !.packets = t] \in QueueEntry
        /\ [f EXCEPT !.packets = t].ip = f.ip /\ [f EXCEPT !.packets = t].packets = t
        /\ [f EXCEPT !.packets = t].since = f.since
        /\ [f EXCEPT !.packets = t].requests = f.requests
    BY <2>1 DEF QueueEntry
  <2> QED BY <2>2 DEF f
<1>4. r = [q EXCEPT ![n] = e]
  BY <1>0, <1>1 DEF t
<1> HIDE DEF e
<1>5. /\ r \in Seq(QueueEntry) /\ DOMAIN r = DOMAIN q /\ Len(r) = Len(q)
      /\ r[n] = e /\ \A k \in DOMAIN q \ {n} : r[k] = q[k]
  <2>1. n \in DOMAIN q
    BY <1>0
  <2> QED BY <1>1, <1>3, <1>4, <2>1
<1>6. \A k \in DOMAIN q : /\ r[k].ip = q[k].ip /\ r[k].since = q[k].since
                          /\ r[k].requests = q[k].requests
  BY <1>0, <1>3, <1>5
<1>7. h \in o
  BY <1>0, <1>2 DEF QueueOK, PacketAt
<1>8. \A i \in DOMAIN s : i # 1 => i - 1 \in DOMAIN t /\ t[i - 1] = s[i]
  <2> SUFFICES ASSUME NEW i \in DOMAIN s, i # 1 PROVE i - 1 \in DOMAIN t /\ t[i - 1] = s[i]
    OBVIOUS
  <2>1. i - 1 \in DOMAIN t /\ (i - 1) + 1 = i
    BY <1>2
  <2> QED BY <1>2, <2>1
<1>9. \A p : p \in o \ {h} <=> PacketAt(r, p)
  <2> TAKE p
  <2>1. ASSUME p \in o, p # h PROVE PacketAt(r, p)
    <3>1. PICK k \in DOMAIN q : \E i \in DOMAIN q[k].packets : q[k].packets[i] = p
      BY <1>0, <2>1 DEF QueueOK, PacketAt
    <3>2. PICK i \in DOMAIN q[k].packets : q[k].packets[i] = p
      BY <3>1
    <3>3. CASE k # n
      BY <1>0, <1>5, <3>2, <3>3 DEF PacketAt
    <3>4. CASE k = n
      <4>1. i \in DOMAIN s /\ i # 1
        BY <1>2, <2>1, <3>2, <3>4
      <4>2. i - 1 \in DOMAIN r[n].packets /\ r[n].packets[i - 1] = p
        BY <1>0, <1>3, <1>5, <1>8, <3>2, <3>4, <4>1, Zenon
      <4> QED BY <1>0, <1>5, <4>2, Zenon DEF PacketAt
    <3> QED BY <3>3, <3>4
  <2>2. ASSUME NEW k \in DOMAIN r, NEW i \in DOMAIN r[k].packets, r[k].packets[i] = p
        PROVE  p \in o /\ p # h
    <3>1. CASE k # n
      <4>1. k \in DOMAIN q /\ i \in DOMAIN q[k].packets /\ q[k].packets[i] = p
        BY <1>0, <1>5, <2>2, <3>1
      <4>2. p \in o
        BY <1>0, <4>1 DEF QueueOK, PacketAt
      <4>3. p # s[1]
        BY <1>0, <1>2, <3>1, <4>1 DEF QueueOK
      <4> QED BY <1>2, <4>2, <4>3
    <3>2. CASE k = n
      <4>1. i \in DOMAIN t /\ t[i] = p
        BY <1>0, <1>3, <1>5, <2>2, <3>2, Zenon
      <4>2. i + 1 \in DOMAIN s /\ s[i + 1] = p /\ i + 1 # 1
        BY <1>2, <4>1
      <4>3. p \in o
        BY <1>0, <4>2 DEF QueueOK, PacketAt
      <4>4. p # s[1]
        BY <1>0, <1>2, <4>2 DEF QueueOK
      <4> QED BY <1>2, <4>3, <4>4
    <3> QED BY <3>1, <3>2
  <2> QED BY <2>1, <2>2 DEF PacketAt
<1>10. \A k, l \in DOMAIN r : \A i \in DOMAIN r[k].packets, j \in DOMAIN r[l].packets :
          r[k].packets[i] = r[l].packets[j] => k = l /\ i = j
  <2> DEFINE up(k, i) == IF k = n THEN i + 1 ELSE i
  <2>1. \A k \in DOMAIN r : \A i \in DOMAIN r[k].packets :
           /\ up(k, i) \in DOMAIN q[k].packets /\ r[k].packets[i] = q[k].packets[up(k, i)]
    <3> SUFFICES ASSUME NEW k \in DOMAIN r, NEW i \in DOMAIN r[k].packets
                 PROVE  /\ up(k, i) \in DOMAIN q[k].packets
                        /\ r[k].packets[i] = q[k].packets[up(k, i)]
      OBVIOUS
    <3>1. CASE k # n
      BY <1>0, <1>5, <3>1
    <3>2. CASE k = n
      <4>1. r[k].packets = t
        BY <1>0, <1>3, <1>5, <3>2, Zenon
      <4>2. i \in DOMAIN t
        BY <4>1
      <4> QED BY <1>2, <3>2, <4>1, <4>2
    <3> QED BY <3>1, <3>2
  <2>2. \A i, j \in DOMAIN r[n].packets : i + 1 = j + 1 => i = j
    <3>1. r[n].packets = t
      BY <1>0, <1>3, <1>5, Zenon
    <3> QED BY <1>2, <3>1
  <2> SUFFICES ASSUME NEW k \in DOMAIN r, NEW l \in DOMAIN r, NEW i \in DOMAIN r[k].packets,
                      NEW j \in DOMAIN r[l].packets, r[k].packets[i] = r[l].packets[j]
               PROVE  k = l /\ i = j
    OBVIOUS
  <2>3. k = l /\ up(k, i) = up(l, j)
    BY <1>0, <1>5, <2>1 DEF QueueOK
  <2> QED BY <2>2, <2>3
<1>11. QueueOK(r, o \ {h})
  <2>1. \A j, k \in DOMAIN r : r[j].ip = r[k].ip => j = k
    BY <1>0, <1>5, <1>6 DEF QueueOK
  <2>2. o \ {h} \subseteq Packet /\ \A x, y \in o \ {h} : x.id = y.id => x = y
    BY <1>0 DEF QueueOK
  <2> QED BY <1>0, <1>5, <1>9, <1>10, <2>1, <2>2, Zenon DEF QueueOK
<1> QED BY <1>0, <1>5, <1>6, <1>7, <1>11 DEF h, AfterGivingUp

(* A packet joins the queue. *)
Added(q, o, p, ip, r, o2) ==
    /\ QueueOK(q, o) /\ p \in Packet /\ ip \in Ips
    /\ \A x \in o : x.id # p.id
    /\ r = arp_queue_add(q, p, ip) /\ o2 = o \cup {p}

AfterAdd(q, ip, r, o2) ==
    /\ QueueOK(r, o2)
    /\ Len(q) \in Nat /\ Len(r) \in Nat /\ Len(q) <= Len(r)
    /\ \A k \in DOMAIN r : r[k].packets = <<>> => k \in DOMAIN q /\ r[k] = q[k]
    /\ \A k \in DOMAIN r : r[k].ip = ip \/ (k \in DOMAIN q /\ r[k].ip = q[k].ip)

LEMMA QueueAdd ==
    ASSUME NEW q, NEW o, NEW p, NEW ip, NEW r, NEW o2, Added(q, o, p, ip, r, o2)
    PROVE  AfterAdd(q, ip, r, o2)
<1>0. /\ QueueOK(q, o) /\ p \in Packet /\ ip \in Ips
      /\ \A x \in o : x.id # p.id
      /\ r = arp_queue_add(q, p, ip) /\ o2 = o \cup {p}
  BY DEF Added
<1>1. q \in Seq(QueueEntry) /\ DOMAIN q = 1 .. Len(q) /\ Len(q) \in Nat
  BY <1>0, <1>0 DEF QueueOK
<1>2. p \notin o
  BY <1>0
<1>3. o \cup {p} \subseteq Packet /\ \A x, y \in o \cup {p} : x.id = y.id => x = y
  BY <1>0, <1>0, Zenon DEF QueueOK
<1>4. PICK n \in 1 .. Len(r), m \in Nat :
         /\ r \in Seq(QueueEntry) /\ Len(r) \in Nat /\ DOMAIN r = 1 .. Len(r) /\ Len(q) <= Len(r)
         /\ \A k \in 1 .. Len(r) : k # n => k \in DOMAIN q /\ r[k] = q[k]
         /\ \A k \in DOMAIN q : \A i \in DOMAIN q[k].packets :
               i \in DOMAIN r[k].packets /\ r[k].packets[i] = q[k].packets[i]
         /\ r[n].ip = ip /\ (n \in DOMAIN q => q[n].ip = ip) /\ \A k \in DOMAIN q \ {n} : q[k].ip # ip
         /\ m \in DOMAIN r[n].packets /\ r[n].packets[m] = p
         /\ \A i \in DOMAIN r[n].packets : i # m =>
               n \in DOMAIN q /\ i \in DOMAIN q[n].packets /\ r[n].packets[i] = q[n].packets[i]
  <2>1. CASE \E k \in DOMAIN q : q[k].ip = ip
    <3>1. PICK n \in DOMAIN q : q[n].ip = ip
      BY <2>1
    <3>2. \A k \in DOMAIN q : q[k].ip = ip => k = n
      BY <1>0, <3>1 DEF QueueOK
    <3> DEFINE s == q[n].packets
               t == Append(s, p)
               e == [q[n] EXCEPT !.packets = t]
    <3>3. q[n] \in QueueEntry /\ s \in Seq(Packet)
      BY <1>1, EntryFields
    <3>4. /\ t \in Seq(Packet) /\ Len(s) \in Nat /\ Len(t) = Len(s) + 1
          /\ DOMAIN t = 1 .. Len(s) + 1 /\ DOMAIN s = 1 .. Len(s)
          /\ t[Len(s) + 1] = p /\ \A i \in DOMAIN s : t[i] = s[i]
      BY <1>0, <3>3
    <3> HIDE DEF t
    <3>5. e \in QueueEntry /\ e.ip = ip /\ e.packets = t
      BY <1>0, <3>1, <3>3, <3>4, Zenon DEF QueueEntry
    <3>6. r = [k \in DOMAIN q |-> IF q[k].ip = ip THEN [q[k] EXCEPT !.packets = Append(@, p)] ELSE q[k]]
      BY <1>0, <2>1 DEF arp_queue_add
    <3>7. DOMAIN r = DOMAIN q /\ r[n] = e /\ \A k \in DOMAIN q : k # n => r[k] = q[k]
      BY <3>1, <3>2, <3>6 DEF t
    <3> HIDE DEF e
    <3>8. r \in Seq(QueueEntry) /\ Len(r) = Len(q)
      <4>1. \A k \in DOMAIN q : r[k] \in QueueEntry
        BY <1>1, <3>5, <3>7
      <4>2. r \in [1 .. Len(q) -> QueueEntry]
        BY <1>1, <3>6, <4>1, Zenon
      <4> QED BY <1>1, <4>2
    <3>9. Len(s) + 1 \in Nat
      BY <3>4
    <3>10. /\ Len(s) + 1 \in DOMAIN r[n].packets /\ r[n].packets[Len(s) + 1] = p
           /\ \A i \in DOMAIN r[n].packets : i # Len(s) + 1 =>
               n \in DOMAIN q /\ i \in DOMAIN q[n].packets /\ r[n].packets[i] = q[n].packets[i]
           /\ \A k \in DOMAIN q : \A i \in DOMAIN q[k].packets :
               i \in DOMAIN r[k].packets /\ r[k].packets[i] = q[k].packets[i]
           /\ r[n].ip = ip
      BY <3>4, <3>5, <3>7, SMTT(30)
    <3> HIDE DEF s
    <3>11. n \in 1 .. Len(r) /\ DOMAIN r = 1 .. Len(r) /\ Len(r) \in Nat /\ Len(q) <= Len(r)
      BY <1>1, <3>7, <3>8
    <3> QED BY <1>1, <3>1, <3>2, <3>7, <3>8, <3>9, <3>10, <3>11
  <2>2. CASE ~ \E k \in DOMAIN q : q[k].ip = ip
    <3> DEFINE e == [ip |-> ip, requests |-> 1, since |-> 0, packets |-> <<p>>]
               n == Len(q) + 1
    <3>1. e \in QueueEntry /\ e.ip = ip /\ e.packets = <<p>>
      BY <1>0, ArpAssumption DEF QueueEntry
    <3>2. r = Append(q, e)
      BY <1>0, <2>2 DEF arp_queue_add
    <3> HIDE DEF e
    <3>3. /\ r \in Seq(QueueEntry) /\ Len(r) = n /\ DOMAIN r = 1 .. n /\ n \in 1 .. n /\ n \in Nat
          /\ r[n] = e /\ \A k \in DOMAIN q : r[k] = q[k] /\ k \in 1 .. n
          /\ \A k \in 1 .. n : k # n => k \in DOMAIN q
          /\ n \notin DOMAIN q /\ Len(q) <= n
      BY <1>1, <3>1, <3>2
    <3> HIDE DEF n
    <3>4. DOMAIN r[n].packets = {1} /\ r[n].packets[1] = p
      BY <3>1, <3>3
    <3> QED BY <2>2, <3>1, <3>3, <3>4
  <2> QED BY <2>1, <2>2, Zenon
<1>5. \A j, k \in DOMAIN r : r[j].ip = r[k].ip => j = k
  BY <1>0, <1>4 DEF QueueOK
<1>6. \A x : x \in o \cup {p} <=> PacketAt(r, x)
  <2> TAKE x
  <2>1. p \in o \cup {p} /\ PacketAt(r, p)
    BY <1>4 DEF PacketAt
  <2>2. ASSUME x \in o PROVE PacketAt(r, x)
    <3>1. PICK k \in DOMAIN q : \E i \in DOMAIN q[k].packets : q[k].packets[i] = x
      BY <1>0, <2>2 DEF QueueOK, PacketAt
    <3>2. PICK i \in DOMAIN q[k].packets : q[k].packets[i] = x
      BY <3>1
    <3>3. k \in DOMAIN r /\ i \in DOMAIN r[k].packets /\ r[k].packets[i] = x
      BY <1>1, <1>4, <3>2
    <3> QED BY <3>3 DEF PacketAt
  <2>3. ASSUME NEW k \in DOMAIN r, NEW i \in DOMAIN r[k].packets, r[k].packets[i] = x, x # p
        PROVE  x \in o
    <3>1. k \in DOMAIN q /\ i \in DOMAIN q[k].packets /\ q[k].packets[i] = x
      BY <1>4, <2>3
    <3> QED BY <1>0, <3>1 DEF QueueOK, PacketAt
  <2> QED BY <2>1, <2>2, <2>3 DEF PacketAt
<1>7. \A k \in DOMAIN r : \A i \in DOMAIN r[k].packets : r[k].packets[i] # p =>
         k \in DOMAIN q /\ i \in DOMAIN q[k].packets /\ r[k].packets[i] = q[k].packets[i]
  BY <1>4
<1>8. \A k \in DOMAIN r : \A i \in DOMAIN r[k].packets : r[k].packets[i] = p => k = n /\ i = m
  <2> SUFFICES ASSUME NEW k \in DOMAIN r, NEW i \in DOMAIN r[k].packets, r[k].packets[i] = p,
                      ~(k = n /\ i = m)
               PROVE  FALSE
    OBVIOUS
  <2>1. k \in DOMAIN q /\ i \in DOMAIN q[k].packets /\ q[k].packets[i] = p
    BY <1>4
  <2> QED BY <1>0, <1>2, <2>1 DEF QueueOK, PacketAt
<1>9. \A k, l \in DOMAIN r : \A i \in DOMAIN r[k].packets, j \in DOMAIN r[l].packets :
          r[k].packets[i] = r[l].packets[j] => k = l /\ i = j
  <2> SUFFICES ASSUME NEW k \in DOMAIN r, NEW l \in DOMAIN r, NEW i \in DOMAIN r[k].packets,
                      NEW j \in DOMAIN r[l].packets, r[k].packets[i] = r[l].packets[j]
               PROVE  k = l /\ i = j
    OBVIOUS
  <2>1. CASE r[k].packets[i] = p
    BY <1>8, <2>1, Zenon
  <2>2. CASE r[k].packets[i] # p
    BY <1>0, <1>7, <2>2, SMTT(30) DEF QueueOK
  <2> QED BY <2>1, <2>2
<1>10. QueueOK(r, o \cup {p})
  BY <1>0, <1>3, <1>4, <1>5, <1>6, <1>9, Zenon DEF QueueOK
<1>11. \A k \in DOMAIN r : r[k].packets = <<>> => k \in DOMAIN q /\ r[k] = q[k]
  <2>1. r[n].packets # <<>>
    BY <1>4
  <2> QED BY <1>4, <2>1
<1>12. \A k \in DOMAIN r : r[k].ip = ip \/ (k \in DOMAIN q /\ r[k].ip = q[k].ip)
  BY <1>4
<1> QED BY <1>0, <1>1, <1>4, <1>10, <1>11, <1>12 DEF AfterAdd
-----------------------------------------------------------------------------
(* The cache. *)
CacheOK(c) ==
    /\ c \in Seq(CacheEntry)
    /\ \A j, k \in DOMAIN c : c[j].ip = c[k].ip => j = k

LEMMA CacheKeep ==
    ASSUME NEW c, CacheOK(c), NEW K \in SUBSET DOMAIN c
    PROVE  /\ CacheOK(Keep(c, K))
           /\ \A k \in DOMAIN Keep(c, K) : \E j \in DOMAIN c : Keep(c, K)[k] = c[j]
<1> DEFINE n == Cardinality(K)
           r == Keep(c, K)
<1>0. c \in Seq(CacheEntry) /\ K \in SUBSET DOMAIN c
  BY DEF CacheOK
<1>1. DOMAIN c = 1 .. Len(c)
  BY <1>0
<1>2. r \in Seq(CacheEntry) /\ Len(r) = n /\ n \in Nat
  BY <1>0, KeepProps
<1>g. PICK g : Kept(c, K, g)
  BY <1>0, KeepProps, Zenon
<1>3. /\ g \in [1 .. n -> K]
      /\ \A i \in 1 .. n : r[i] = c[g[i]]
      /\ \A i, j \in 1 .. n : i < j => g[i] < g[j]
      /\ \A k \in K : \E i \in 1 .. n : g[i] = k
  BY <1>g DEF Kept
<1>4. DOMAIN r = 1 .. n
  BY <1>2
<1> HIDE DEF n, r
<1>5. \A k \in DOMAIN r : g[k] \in DOMAIN c /\ g[k] \in Nat /\ r[k] = c[g[k]]
  BY <1>1, <1>3, <1>4
<1>6. \A j, k \in DOMAIN r : r[j].ip = r[k].ip => j = k
  <2> SUFFICES ASSUME NEW j \in 1 .. n, NEW k \in 1 .. n, r[j].ip = r[k].ip PROVE j = k
    BY <1>4
  <2>1. g[j] = g[k]
    BY <1>4, <1>5 DEF CacheOK
  <2>2. ~(g[j] < g[k]) /\ ~(g[k] < g[j])
    BY <1>4, <1>5, <2>1
  <2>3. ~(j < k) /\ ~(k < j)
    BY <1>3, <2>2
  <2> QED BY <1>2, <2>3
<1>7. CacheOK(r)
  BY <1>2, <1>6 DEF CacheOK
<1> QED BY <1>5, <1>7 DEF r

LEMMA MaxTTLNat == MaxTTL \in Nat
BY ArpAssumption, Zenon DEF MaxTTL

(* An address is written: its entry is replaced, or added at the end. *)
Written(c, e) ==
    IF \E k \in DOMAIN c : c[k].ip = e.ip
    THEN [k \in DOMAIN c |-> IF c[k].ip = e.ip THEN e ELSE c[k]]
    ELSE Append(c, e)

LEMMA CacheUpdate ==
    ASSUME NEW c, CacheOK(c), NEW e \in CacheEntry, NEW r, r = Written(c, e)
    PROVE  /\ CacheOK(r)
           /\ \A k \in DOMAIN r : r[k] = e \/ (\E j \in DOMAIN c : r[k] = c[j])
<1>1. c \in Seq(CacheEntry) /\ DOMAIN c = 1 .. Len(c) /\ Len(c) \in Nat
  BY DEF CacheOK
<1>2. CASE \E k \in DOMAIN c : c[k].ip = e.ip
  <2>1. r = [k \in DOMAIN c |-> IF c[k].ip = e.ip THEN e ELSE c[k]]
    BY <1>2 DEF Written
  <2>2. \A k \in DOMAIN c : r[k] \in CacheEntry /\ r[k].ip = c[k].ip
    BY <1>1, <2>1
  <2>3. r \in [1 .. Len(c) -> CacheEntry]
    BY <1>1, <2>1, <2>2
  <2>4. r \in Seq(CacheEntry)
    BY <1>1, <2>3
  <2> QED BY <2>1, <2>2, <2>4 DEF CacheOK
<1>3. CASE ~ \E k \in DOMAIN c : c[k].ip = e.ip
  <2>1. r = Append(c, e)
    BY <1>3 DEF Written
  <2>2. /\ r \in Seq(CacheEntry) /\ DOMAIN r = 1 .. Len(c) + 1
        /\ \A k \in 1 .. Len(c) + 1 : k \in DOMAIN c \/ k = Len(c) + 1
        /\ r[Len(c) + 1] = e /\ \A k \in DOMAIN c : r[k] = c[k]
    BY <1>1, <2>1
  <2> QED BY <1>1, <1>3, <2>2 DEF CacheOK
<1> QED BY <1>2, <1>3

-----------------------------------------------------------------------------
(* Only the entry at which the walk gives packets up is without one. *)
Settled(q, t, n) ==
    \A k \in DOMAIN q : q[k].packets = <<>> =>
       t = "walk" /\ k = n /\ q[k].since > 1 /\ q[k].requests >= MAX_REQUESTS

Learnt(c, q, w) ==
    \A k \in DOMAIN c, j \in DOMAIN q : c[k].ip = q[j].ip => c[k].static \/ w = c[k].ip

(* The inductive invariant.  Beyond what NoPacketLost and                  *)
(* HardwareIsCurrent say: no two waiting packets have the same identity (an *)
(* ICMP error takes over that of its packet, and would otherwise be one    *)
(* that waits already), the walk starts at the first entry, and the rows   *)
(* of the CAM are, in order, those of the cache.                           *)
IInv ==
    /\ CacheOK(arp_cache) /\ HwRows(hw, arp_cache) /\ QueueOK(arp_queue, owed)
    /\ Settled(arp_queue, turn, pos) /\ Learnt(arp_cache, arp_queue, window)
    /\ turn \in {"expire", "queue", "walk", "sleep"} /\ (turn # "walk" => pos = 1)
    /\ pos \in 1 .. Len(arp_queue) + 1

LEMMA IInvImplies == IInv => NoPacketLost /\ HardwareIsCurrent
<1> SUFFICES ASSUME IInv PROVE NoPacketLost /\ HardwareIsCurrent
  OBVIOUS
<1>1. HardwareIsCurrent
  BY RowsAreCurrent, Zenon DEF IInv, CacheOK
<1>2. TypeOK
  BY DEF IInv, TypeOK, CacheOK, QueueOK, Settled, CacheEntry, QueueEntry
<1>3. owed = UNION {Range(arp_queue[k].packets) : k \in DOMAIN arp_queue}
  <2>1. \A p : p \in owed <=> PacketAt(arp_queue, p)
    BY DEF IInv, QueueOK
  <2> QED BY <2>1 DEF PacketAt, Range
<1>4. \A k, l \in DOMAIN arp_queue :
          \A i \in DOMAIN arp_queue[k].packets, j \in DOMAIN arp_queue[l].packets :
             arp_queue[k].packets[i] = arp_queue[l].packets[j] => k = l /\ i = j
  BY DEF IInv, QueueOK
<1> QED BY <1>1, <1>2, <1>3, <1>4 DEF NoPacketLost, IInv, Learnt

LEMMA IInvInit == Init => IInv
<1> SUFFICES ASSUME Init PROVE IInv
  OBVIOUS
<1>1. arp_cache = <<>> /\ arp_queue = <<>> /\ owed = {} /\ turn = "expire" /\ pos = 1
  BY DEF Init
<1>2. CacheOK(<<>>) /\ QueueOK(<<>>, {})
  BY DEF CacheOK, QueueOK, PacketAt
<1>3. HwRows(hw, arp_cache)
  BY DEF Init, HwRows
<1> QED BY <1>1, <1>2, <1>3 DEF IInv, Settled, Learnt
-----------------------------------------------------------------------------
(* Fewer entries in cache or queue leave fewer addresses to wait for. *)
LEMMA LearntFewer ==
    ASSUME NEW c, NEW q, NEW w, Learnt(c, q, w), NEW c2, NEW q2,
           \A k \in DOMAIN c2 : \E j \in DOMAIN c : c2[k] = c[j],
           \A k \in DOMAIN q2 : \E j \in DOMAIN q : q2[k].ip = q[j].ip
    PROVE  Learnt(c2, q2, w)
BY DEF Learnt

LEMMA QueueLen ==
    ASSUME NEW q, NEW o, QueueOK(q, o)
    PROVE  Len(q) \in Nat /\ DOMAIN q = 1 .. Len(q) /\ 1 \in 1 .. Len(q) + 1
BY DEF QueueOK

LEMMA SendStep ==
    ASSUME IInv, NEW p \in Packet, NEW ip \in Ips, send_ip(p, ip)
    PROVE  IInv'
<1>1. turn # "walk" /\ pos = 1 /\ \A x \in owed : x.id # p.id
  BY DEF IInv, send_ip, Locked
<1>2. UNCHANGED <<arp_cache, hw, turn, pos, window>>
  BY DEF send_ip
<1>3. CASE InCache(ip)
  BY <1>2, <1>3, Zenon DEF send_ip, IInv
<1>4. CASE ~InCache(ip)
  <2>1. arp_queue' = arp_queue_add(arp_queue, p, ip) /\ owed' = owed \cup {p}
    BY <1>4 DEF send_ip
  <2>2. QueueOK(arp_queue, owed)
    BY DEF IInv
  <2>3. /\ QueueOK(arp_queue', owed')
        /\ \A k \in DOMAIN arp_queue' : arp_queue'[k].packets = <<>> =>
              k \in DOMAIN arp_queue /\ arp_queue'[k] = arp_queue[k]
        /\ \A k \in DOMAIN arp_queue' :
              arp_queue'[k].ip = ip \/ (k \in DOMAIN arp_queue /\ arp_queue'[k].ip = arp_queue[k].ip)
    <3>1. Added(arp_queue, owed, p, ip, arp_queue', owed')
      BY <1>1, <2>1, <2>2 DEF Added
    <3>2. AfterAdd(arp_queue, ip, arp_queue', owed')
      BY <3>1, QueueAdd, Zenon
    <3> QED BY <3>2, Zenon DEF AfterAdd
  <2>4. Settled(arp_queue', turn', pos')
    BY <1>1, <1>2, <2>3, Zenon DEF IInv, Settled
  <2>5. Learnt(arp_cache', arp_queue', window')
    BY <1>2, <1>4, <2>3, Zenon DEF IInv, Learnt, InCache
  <2>6. pos' \in 1 .. Len(arp_queue') + 1
    BY <1>1, <1>2, <2>3, QueueLen
  <2> QED BY <1>2, <2>3, <2>4, <2>5, <2>6 DEF IInv
<1> QED BY <1>3, <1>4

(* A reply, or a static entry, is written to the cache and the CAM. *)
LEMMA UpdateStep ==
    ASSUME IInv, NEW ip \in Ips, NEW mac \in Macs, NEW static \in BOOLEAN,
           update_arp_cache(ip, mac, static), static \/ window = None,
           window' = IF static THEN window ELSE ip,
           UNCHANGED <<arp_queue, owed, turn, pos>>
    PROVE  IInv'
<1> DEFINE e == [ip |-> ip, mac |-> mac, static |-> static, age |-> 0]
<1>1. e \in CacheEntry /\ e.ip = ip
  BY MaxTTLNat DEF CacheEntry
<1>2. arp_cache' = Written(arp_cache, e) /\ hw' = write_arp_cache_to_hw(arp_cache')
  BY DEF update_arp_cache, Written, InCache
<1>3. e.static = static
  OBVIOUS
<1> HIDE DEF e
<1>4. CacheOK(arp_cache)
  BY DEF IInv
<1>5. /\ CacheOK(arp_cache')
      /\ \A k \in DOMAIN arp_cache' :
            arp_cache'[k] = e \/ \E j \in DOMAIN arp_cache : arp_cache'[k] = arp_cache[j]
  BY <1>1, <1>2, <1>4, CacheUpdate
<1>6. HwRows(hw', arp_cache')
  BY <1>2, WrittenRows
<1>7. Learnt(arp_cache', arp_queue', window')
  <2> SUFFICES ASSUME NEW k \in DOMAIN arp_cache', NEW j \in DOMAIN arp_queue,
                      arp_cache'[k].ip = arp_queue[j].ip
               PROVE  arp_cache'[k].static \/ window' = arp_cache'[k].ip
    BY DEF Learnt
  <2>1. CASE arp_cache'[k] = e
    BY <1>1, <1>3, <2>1, Zenon
  <2>2. ASSUME NEW i \in DOMAIN arp_cache, arp_cache'[k] = arp_cache[i]
        PROVE  arp_cache'[k].static \/ window' = arp_cache'[k].ip
    <3>1. arp_cache[i].static \/ window = arp_cache[i].ip
      BY <2>2 DEF IInv, Learnt
    <3>2. arp_cache[i].ip # None
      <4>1. arp_cache[i] \in CacheEntry
        BY <1>4 DEF CacheOK
      <4> QED BY <4>1, ArpAssumption DEF CacheEntry
    <3> QED BY <2>2, <3>1, <3>2, Zenon
  <2> QED BY <1>5, <2>1, <2>2
<1> QED BY <1>5, <1>6, <1>7 DEF IInv

(* Entries leave the cache, and the CAM is written unless none did. *)
LEMMA ForgetStep ==
    ASSUME IInv, NEW K \in SUBSET DOMAIN arp_cache, arp_cache' = Keep(arp_cache, K),
           hw' = write_arp_cache_to_hw(arp_cache') \/ (K = DOMAIN arp_cache /\ hw' = hw),
           UNCHANGED <<arp_queue, owed, pos, window>>,
           turn # "walk", turn' \in {"expire", "queue", "sleep"}
    PROVE  IInv'
<1>1. CacheOK(arp_cache) /\ arp_cache \in Seq(CacheEntry)
  BY DEF IInv, CacheOK
<1>2. /\ CacheOK(arp_cache')
      /\ \A k \in DOMAIN arp_cache' : \E j \in DOMAIN arp_cache : arp_cache'[k] = arp_cache[j]
  BY <1>1, CacheKeep
<1>3. HwRows(hw', arp_cache')
  <2>1. CASE hw' = write_arp_cache_to_hw(arp_cache')
    BY <2>1, WrittenRows
  <2>2. CASE K = DOMAIN arp_cache /\ hw' = hw
    <3>1. arp_cache' = arp_cache
      BY <1>1, <2>2, KeepAll
    <3> QED BY <2>2, <3>1 DEF IInv
  <2> QED BY <2>1, <2>2
<1>4. Learnt(arp_cache', arp_queue', window')
  <2>1. Learnt(arp_cache, arp_queue, window)
    BY DEF IInv
  <2>2. \A k \in DOMAIN arp_queue : \E j \in DOMAIN arp_queue : arp_queue[k].ip = arp_queue[j].ip
    BY Zenon
  <2> QED BY <1>2, <2>1, <2>2, LearntFewer
<1>5. Settled(arp_queue', turn', pos')
  BY DEF IInv, Settled
<1> QED BY <1>2, <1>3, <1>4, <1>5 DEF IInv

LEMMA FlushStep ==
    ASSUME IInv, send_queued_packets
    PROVE  IInv'
<1> DEFINE A == Answered
<1>1. turn # "walk" /\ pos = 1 /\ window' = None /\ UNCHANGED <<arp_cache, hw, turn, pos>>
  BY DEF IInv, send_queued_packets, Locked
<1>2. /\ arp_queue' = Keep(arp_queue, DOMAIN arp_queue \ A)
      /\ owed' = owed \ UNION {Range(arp_queue[k].packets) : k \in A}
  BY DEF send_queued_packets
<1>3. QueueOK(arp_queue, owed) /\ A \in SUBSET DOMAIN arp_queue
  BY DEF IInv, Answered
<1>4. \A j \in DOMAIN arp_queue \ A : arp_queue[j].ip # window
  BY DEF Answered
<1> HIDE DEF A
<1>5. /\ QueueOK(arp_queue', owed')
      /\ \A k \in DOMAIN arp_queue' : \E j \in DOMAIN arp_queue : j \notin A /\ arp_queue'[k] = arp_queue[j]
  <2>1. Released(arp_queue, owed, A, arp_queue', owed')
    BY <1>2, <1>3 DEF Released
  <2>2. AfterRelease(arp_queue, A, arp_queue', owed')
    BY <2>1, QueueRelease
  <2> QED BY <2>2, Zenon DEF AfterRelease
<1>6. Settled(arp_queue', turn', pos')
  BY <1>1, <1>5 DEF IInv, Settled
<1>7. Learnt(arp_cache', arp_queue', window')
  BY <1>1, <1>4, <1>5 DEF IInv, Learnt
<1> QED BY <1>1, <1>5, <1>6, <1>7, QueueLen DEF IInv

(* Time passes: the entries of the cache and of the queue grow older. *)
LEMMA TickStep ==
    ASSUME IInv, Tick
    PROVE  IInv'
<1>1. turn' = "expire" /\ turn # "walk" /\ pos = 1 /\ UNCHANGED <<hw, owed, pos, window>>
  BY DEF IInv, Tick
<1>2. /\ CacheOK(arp_cache) /\ arp_cache \in Seq(CacheEntry)
      /\ Len(arp_cache) \in Nat /\ DOMAIN arp_cache = 1 .. Len(arp_cache)
  BY DEF IInv, CacheOK
<1>3. /\ QueueOK(arp_queue, owed) /\ arp_queue \in Seq(QueueEntry)
      /\ Len(arp_queue) \in Nat /\ DOMAIN arp_queue = 1 .. Len(arp_queue)
  BY DEF IInv, QueueOK
<1>4. ASSUME NEW e \in CacheEntry, NEW f, NEW b \in BOOLEAN,
             f = [e EXCEPT !.age = IF b \/ @ > MaxTTL THEN @ ELSE @ + 1]
      PROVE  f \in CacheEntry /\ RowOf(f) = RowOf(e) /\ f.ip = e.ip /\ f.static = e.static
  <2>1. e.age \in 0 .. MaxTTL + 1 /\ MaxTTL \in Nat
    BY MaxTTLNat DEF CacheEntry
  <2> DEFINE a == IF b \/ e.age > MaxTTL THEN e.age ELSE e.age + 1
  <2>2. a \in 0 .. MaxTTL + 1
    BY <2>1
  <2>3. f = [e EXCEPT !.age = a]
    BY <1>4
  <2> HIDE DEF a
  <2>4. f \in CacheEntry /\ f.ip = e.ip /\ f.mac = e.mac
    BY <2>2, <2>3 DEF CacheEntry
  <2>5. f.static = e.static
    BY <2>3, Zenon DEF CacheEntry
  <2> QED BY <2>4, <2>5 DEF RowOf
<1>5. ASSUME NEW k \in DOMAIN arp_cache
      PROVE  /\ arp_cache'[k] \in CacheEntry /\ RowOf(arp_cache'[k]) = RowOf(arp_cache[k])
             /\ arp_cache'[k].ip = arp_cache[k].ip
             /\ arp_cache'[k].static = arp_cache[k].static
  <2>1. arp_cache[k] \in CacheEntry
    BY <1>2
  <2>2. arp_cache[k].static \in BOOLEAN
    BY <2>1 DEF CacheEntry
  <2>3. arp_cache'[k] = [arp_cache[k] EXCEPT
              !.age = IF arp_cache[k].static \/ @ > MaxTTL THEN @ ELSE @ + 1]
    BY DEF Tick
  <2> QED BY <1>4, <2>1, <2>2, <2>3
<1>6. DOMAIN arp_cache' = DOMAIN arp_cache /\ arp_cache' \in Seq(CacheEntry)
  <2>1. arp_cache' = [k \in DOMAIN arp_cache |-> arp_cache'[k]]
    BY DEF Tick
  <2>2. arp_cache' \in [1 .. Len(arp_cache) -> CacheEntry]
    BY <1>2, <1>5, <2>1
  <2> QED BY <1>2, <2>1, <2>2
<1>7. CacheOK(arp_cache')
  BY <1>2, <1>5, <1>6 DEF CacheOK
<1>8. HwRows(hw', arp_cache')
  <2>1. Statics(arp_cache) = Statics(arp_cache') /\ Dynamics(arp_cache) = Dynamics(arp_cache')
    BY <1>5, <1>6, Zenon DEF Statics, Dynamics
  <2>2. write_arp_cache_to_hw(arp_cache) = write_arp_cache_to_hw(arp_cache')
    BY <1>2, <1>5, <1>6, <2>1, WriteSame
  <2> QED BY <1>1, <2>2 DEF IInv, HwRows
<1>9. ASSUME NEW k \in DOMAIN arp_queue
      PROVE  /\ arp_queue'[k] \in QueueEntry /\ arp_queue'[k].ip = arp_queue[k].ip
             /\ arp_queue'[k].packets = arp_queue[k].packets
  <2> DEFINE e == arp_queue[k]
  <2>1. e \in QueueEntry
    BY <1>3
  <2>2. arp_queue'[k] = [e EXCEPT !.since = IF @ > 1 THEN @ ELSE @ + 1]
    BY DEF Tick
  <2> HIDE DEF e
  <2>3. /\ arp_queue'[k] \in QueueEntry /\ arp_queue'[k].ip = e.ip
        /\ arp_queue'[k].packets = e.packets
    BY <2>1, <2>2 DEF QueueEntry
  <2> QED BY <2>3 DEF e
<1>10. DOMAIN arp_queue' = DOMAIN arp_queue /\ arp_queue' \in Seq(QueueEntry)
  <2>1. arp_queue' = [k \in DOMAIN arp_queue |-> arp_queue'[k]]
    BY DEF Tick
  <2>2. arp_queue' \in [1 .. Len(arp_queue) -> QueueEntry]
    BY <1>3, <1>9, <2>1
  <2> QED BY <1>3, <2>1, <2>2
<1>11. QueueOK(arp_queue', owed')
  BY <1>1, <1>3, <1>9, <1>10, QueueSame
<1>12. Settled(arp_queue', turn', pos')
  BY <1>1, <1>9, <1>10 DEF IInv, Settled
<1>13. Learnt(arp_cache', arp_queue', window')
  <2> SUFFICES ASSUME NEW k \in DOMAIN arp_cache, NEW j \in DOMAIN arp_queue,
                      arp_cache'[k].ip = arp_queue'[j].ip
               PROVE  arp_cache'[k].static \/ window = arp_cache'[k].ip
    BY <1>1, <1>6, <1>10 DEF Learnt
  <2>1. arp_cache[k].static \/ window = arp_cache[k].ip
    BY <1>5, <1>9 DEF IInv, Learnt
  <2> QED BY <1>5, <2>1, Zenon
<1> QED BY <1>1, <1>7, <1>8, <1>11, <1>12, <1>13, QueueLen DEF IInv

-----------------------------------------------------------------------------
(* The walk of process_arp_queue. *)
LEMMA AgainStep ==
    ASSUME IInv, turn = "walk", pos <= Len(arp_queue), RequestAgain,
           UNCHANGED <<arp_cache, hw, turn, window>>
    PROVE  IInv'
<1> DEFINE n == pos
           f == arp_queue[n]
           e == [f EXCEPT !.requests = @ + 1, !.since = 0]
<1>1. /\ QueueOK(arp_queue, owed) /\ arp_queue \in Seq(QueueEntry)
      /\ Len(arp_queue) \in Nat /\ DOMAIN arp_queue = 1 .. Len(arp_queue)
      /\ n \in DOMAIN arp_queue /\ f \in QueueEntry /\ f.requests < MAX_REQUESTS
  BY DEF IInv, QueueOK, RequestAgain
<1>2. arp_queue' = [arp_queue EXCEPT ![n] = e] /\ pos' = n + 1 /\ UNCHANGED owed
  BY <1>1, Zenon DEF RequestAgain
<1> HIDE DEF f
<1>3. e \in QueueEntry /\ e.ip = f.ip /\ e.packets = f.packets
  <2>1. f \in QueueEntry /\ f.requests < MAX_REQUESTS
    BY <1>1
  <2>2. f.requests + 1 \in 1 .. MAX_REQUESTS /\ 0 \in 0 .. 2
    BY <2>1, ArpAssumption DEF QueueEntry
  <2> DEFINE a == f.requests + 1
  <2>3. e = [f EXCEPT !.requests = a, !.since = 0] /\ a \in 1 .. MAX_REQUESTS
    BY <2>2
  <2> HIDE DEF e, a
  <2> DEFINE d == [f EXCEPT !.requests = a]
  <2>4. d \in QueueEntry /\ d.ip = f.ip /\ d.packets = f.packets
    BY <2>1, <2>3 DEF QueueEntry
  <2>5. e = [d EXCEPT !.since = 0]
    BY <2>1, <2>3 DEF QueueEntry
  <2> HIDE DEF d
  <2>6. e \in QueueEntry /\ e.ip = d.ip /\ e.packets = d.packets
    BY <2>4, <2>5 DEF QueueEntry
  <2> QED BY <2>4, <2>6
<1> HIDE DEF e, n
<1>4. arp_queue' \in Seq(QueueEntry) /\ DOMAIN arp_queue' = DOMAIN arp_queue
      /\ Len(arp_queue') = Len(arp_queue)
  BY <1>1, <1>2, <1>3
<1>5. \A k \in DOMAIN arp_queue : /\ arp_queue'[k].ip = arp_queue[k].ip
                                  /\ arp_queue'[k].packets = arp_queue[k].packets
  BY <1>1, <1>2, <1>3 DEF f
<1>6. QueueOK(arp_queue', owed')
  BY <1>1, <1>2, <1>4, <1>5, QueueSame, Zenon
<1>7. \A k \in DOMAIN arp_queue : arp_queue[k].packets # <<>>
  <2>1. MAX_REQUESTS \in Nat /\ f.requests \in Nat
    BY <1>1, ArpAssumption DEF QueueEntry
  <2> QED BY <1>1, <2>1 DEF IInv, Settled, f, n
<1>8. Settled(arp_queue', turn', pos')
  BY <1>4, <1>5, <1>7 DEF Settled
<1>9. Learnt(arp_cache', arp_queue', window')
  BY <1>4, <1>5 DEF IInv, Learnt
<1>10. pos' \in 1 .. Len(arp_queue') + 1
  BY <1>1, <1>2, <1>4
<1> QED BY <1>6, <1>8, <1>9, <1>10 DEF IInv

LEMMA FreeStep ==
    ASSUME IInv, turn = "walk", pos <= Len(arp_queue), FreeEntry,
           UNCHANGED <<arp_cache, hw, turn, window>>
    PROVE  IInv'
<1> DEFINE A == {pos}
<1>1. /\ QueueOK(arp_queue, owed) /\ arp_queue \in Seq(QueueEntry)
      /\ Len(arp_queue) \in Nat /\ DOMAIN arp_queue = 1 .. Len(arp_queue)
      /\ pos \in DOMAIN arp_queue /\ arp_queue[pos].packets = <<>>
  <2>1. QueueOK(arp_queue, owed) /\ pos \in 1 .. Len(arp_queue) + 1
    BY Zenon DEF IInv
  <2>2. arp_queue \in Seq(QueueEntry)
    BY <2>1, Zenon DEF QueueOK
  <2>3. Len(arp_queue) \in Nat /\ DOMAIN arp_queue = 1 .. Len(arp_queue)
    BY <2>2
  <2>4. pos \in DOMAIN arp_queue
    BY <2>1, <2>3
  <2>5. arp_queue[pos].packets = <<>>
    BY Zenon DEF FreeEntry
  <2> QED BY <2>1, <2>2, <2>3, <2>4, <2>5, Zenon
<1>2. arp_queue' = Keep(arp_queue, DOMAIN arp_queue \ A) /\ UNCHANGED <<owed, pos>>
  BY DEF FreeEntry
<1>3. owed = owed \ UNION {Range(arp_queue[k].packets) : k \in A}
  BY <1>1 DEF Range
<1>4. Released(arp_queue, owed, A, arp_queue', owed')
  BY <1>1, <1>2, <1>3 DEF Released
<1>5. /\ QueueOK(arp_queue', owed')
      /\ \A k \in DOMAIN arp_queue' : \E j \in DOMAIN arp_queue : j \notin A /\ arp_queue'[k] = arp_queue[j]
  <2> HIDE DEF A
  <2>1. AfterRelease(arp_queue, A, arp_queue', owed')
    BY <1>4, QueueRelease
  <2> QED BY <2>1, Zenon DEF AfterRelease
<1>6. Settled(arp_queue', turn', pos')
  BY <1>5 DEF IInv, Settled
<1>7. Learnt(arp_cache', arp_queue', window')
  BY <1>5 DEF IInv, Learnt
<1>8. Len(arp_queue') = Len(arp_queue) - 1
  <2> DEFINE K == DOMAIN arp_queue \ {pos}
             m == Len(arp_queue)
  <2>1. IsFiniteSet(1 .. m) /\ Cardinality(1 .. m) = m
    <3> m \in Nat
      BY <1>1
    <3> HIDE DEF m
    <3> QED BY FS_Interval
  <2>2. IsFiniteSet(K) /\ Cardinality(K) = m - 1
    <3> DEFINE I == 1 .. m
    <3>1. IsFiniteSet(I) /\ Cardinality(I) = m /\ pos \in I /\ K = I \ {pos}
      BY <1>1, <2>1
    <3> HIDE DEF I, K
    <3> QED BY <3>1, FS_RemoveElement, Zenon
  <2>3. K \in SUBSET DOMAIN arp_queue
    OBVIOUS
  <2> HIDE DEF K
  <2>4. Len(Keep(arp_queue, K)) = Cardinality(K)
    BY <1>1, <2>3, KeepProps
  <2> QED BY <1>2, <2>2, <2>4 DEF K
<1>9. pos' \in 1 .. Len(arp_queue') + 1
  BY <1>1, <1>2, <1>8
<1> QED BY <1>2, <1>5, <1>6, <1>7, <1>9 DEF IInv

LEMMA ReturnStep ==
    ASSUME IInv, turn = "walk", pos <= Len(arp_queue), ReturnToSender,
           UNCHANGED <<arp_cache, hw, turn, window>>
    PROVE  IInv'
<1> DEFINE q == arp_queue
           p == Head(arp_queue[pos].packets)
           error == [id |-> p.id, err |-> TRUE, back |-> None]
           rest == [arp_queue EXCEPT ![pos].packets = Tail(@)]
           o == owed \ {p}
<1>1. /\ QueueOK(q, owed) /\ Len(q) \in Nat /\ DOMAIN q = 1 .. Len(q) /\ pos \in DOMAIN q
      /\ q[pos].packets # <<>> /\ q[pos].since > 1 /\ q[pos].requests >= MAX_REQUESTS
  BY DEF IInv, QueueOK, ReturnToSender
<1>2. GivenUp(q, owed, pos, rest, o)
  BY <1>1 DEF GivenUp
<1>3. \/ arp_queue' = rest /\ owed' = o
      \/ /\ p.back # None /\ ~InCache(p.back)
         /\ arp_queue' = arp_queue_add(rest, error, p.back) /\ owed' = o \cup {error}
  BY DEF ReturnToSender
<1>4. pos' = pos
  BY DEF ReturnToSender
<1> HIDE DEF rest, error
<1>5. /\ p \in owed /\ QueueOK(rest, o) /\ DOMAIN rest = DOMAIN q /\ Len(rest) = Len(q)
      /\ \A k \in DOMAIN q : /\ rest[k].ip = q[k].ip /\ rest[k].since = q[k].since
                             /\ rest[k].requests = q[k].requests
      /\ \A k \in DOMAIN q \ {pos} : rest[k] = q[k]
  <2> HIDE DEF o
  <2>1. GivenUp(q, owed, pos, rest, o)
    BY <1>2
  <2>2. AfterGivingUp(q, owed, pos, rest, o)
    BY <2>1, QueueTail, Zenon
  <2> QED BY <2>2, Zenon DEF AfterGivingUp
<1>6. Settled(rest, "walk", pos)
  BY <1>1, <1>5 DEF IInv, Settled
<1>7. Learnt(arp_cache, rest, window)
  BY <1>5 DEF IInv, Learnt
<1>8. CASE arp_queue' = rest /\ owed' = o
  BY <1>1, <1>4, <1>5, <1>6, <1>7, <1>8, Zenon DEF IInv
<1>9. CASE /\ p.back # None /\ ~InCache(p.back)
           /\ arp_queue' = arp_queue_add(rest, error, p.back) /\ owed' = o \cup {error}
  <2>1. owed \subseteq Packet /\ \A x, y \in owed : x.id = y.id => x = y
    BY <1>1 DEF QueueOK
  <2>2. p \in Packet
    BY <1>5, <2>1
  <2> HIDE DEF p
  <2>3. p.back \in Ips /\ error \in Packet /\ error.id = p.id
    BY <1>9, <2>2 DEF Packet, error
  <2>4. \A x \in o : x.id # error.id
    BY <1>5, <2>1, <2>3, Zenon
  <2>5. Added(rest, o, error, p.back, arp_queue', owed')
    BY <1>5, <1>9, <2>3, <2>4 DEF Added
  <2> HIDE DEF o
  <2>6. /\ QueueOK(arp_queue', owed') /\ Len(rest) <= Len(arp_queue') /\ Len(arp_queue') \in Nat
        /\ \A k \in DOMAIN arp_queue' : arp_queue'[k].packets = <<>> =>
              k \in DOMAIN rest /\ arp_queue'[k] = rest[k]
        /\ \A k \in DOMAIN arp_queue' :
              arp_queue'[k].ip = p.back \/ (k \in DOMAIN rest /\ arp_queue'[k].ip = rest[k].ip)
    <3>1. AfterAdd(rest, p.back, arp_queue', owed')
      BY <2>5, QueueAdd
    <3> QED BY <3>1, Zenon DEF AfterAdd
  <2>7. Settled(arp_queue', turn', pos')
    BY <1>4, <1>6, <2>6, Zenon DEF Settled
  <2>8. Learnt(arp_cache', arp_queue', window')
    BY <1>7, <1>9, <2>6, Zenon DEF Learnt, InCache
  <2>9. pos' \in 1 .. Len(arp_queue') + 1
    BY <1>1, <1>4, <1>5, <2>6
  <2> QED BY <2>6, <2>7, <2>8, <2>9, Zenon DEF IInv
<1> QED BY <1>3, <1>8, <1>9

LEMMA WalkStep ==
    ASSUME IInv, process_arp_queue
    PROVE  IInv'
<1>1. UNCHANGED <<arp_cache, hw, window>>
  BY DEF process_arp_queue
<1>2. Len(arp_queue) \in Nat /\ DOMAIN arp_queue = 1 .. Len(arp_queue) /\ 1 \in 1 .. Len(arp_queue) + 1
  BY QueueLen DEF IInv
<1>3. CASE turn = "queue" /\ turn' = "walk" /\ pos' = 1 /\ UNCHANGED <<arp_queue, owed>>
  <2>1. Settled(arp_queue', turn', pos')
    BY <1>3, Zenon DEF IInv, Settled
  <2> QED BY <1>1, <1>2, <1>3, <2>1, Zenon DEF IInv
<1>4. CASE turn = "walk" /\ pos <= Len(arp_queue) /\ UNCHANGED turn
           /\ arp_queue[pos].since <= 1 /\ pos' = pos + 1 /\ UNCHANGED <<arp_queue, owed>>
  <2>1. pos \in DOMAIN arp_queue /\ pos' \in 1 .. Len(arp_queue) + 1
    <3>1. pos \in 1 .. Len(arp_queue) + 1
      BY Zenon DEF IInv
    <3> QED BY <1>2, <1>4, <3>1
  <2>2. arp_queue[pos].since \in Nat
    <3>1. arp_queue[pos] \in QueueEntry
      BY <2>1, EntryFields, Zenon DEF IInv, QueueOK
    <3> QED BY <3>1 DEF QueueEntry
  <2>3. \A k \in DOMAIN arp_queue : arp_queue[k].packets # <<>>
    BY <1>4, <2>2 DEF IInv, Settled
  <2>4. Settled(arp_queue', turn', pos')
    BY <1>4, <2>3 DEF Settled
  <2> QED BY <1>1, <1>4, <2>1, <2>4 DEF IInv
<1>5. CASE turn = "walk" /\ pos <= Len(arp_queue) /\ UNCHANGED turn
           /\ (RequestAgain \/ ReturnToSender \/ FreeEntry)
  BY <1>1, <1>5, AgainStep, ReturnStep, FreeStep
<1>6. CASE turn = "walk" /\ pos > Len(arp_queue)
           /\ turn' = "sleep" /\ pos' = 1 /\ UNCHANGED <<arp_queue, owed>>
  <2>1. pos \notin DOMAIN arp_queue
    BY <1>2, <1>6 DEF IInv
  <2>2. Settled(arp_queue', turn', pos')
    BY <1>6, <2>1 DEF IInv, Settled
  <2> QED BY <1>1, <1>2, <1>6, <2>2 DEF IInv
<1> QED BY <1>3, <1>4, <1>5, <1>6 DEF process_arp_queue

-----------------------------------------------------------------------------
LEMMA IInvNext == IInv /\ [Next]_vars => IInv'
<1> SUFFICES ASSUME IInv, [Next]_vars PROVE IInv'
  OBVIOUS
<1>1. ASSUME NEW p \in Packet, NEW ip \in Ips, send_ip(p, ip) PROVE IInv'
  BY <1>1, SendStep
<1>2. ASSUME NEW ip \in Ips, NEW mac \in Macs, process_arp_reply(ip, mac) PROVE IInv'
  <2>1. /\ update_arp_cache(ip, mac, FALSE) /\ window = None /\ window' = ip
        /\ UNCHANGED <<arp_queue, owed, turn, pos>>
    BY <1>2, Zenon DEF process_arp_reply
  <2> QED BY <2>1, UpdateStep, Zenon
<1>3. ASSUME NEW ip \in Ips, NEW mac \in Macs, cli_ip_arp_add(ip, mac) PROVE IInv'
  <2>1. /\ update_arp_cache(ip, mac, TRUE) /\ window' = window
        /\ UNCHANGED <<arp_queue, owed, turn, pos>>
    BY <1>3, Zenon DEF cli_ip_arp_add
  <2> QED BY <2>1, UpdateStep, Zenon
<1>4. CASE send_queued_packets
  BY <1>4, FlushStep
<1>5. CASE expire_arp_cache
  <2> DEFINE K == Fresh
  <2>1. /\ K \in SUBSET DOMAIN arp_cache /\ arp_cache' = Keep(arp_cache, K)
        /\ hw' = write_arp_cache_to_hw(arp_cache') \/ (K = DOMAIN arp_cache /\ hw' = hw)
        /\ turn # "walk" /\ turn' \in {"expire", "queue", "sleep"}
        /\ UNCHANGED <<arp_queue, owed, pos, window>>
    BY <1>5 DEF expire_arp_cache, Fresh
  <2> HIDE DEF K
  <2> QED BY <2>1, ForgetStep, Zenon
<1>6. CASE process_arp_queue
  BY <1>6, WalkStep
<1>7. CASE Tick
  BY <1>7, TickStep
<1>8. ASSUME NEW ip \in Ips, cli_ip_arp_del(ip) PROVE IInv'
  <2> DEFINE K == {k \in DOMAIN arp_cache : arp_cache[k].ip # ip}
  <2>1. /\ K \in SUBSET DOMAIN arp_cache /\ arp_cache' = Keep(arp_cache, K)
        /\ hw' = write_arp_cache_to_hw(arp_cache') \/ (K = DOMAIN arp_cache /\ hw' = hw)
        /\ UNCHANGED <<arp_queue, owed, turn, pos, window>>
    BY <1>8, Zenon DEF cli_ip_arp_del, InCache
  <2>2. turn # "walk" /\ turn' \in {"expire", "queue", "sleep"}
    BY <1>8 DEF cli_ip_arp_del, Locked, IInv
  <2> HIDE DEF K
  <2> QED BY <2>1, <2>2, ForgetStep
<1>9. CASE cli_nuke_arp_cache
  <2>1. /\ arp_cache' = <<>> /\ hw' = write_arp_cache_to_hw(arp_cache')
        /\ UNCHANGED <<arp_queue, owed, turn, pos, window>>
    BY <1>9 DEF cli_nuke_arp_cache
  <2>2. CacheOK(arp_cache') /\ Learnt(arp_cache', arp_queue', window')
    BY <2>1 DEF CacheOK, Learnt
  <2>3. HwRows(hw', arp_cache')
    BY <2>1, WrittenRows
  <2> QED BY <2>1, <2>2, <2>3 DEF IInv
<1>10. ASSUME NEW r \in 1 .. CAM_WIDTH, cli_nuke_hw_arp_cache_entry(r) PROVE IInv'
  <2>1. /\ hw' = [hw EXCEPT ![r] = None]
        /\ UNCHANGED <<arp_cache, arp_queue, owed, turn, pos, window>>
    BY <1>10 DEF cli_nuke_hw_arp_cache_entry
  <2>2. HwRows(hw', arp_cache')
    BY <2>1, Zenon DEF IInv, HwRows
  <2> QED BY <2>1, <2>2 DEF IInv
<1>11. ASSUME NEW t \in TTLs, cli_ip_arp_set_ttl(t) PROVE IInv'
  BY <1>11 DEF cli_ip_arp_set_ttl, IInv
<1>12. CASE UNCHANGED vars
  BY <1>12 DEF vars, IInv
<1> QED BY <1>1, <1>2, <1>3, <1>4, <1>5, <1>6, <1>7, <1>8, <1>9, <1>10, <1>11, <1>12, Zenon
        DEF Next, arp_thread, cli

LEMMA IInvInvariant == Spec => []IInv
BY IInvInit, IInvNext, PTL DEF Spec

(* For every number of packets, addresses and CAM rows: a packet given to  *)
(* arp_queue_add is in the queue, once, until it is sent or given up, the  *)
(* ICMP errors that the walk of process_arp_queue adds to the list it is   *)
(* walking included; and only the handler of the reply stands between a    *)
(* learnt address and the packets that wait for it.                        *)
THEOREM PacketsAreKept == Spec => []NoPacketLost
BY IInvInvariant, IInvImplies, PTL

(* For every number of entries and rows: the CAM holds no address that the *)
(* cache has dropped or replaced, and no dynamic entry where a static one  *)
(* found no room, rows nuked by hand aside.  expire_arp_cache and          *)
(* cli_ip_arp_del, which write the CAM only when they removed an entry,    *)
(* miss nothing.                                                           *)
THEOREM CamFollowsCache == Spec => []HardwareIsCurrent
BY IInvInvariant, IInvImplies, PTL
=============================================================================
