----------------------------- MODULE RouteOrder -----------------------------
(***************************************************************************)
(* Routing-table entries and the order in which trigger_rtable_modified    *)
(* (or_rtable.c) sorts them.  Addresses and masks are vectors of W bits,   *)
(* bit 1 the most significant.                                             *)
(***************************************************************************)
EXTENDS Naturals, Sequences, FiniteSets

CONSTANTS
    W,          \* bits of an address (32 in the code)
    Ifaces      \* interface names

ASSUME WAssumption == W \in Nat

Bits == 1 .. W
Addr == [Bits -> {0, 1}]
Zero == [b \in Bits |-> 0]
Ones == [b \in Bits |-> 1]

\* Numeric order of two words, bit 1 being the most significant.
BitsLess(a, b) ==
    \E i \in Bits : /\ a[i] < b[i]
                    /\ \A j \in Bits : j < i => a[j] = b[j]

SetBits(m) == {i \in Bits : m[i] = 1}
PopCount(m) == Cardinality(SetBits(m))

\* A netmask: no 1 after a 0.  The CLI parses any dotted quad as a mask.
Contiguous(m) == \A i, j \in Bits : (j < i /\ m[i] = 1) => m[j] = 1

Route == [ip : Addr, mask : Addr, gw : Addr, iface : Ifaces]
Entry == [ip : Addr, mask : Addr, gw : Addr, iface : Ifaces,
          is_active : BOOLEAN, is_static : BOOLEAN]

-----------------------------------------------------------------------------
(* The sort of trigger_rtable_modified: mask, then ip, both descending,    *)
(* then static before dynamic; entries with the same key keep their order. *)

\* Mutant: the address is compared before the mask.
SwapAddressFirst(a, b) ==
    \/ BitsLess(a.ip, b.ip)
    \/ a.ip = b.ip /\ BitsLess(a.mask, b.mask)
    \/ a.mask = b.mask /\ a.ip = b.ip /\ ~a.is_static /\ b.is_static

\* The condition under which the bubble sort exchanges a with its successor b.
Swap(a, b) ==
    \/ BitsLess(a.mask, b.mask)
    \/ a.mask = b.mask /\ BitsLess(a.ip, b.ip)
    \/ a.mask = b.mask /\ a.ip = b.ip /\ ~a.is_static /\ b.is_static

Sorted(s) == \A i, j \in DOMAIN s : i < j => ~Swap(s[i], s[j])

\* A stable sort puts entry j of s before entry k.
Precedes(s, j, k) == ~Swap(s[j], s[k]) /\ (Swap(s[k], s[j]) \/ j < k)

Rank(s, K, k) == Cardinality({j \in K : Precedes(s, j, k)})

\* The entries of s at the indices K, sorted.
SortedSeq(s, K) ==
    [i \in 1 .. Cardinality(K) |-> s[CHOOSE k \in K : Rank(s, K, k) = i - 1]]
=============================================================================
