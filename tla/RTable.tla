------------------------------- MODULE RTable -------------------------------
(***************************************************************************)
(* The routing table of the SCONE router (or_rtable.c) and its image in    *)
(* the LPM TCAM of the output-port-lookup core (ip_lpm.v).                 *)
(*                                                                         *)
(* Software keeps a list of routes and answers get_next_hop from it.  Every *)
(* change sorts the list and rewrites the TCAM row by row, and from then on *)
(* hardware forwards with the lowest-numbered row that matches.  The two    *)
(* lookups use different rules (largest mask population count against      *)
(* first match), so their agreement is what the sort is for.               *)
(*                                                                         *)
(* An operation on the list runs under the rtable write lock, which is     *)
(* held until the last row has been written; packets are looked up between *)
(* any two row writes.                                                     *)
(***************************************************************************)
EXTENDS RouteOrder

CONSTANTS
    ROWS,       \* rows of the TCAM (MEM_IP_LPM_TCAM_WIDTH, 32)
    NoPort,     \* output port 0: no bit of the one-hot port is set
    Routes,     \* routes the operator, the rtable file or OSPF may install
    MAX_TABLE,  \* bound on the length of the list
    MAX_INIT,   \* bound on the length of the rtable file
    MAX_DYN     \* bound on the routes one Dijkstra run computes

Row == [ip : Addr, mask : Addr, gw : Addr, port : Ifaces \cup {NoPort}]

ASSUME RTableAssumption ==
    /\ ROWS \in Nat \ {0}
    /\ NoPort \notin Ifaces
    /\ Routes \subseteq Route
    /\ \A r \in Routes : Contiguous(r.mask)
    /\ MAX_TABLE \in Nat /\ MAX_INIT \in Nat /\ MAX_DYN \in Nat

VARIABLES
    rtable,     \* rs->rtable, the list of entries
    up,         \* interfaces whose is_active is set
    dirty,      \* rs->dijkstra_dirty
    hw,         \* the TCAM and its LUT, row by row
    row,        \* next row to write; 0: never written, ROWS + 1: all written
    before      \* history: the TCAM when the current rewrite began

vars == <<rtable, up, dirty, hw, row, before>>

-----------------------------------------------------------------------------
(* Entries, matching, and the software lookup. *)

MkEntry(r, static) ==
    [ip |-> r.ip, mask |-> r.mask, gw |-> r.gw, iface |-> r.iface,
     is_active |-> TRUE, is_static |-> static]

\* The same test in get_next_hop (ip & mask == dest & mask) and in a TCAM
\* row (the zero bits of the mask are don't-cares).
Matches(e, d) == \A i \in Bits : e.mask[i] = 1 => e.ip[i] = d[i]

NextHop(gw, d) == IF gw = Zero THEN d ELSE gw

\* get_next_hop keeps the first entry with strictly more mask bits.
Best(s, d, k) ==
    /\ s[k].is_active /\ Matches(s[k], d)
    /\ \A j \in DOMAIN s :
          s[j].is_active /\ Matches(s[j], d) =>
             IF j < k THEN PopCount(s[j].mask) < PopCount(s[k].mask)
                      ELSE PopCount(s[j].mask) <= PopCount(s[k].mask)

NoRoute == [found |-> FALSE]
Via(hop, out) == [found |-> TRUE, hop |-> hop, out |-> out]

get_next_hop(s, d) ==
    IF \E k \in DOMAIN s : Best(s, d, k)
    THEN LET e == s[CHOOSE k \in DOMAIN s : Best(s, d, k)]
         IN  Via(NextHop(e.gw, d), e.iface)
    ELSE NoRoute

-----------------------------------------------------------------------------
(* The TCAM. *)

ActiveUpTo(s, k) == {j \in 1 .. k : s[j].is_active}

\* Index k of s is the i-th active entry.
IsNth(s, k, i) == s[k].is_active /\ Cardinality(ActiveUpTo(s, k)) = i

ZeroRow == [ip |-> Zero, mask |-> Zero, gw |-> Zero, port |-> NoPort]
ResetRow == [ip |-> Zero, mask |-> Ones, gw |-> Zero, port |-> NoPort]

\* What write_rtable_to_hw puts in row i: the i-th active entry, or zeroes.
HwRow(s, i) ==
    IF \E k \in DOMAIN s : IsNth(s, k, i)
    THEN LET e == s[CHOOSE k \in DOMAIN s : IsNth(s, k, i)]
         IN  [ip |-> e.ip, mask |-> e.mask, gw |-> e.gw, port |-> e.iface]
    ELSE ZeroRow

\* The TCAM reports the lowest matching row.
FirstMatch(h, d, i) ==
    Matches(h[i], d) /\ \A j \in 1 .. ROWS : j < i => ~Matches(h[j], d)

Hit(r, d) == Via(NextHop(r.gw, d), r.port)

lpm_lookup(h, d) ==
    IF \E i \in 1 .. ROWS : FirstMatch(h, d, i)
    THEN Hit(h[CHOOSE i \in 1 .. ROWS : FirstMatch(h, d, i)], d)
    ELSE NoRoute

-----------------------------------------------------------------------------
\* Mutant: init_rtable without its final dijkstra_trigger.
InitNoTrigger ==
    /\ \E n \in 0 .. MAX_INIT : \E f \in [1 .. n -> Routes] :
          rtable = [k \in 1 .. n |-> MkEntry(f[k], TRUE)]
    /\ up = Ifaces
    /\ dirty = FALSE
    /\ hw = [i \in 1 .. ROWS |-> ResetRow]
    /\ row = 0
    /\ before = hw

Init ==
    /\ \E n \in 0 .. MAX_INIT : \E f \in [1 .. n -> Routes] :
          rtable = [k \in 1 .. n |-> MkEntry(f[k], TRUE)]
    /\ up = Ifaces
    /\ dirty = TRUE
    /\ hw = [i \in 1 .. ROWS |-> ResetRow]
    /\ row = 0
    /\ before = hw

Idle == row \in {0, ROWS + 1}

\* The list becomes s restricted to the indices K, and is sorted; the rewrite
\* of the TCAM begins.
trigger_rtable_modified(s, K) ==
    /\ rtable' = SortedSeq(s, K)
    /\ row' = 1
    /\ before' = hw
    /\ UNCHANGED hw

\* Mutant: the rows are written from the last one up.
WriteRowsUpwards ==
    /\ row \in 1 .. ROWS
    /\ hw' = [hw EXCEPT ![ROWS + 1 - row] = HwRow(rtable, ROWS + 1 - row)]
    /\ row' = row + 1
    /\ UNCHANGED <<rtable, up, dirty, before>>

write_rtable_to_hw ==
    /\ row \in 1 .. ROWS
    /\ hw' = [hw EXCEPT ![row] = HwRow(rtable, row)]
    /\ row' = row + 1
    /\ UNCHANGED <<rtable, up, dirty, before>>

add_route(r) ==
    /\ Idle
    /\ Len(rtable) < MAX_TABLE
    /\ trigger_rtable_modified(Append(rtable, MkEntry(r, TRUE)),
                               1 .. Len(rtable) + 1)
    /\ UNCHANGED <<up, dirty>>

del_route(dest, mask) ==
    /\ Idle
    /\ trigger_rtable_modified(rtable,
          {k \in DOMAIN rtable : ~(rtable[k].ip = dest /\ rtable[k].mask = mask)})
    /\ UNCHANGED <<up, dirty>>

\* Mutant: dynamic routes of the interface are kept, inactive.
DeactivateKeepsDynamic(i) ==
    trigger_rtable_modified(
        [k \in DOMAIN rtable |->
            [rtable[k] EXCEPT !.is_active = @ /\ rtable[k].iface # i]],
        DOMAIN rtable)

deactivate_routes(i) ==
    trigger_rtable_modified(
        [k \in DOMAIN rtable |->
            [rtable[k] EXCEPT !.is_active = @ /\ rtable[k].iface # i]],
        {k \in DOMAIN rtable : rtable[k].is_static \/ rtable[k].iface # i})

activate_routes(i) ==
    trigger_rtable_modified(
        [k \in DOMAIN rtable |->
            [rtable[k] EXCEPT !.is_active = @ \/ rtable[k].iface = i]],
        DOMAIN rtable)

\* propagate_pwospf_changes calls dijkstra_trigger; iface_down reaches it only
\* if the router still advertised the interface's subnet.
iface_down(i) ==
    /\ Idle
    /\ i \in up
    /\ up' = up \ {i}
    /\ deactivate_routes(i)
    /\ dirty' \in {dirty, TRUE}

iface_up(i) ==
    /\ Idle
    /\ i \notin up
    /\ up' = up \cup {i}
    /\ activate_routes(i)
    /\ dirty' = TRUE

dijkstra_trigger ==
    /\ dirty' = TRUE
    /\ UNCHANGED <<rtable, up, hw, row, before>>

\* dijkstra_thread: drop the dynamic entries, append the computed ones (any
\* routes: what compute_rtable returns depends on the link-state database).
\* It also runs when it is signalled with the flag already cleared.
dijkstra_thread ==
    /\ Idle
    /\ dirty' = FALSE
    /\ \E n \in 0 .. MAX_DYN : \E f \in [1 .. n -> Routes] :
          LET s == rtable \o [k \in 1 .. n |-> MkEntry(f[k], FALSE)]
              K == {k \in DOMAIN s : k \in DOMAIN rtable => rtable[k].is_static}
          IN  /\ Cardinality(K) <= MAX_TABLE
              /\ trigger_rtable_modified(s, K)
    /\ UNCHANGED up

Next ==
    \/ write_rtable_to_hw
    \/ \E r \in Routes : add_route(r)
    \/ \E r \in Routes : del_route(r.ip, r.mask)
    \/ \E i \in Ifaces : iface_down(i)
    \/ \E i \in Ifaces : iface_up(i)
    \/ dijkstra_trigger
    \/ dijkstra_thread

\* The thread that holds the rtable lock keeps writing rows; the Dijkstra
\* thread wakes up at least once a second and runs if the flag is set.
Fairness == WF_vars(write_rtable_to_hw) /\ WF_vars(dirty /\ dijkstra_thread)

Spec == Init /\ [][Next]_vars /\ Fairness

-----------------------------------------------------------------------------
\* The types of the variables.
TypeOK ==
    /\ rtable \in Seq(Entry)
    /\ up \subseteq Ifaces
    /\ dirty \in BOOLEAN
    /\ hw \in [1 .. ROWS -> Row]
    /\ row \in 0 .. ROWS + 1
    /\ before \in [1 .. ROWS -> Row]

NumActive(s) == Cardinality(ActiveUpTo(s, Len(s)))

(* Once a rewrite is complete (write_rtable_to_hw, or_rtable.c:257),       *)
(* hardware and software route every destination alike: a hit on a real    *)
(* row gives the next hop and port that get_next_hop returns, a hit on a   *)
(* zeroed row happens only where get_next_hop finds nothing, and the TCAM  *)
(* misses only when the table holds at least ROWS active entries.          *)
HwAgreesWithSw ==
    row = ROWS + 1 =>
       \A d \in Addr :
          LET h == lpm_lookup(hw, d)
              s == get_next_hop(rtable, d)
          IN  IF ~h.found THEN NumActive(rtable) >= ROWS
              ELSE IF h.out = NoPort THEN ~s.found
              ELSE h = s

(* A route is out of service only while its interface is down, and only    *)
(* if it is static: no sequence of interface flaps, CLI edits and Dijkstra *)
(* runs leaves a dead route behind on a live interface                     *)
(* (deactivate_routes / activate_routes, or_rtable.c:174-225).             *)
InactiveOnlyWhenDown ==
    \A k \in DOMAIN rtable :
       ~rtable[k].is_active => rtable[k].is_static /\ rtable[k].iface \notin up

RealRows(h) == {i \in 1 .. ROWS : h[i].port # NoPort}

\* The real rows of h2 are rows of h1, in the order they have there.
IsSubImage(h2, h1) ==
    \E f \in [RealRows(h2) -> RealRows(h1)] :
       /\ \A i \in RealRows(h2) : h2[i] = h1[f[i]]
       /\ \A i, j \in RealRows(h2) : i < j => f[i] < f[j]

Routed(answer) == answer.found /\ answer.out # NoPort

(* A rewrite that only withdraws routes drops no packet that has a route   *)
(* left: rewriting the rows of a sorted table from the top (or_rtable.c:267)*)
(* leaves every destination of the new table routed at every moment, by its *)
(* new route or by a matching old one that is at least as specific as any   *)
(* new one, and routes no other destination by anything but an old route.   *)
WithdrawalIsHitless ==
    row \in 1 .. ROWS =>
       LET after == [i \in 1 .. ROWS |-> HwRow(rtable, i)]
       IN  IsSubImage(after, before) =>
              \A d \in Addr :
                 LET now == lpm_lookup(hw, d)
                     new == lpm_lookup(after, d)
                 IN  /\ Routed(new) => Routed(now)
                     /\ Routed(now) =>
                           \/ now = new
                           \/ \E i \in RealRows(before) :
                                 /\ Matches(before[i], d)
                                 /\ now = Hit(before[i], d)
                                 /\ \A k \in RealRows(after) :
                                       Matches(after[k], d) =>
                                          PopCount(after[k].mask) <= PopCount(before[i].mask)

(* The TCAM always gets a complete image again, also from the empty TCAM   *)
(* of a cold start, where init_rtable fills the list but writes no row     *)
(* (or_main.c:496-595): its dijkstra_trigger makes the first rewrite happen.*)
EventuallySynced == []<>(row = ROWS + 1)
=============================================================================
