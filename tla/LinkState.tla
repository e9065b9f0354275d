----------------------------- MODULE LinkState -----------------------------
(***************************************************************************)
(* The interfaces that PWOSPF keeps for each router as advertised          *)
(* (pwospf_router.interface_list) and what or_pwospf.c and or_iface.c do   *)
(* to them.  A subnet stands for an address with its mask.  No list has an *)
(* entry twice, so a list is a set.                                        *)
(***************************************************************************)
EXTENDS Naturals, Sequences, FiniteSets

CONSTANTS
    Routers,    \* router ids
    NoRouter,   \* router id 0: no neighbour on the subnet
    Subnets

Adv == [sub : Subnets, rid : Routers \cup {NoRouter}]

Blank(s) == [sub |-> s, rid |-> NoRouter]
To(s, n) == [sub |-> s, rid |-> n]

\* The advertisements for subnet s.
On(advs, s) == {a \in advs : a.sub = s}

\* A hello came from the new neighbour n on subnet s: a blank interface of
\* that subnet is filled in, else an interface is added.
AddNeighbor(advs, s, n) == (advs \ {Blank(s)}) \cup {To(s, n)}

\* Neighbour n on subnet s has timed out: the only interface of the subnet is
\* blanked, one of several is deleted.
DropNeighbor(advs, s, n) ==
    IF Cardinality(On(advs, s)) = 1
    THEN (advs \ On(advs, s)) \cup {Blank(s)}
    ELSE advs \ {To(s, n)}

\* An interface comes up: it is advertised with no neighbour.
AddSubnet(advs, s) == advs \cup {Blank(s)}

\* An interface goes down: all that is advertised for its subnet is removed.
RemoveSubnet(advs, s) == advs \ On(advs, s)

\* The list after an LSU: new advertisements are added, those that are
\* missing from the LSU removed.
Populate(advs, lsu) == (advs \cap lsu) \cup lsu

\* The return value of populate_pwospf_router_interface_list.
Changed(advs, lsu) == advs = {} \/ advs # lsu

-----------------------------------------------------------------------------
\* Router v, when it is known, advertises a neighbour on subnet s.
Confirms(ifs, v, s) == v \in DOMAIN ifs /\ \E b \in On(ifs[v], s) : b.rid # NoRouter

\* is_active of the advertisement a of the k-th router of rlist, after
\* determine_active_interfaces has gone through the routers in order: the
\* router it names confirms it, or a router further down, whose loop also
\* sets the flag of the other side, names this one.
Active(rlist, ifs, k, a) ==
    /\ a.rid # NoRouter
    /\ \/ Confirms(ifs, a.rid, a.sub)
       \/ \E j \in DOMAIN rlist : j > k /\ To(a.sub, rlist[k]) \in ifs[rlist[j]]
=============================================================================
