------------------------------ MODULE Dijkstra ------------------------------
(***************************************************************************)
(* The shortest-path computation of one SCONE router (or_dijkstra.c) and   *)
(* the changes of the router list that trigger it (or_pwospf.c,            *)
(* or_iface.c).  A route is for a subnet; static routes are in RTable.     *)
(*                                                                         *)
(* An accepted LSU is one step here; which LSUs are accepted is the        *)
(* subject of Pwospf.  prev_router is a pointer that compute_rtable never  *)
(* clears, so it outlives the run that set it and may even outlive the     *)
(* router it points to.                                                    *)
(***************************************************************************)
EXTENDS LinkState, SequencesExt

CONSTANTS
    Us,         \* our router id
    IfList,     \* the sequence of our interfaces
    SubnetOf,   \* the subnet of each interface
    NbrOn,      \* the routers that may be neighbours on each interface
    Lsus,       \* the lists of advertisements each other router may send
    Null,       \* prev_router: NULL
    Freed       \* prev_router: a router that has been removed

Ifaces == ToSet(IfList)
Others == Routers \ {Us}

VARIABLES
    up,         \* interfaces that are active
    nbrs,       \* iface->nbr_routers
    rlist,      \* the order of rs->pwospf_router_list
    ifs,        \* the interface list of each router of the list
    prev,       \* the prev_router pointer of each router of the list
    dirty,      \* rs->dijkstra_dirty
    thread,     \* dijkstra_thread: "waiting" or "locking"
    routes,     \* the dynamic routes
    stale,      \* history: the router list has changed since they were computed
    running     \* FALSE once the process has been aborted

list == <<up, nbrs, rlist, ifs>>
vars == <<up, nbrs, rlist, ifs, prev, dirty, thread, routes, stale, running>>

Init ==
    /\ up = Ifaces /\ nbrs = [i \in Ifaces |-> {}]
    /\ rlist = <<Us>>
    /\ ifs = [r \in {Us} |-> {Blank(SubnetOf[i]) : i \in Ifaces}]
    /\ prev = [r \in {Us} |-> Null]
    /\ dirty = TRUE /\ thread = "waiting" /\ routes = {} /\ stale = TRUE
    /\ running = TRUE

-----------------------------------------------------------------------------
(* compute_rtable.  A state of the search has, for each listed router, its *)
(* distance, whether its shortest path is found, and its prev_router.      *)

Unreached == Cardinality(Routers)       \* 0xFFFFFFFF in the code

Start ==
    [dist  |-> [r \in ToSet(rlist) |-> IF r = Us THEN 0 ELSE Unreached],
     found |-> {},
     prev  |-> prev]

\* The position in rlist of router r.
Pos(r) == CHOOSE k \in DOMAIN rlist : rlist[k] = r

\* The listed routers that router w reaches over an active interface.
Adjacent(w) == {v \in ToSet(rlist) : \E a \in ifs[w] :
                    a.rid = v /\ Active(rlist, ifs, Pos(w), a)}

\* r is nearer than q, or as near and earlier in the list.
Before(s, r, q) ==
    \/ s.dist[r] < s.dist[q]
    \/ s.dist[r] = s.dist[q] /\ Pos(r) < Pos(q)

\* get_shortest: the first of the nearest routers that are not yet found.
Nearest(s) ==
    LET open == {r \in ToSet(rlist) \ s.found : s.dist[r] < Unreached}
    IN  {r \in open : \A q \in open \ {r} : Before(s, r, q)}

\* w is found: update_neighbor_distance.
Relax(s, w) ==
    LET nearer == {v \in Adjacent(w) \ s.found : s.dist[w] + 1 < s.dist[v]}
    IN  [dist  |-> [r \in DOMAIN s.dist |-> IF r \in nearer THEN s.dist[w] + 1 ELSE s.dist[r]],
         found |-> s.found \cup {w},
         prev  |-> [r \in DOMAIN s.prev |-> IF r \in nearer THEN w ELSE s.prev[r]]]

\* The search after n rounds of the loop.
Search ==
    LET round[n \in 0 .. Len(rlist)] ==
            IF n = 0 THEN Start
            ELSE LET s == round[n - 1]
                 IN  IF Nearest(s) = {} THEN s
                     ELSE Relax(s, CHOOSE w \in Nearest(s) : TRUE)
    IN  round[Len(rlist)]

\* Walking down prev_router from r until the next router is at distance 0.
\* any stands for what the model leaves open: what is read through a pointer
\* to a freed router, and which of several advertisements of a subnet is
\* first in the list of a router that was never reached.
FirstHop(s, r, any) ==
    LET walk[n \in 0 .. Len(rlist)] ==
            IF n = 0 THEN r
            ELSE LET c == walk[n - 1]
                 IN  IF c \notin DOMAIN s.prev \/ s.prev[c] = Null THEN c
                     ELSE IF s.prev[c] = Freed THEN any
                     ELSE IF s.dist[s.prev[c]] = 0 THEN c ELSE s.prev[c]
    IN  walk[Len(rlist)]

ReadsFreed(s, r) ==
    LET walk[n \in 0 .. Len(rlist)] ==
            IF n = 0 THEN r
            ELSE LET c == walk[n - 1]
                 IN  IF c \in {Null, Freed} THEN c ELSE s.prev[c]
    IN  walk[Len(rlist)] = Freed

\* Mutant: the last router in the list that advertises the subnet wins.
WrapperLast(s, t) ==
    LET by == {r \in ToSet(rlist) : On(ifs[r], t) # {}}
    IN  CHOOSE r \in by : \A q \in by \ {r} : Pos(r) > Pos(q)

\* build_route_wrapper_list: the router that a route to subnet t leads to is
\* the first of the nearest ones that advertise it, reached or not.
Wrapper(s, t) ==
    LET by == {r \in ToSet(rlist) : On(ifs[r], t) # {}}
    IN  CHOOSE r \in by : \A q \in by \ {r} : Before(s, r, q)

\* The next router of the route to subnet t.
NextRid(s, t, any) ==
    LET r == Wrapper(s, t)
    IN  IF s.prev[r] = Null
        THEN LET rids == {a.rid : a \in On(ifs[r], t)}
             IN  IF any \in rids THEN any ELSE CHOOSE x \in rids : TRUE
        ELSE FirstHop(s, r, any)

\* get_iface_by_rid, else get_iface_by_subnet_mask, else none.
IfaceFor(rid, t) ==
    LET byRid == SelectInSeq(IfList, LAMBDA i : rid \in nbrs[i])
    IN  IF byRid # 0 THEN byRid ELSE SelectInSeq(IfList, LAMBDA i : SubnetOf[i] = t)

Advertised == {a.sub : a \in UNION {ifs[r] : r \in ToSet(rlist)}}

\* The subnets for which a route is made.
Routed(s, any) == {t \in Advertised : IfaceFor(NextRid(s, t, any), t) # 0}

\* The route to subnet t; gw is Null when the subnet is directly connected.
RouteTo(s, t, any) ==
    LET rid == NextRid(s, t, any)
    IN  [sub   |-> t,
         iface |-> IfList[IfaceFor(rid, t)],
         gw    |-> IF Wrapper(s, t) = Us THEN Null ELSE rid]

compute_rtable(s, any) == {RouteTo(s, t, any) : t \in Routed(s, any)}

\* assert(nbr): the gateway is a neighbour on the interface of the route.
AssertNbr(table) == \A e \in table : e.gw # Null => e.gw \in nbrs[e.iface]

-----------------------------------------------------------------------------
\* dijkstra_trigger.  The thread looks at dirty at least once a second, so
\* the signal it also sends changes nothing but the delay.
Trigger == dirty' = TRUE /\ stale' = TRUE

\* The thread is woken, or times out and finds dirty set; it then waits for
\* the locks.
DijkstraWake ==
    /\ running /\ thread = "waiting" /\ dirty
    /\ dirty' = FALSE
    /\ thread' = "locking"
    /\ UNCHANGED <<list, prev, routes, stale, running>>

\* The locked part of the loop of dijkstra_thread.  An assertion that fails,
\* or the use of a freed router, may abort the process.
DijkstraRun ==
    /\ running /\ thread = "locking"
    /\ LET s == Search
       IN  /\ prev' = s.prev
           /\ \E any \in Routers \cup {NoRouter} :
                LET table == compute_rtable(s, any)
                IN  IF AssertNbr(table)
                    THEN routes' = table /\ stale' = FALSE /\ running' = TRUE
                    ELSE running' = FALSE /\ UNCHANGED <<routes, stale>>
    /\ thread' = "waiting"
    /\ UNCHANGED <<list, dirty>>

\* The same run, when it dies of the freed router it reads.
DijkstraCrash ==
    /\ running /\ thread = "locking"
    /\ \E t \in Advertised : ReadsFreed(Search, Wrapper(Search, t))
    /\ running' = FALSE
    /\ UNCHANGED <<list, prev, dirty, thread, routes, stale>>

-----------------------------------------------------------------------------
(* The handlers that change the router list.                               *)

\* process_pwospf_hello_packet, for a neighbour not seen before.
hello(i, n) ==
    /\ running /\ i \in up /\ n \in NbrOn[i] \ nbrs[i]
    /\ nbrs' = [nbrs EXCEPT ![i] = @ \cup {n}]
    /\ ifs' = [ifs EXCEPT ![Us] = AddNeighbor(@, SubnetOf[i], n)]
    /\ Trigger
    /\ UNCHANGED <<up, rlist, prev, thread, routes, running>>

\* A pass of the hello thread that finds the neighbours in gone timed out.
hello_timeout(gone) ==
    /\ running /\ gone # {}
    /\ \A g \in gone : g[1] \in up /\ g[2] \in nbrs[g[1]]
    /\ nbrs' = [i \in Ifaces |-> {n \in nbrs[i] : <<i, n>> \notin gone}]
    /\ ifs' = [ifs EXCEPT ![Us] =
                  FoldSet(LAMBDA g, l : DropNeighbor(l, SubnetOf[g[1]], g[2]), @, gone)]
    /\ Trigger
    /\ UNCHANGED <<up, rlist, prev, thread, routes, running>>

\* process_pwospf_lsu_packet, for an LSU of router q that is accepted.
lsu(q, advs) ==
    /\ running
    /\ IF q \in ToSet(rlist)
       THEN /\ Changed(ifs[q], advs)
            /\ ifs' = [ifs EXCEPT ![q] = Populate(@, advs)]
            /\ UNCHANGED <<rlist, prev>>
       ELSE /\ rlist' = Append(rlist, q)
            /\ ifs' = [r \in ToSet(rlist) \cup {q} |-> IF r = q THEN advs ELSE ifs[r]]
            /\ prev' = [r \in ToSet(rlist) \cup {q} |-> IF r = q THEN Null ELSE prev[r]]
    /\ Trigger
    /\ UNCHANGED <<up, nbrs, thread, routes, running>>

Forget(gone) ==
    LET left == ToSet(rlist) \ gone
    IN  /\ rlist' = SelectSeq(rlist, LAMBDA r : r \in left)
        /\ ifs' = [r \in left |-> ifs[r]]
        /\ prev' = [r \in left |-> IF prev[r] \in gone THEN Freed ELSE prev[r]]

\* Mutant: the routing table is not computed anew.
TimeoutNoTrigger(gone) ==
    /\ running /\ gone # {} /\ gone \subseteq ToSet(rlist) \ {Us}
    /\ Forget(gone)
    /\ stale' = TRUE
    /\ UNCHANGED <<up, nbrs, dirty, thread, routes, running>>

\* A pass of pwospf_lsu_timeout_thread that removes the routers in gone.
lsu_timeout(gone) ==
    /\ running /\ gone # {} /\ gone \subseteq ToSet(rlist) \ {Us}
    /\ Forget(gone)
    /\ Trigger
    /\ UNCHANGED <<up, nbrs, thread, routes, running>>

\* iface_down.  The loop that clears the neighbours never moves on from the
\* node it has just freed, so with a neighbour it does not end, or aborts.
iface_down(i) ==
    /\ running /\ i \in up
    /\ up' = up \ {i}
    /\ routes' = {e \in routes : e.iface # i}
    /\ IF nbrs[i] # {}
       THEN running' = FALSE /\ UNCHANGED <<ifs, dirty, stale>>
       ELSE /\ ifs' = [ifs EXCEPT ![Us] = RemoveSubnet(@, SubnetOf[i])]
            /\ IF ifs' # ifs THEN Trigger ELSE UNCHANGED <<dirty, stale>>
            /\ UNCHANGED running
    /\ UNCHANGED <<nbrs, rlist, prev, thread>>

iface_up(i) ==
    /\ running /\ i \notin up
    /\ up' = up \cup {i}
    /\ ifs' = [ifs EXCEPT ![Us] = AddSubnet(@, SubnetOf[i])]
    /\ Trigger
    /\ UNCHANGED <<nbrs, rlist, prev, thread, routes, running>>

Next ==
    \/ DijkstraWake \/ DijkstraRun \/ DijkstraCrash
    \/ \E i \in Ifaces : iface_down(i) \/ iface_up(i) \/ \E n \in Others : hello(i, n)
    \/ \E gone \in SUBSET (Ifaces \X Others) : hello_timeout(gone)
    \/ \E q \in Others, advs \in UNION {Lsus[r] : r \in Others} :
           advs \in Lsus[q] /\ lsu(q, advs)
    \/ \E gone \in SUBSET Others : lsu_timeout(gone)

Spec == Init /\ [][Next]_vars

-----------------------------------------------------------------------------
Route == [sub : Subnets, iface : Ifaces, gw : Others \cup {Null}]

\* The types of the variables.
TypeOK ==
    /\ up \subseteq Ifaces /\ \A i \in Ifaces : nbrs[i] \subseteq NbrOn[i]
    /\ rlist[1] = Us /\ ToSet(rlist) \subseteq Routers
    /\ Cardinality(ToSet(rlist)) = Len(rlist)
    /\ DOMAIN ifs = ToSet(rlist) /\ \A r \in ToSet(rlist) : ifs[r] \subseteq Adv
    /\ prev \in [ToSet(rlist) -> Routers \cup {Null, Freed}]
    /\ dirty \in BOOLEAN /\ thread \in {"waiting", "locking"}
    /\ routes \subseteq Route /\ stale \in BOOLEAN /\ running \in BOOLEAN

\* Two listed routers that advertise each other on a common subnet.
Linked(r, q) == \E s \in Subnets : To(s, q) \in ifs[r] /\ To(s, r) \in ifs[q]

\* The routers within n hops of r.
Within(r, n) ==
    LET reach[k \in 0 .. n] ==
            IF k = 0 THEN {r}
            ELSE reach[k - 1] \cup {q \in ToSet(rlist) : \E w \in reach[k - 1] : Linked(w, q)}
    IN  reach[n]

\* The routers that advertise subnet t.
Advertisers(t) == {r \in ToSet(rlist) : On(ifs[r], t) # {}}

(* What our router advertises mirrors its neighbour tables, through every  *)
(* order of hellos, time-outs and interface changes: each neighbour of an  *)
(* active interface is advertised, an interface without one is advertised  *)
(* as blank, and an interface that is down not at all                      *)
(* (or_pwospf.c:115-158, 271-325; or_iface.c:317-341, 391-406).            *)
OwnListMirrorsNeighbours ==
    /\ TypeOK
    /\ running => \A i \in Ifaces :
          On(ifs[Us], SubnetOf[i]) =
              IF i \notin up THEN {}
              ELSE IF nbrs[i] = {} THEN {Blank(SubnetOf[i])}
              ELSE {To(SubnetOf[i], n) : n \in nbrs[i]}

(* The routing table that compute_rtable leaves is right for the router    *)
(* list of the moment: a subnet that some router n hops away advertises,   *)
(* and none nearer, has exactly one route; it is direct for n = 0, and     *)
(* else goes to a neighbour that is n - 1 hops from such a router.         *)
RoutesAreShortest ==
    running /\ ~stale =>
        \A t \in Subnets, n \in 0 .. Len(rlist) - 1 :
            /\ Advertisers(t) \cap Within(Us, n) # {}
            /\ n > 0 => Advertisers(t) \cap Within(Us, n - 1) = {}
            => \E e \in routes :
                 /\ {f \in routes : f.sub = t} = {e}
                 /\ IF n = 0 THEN e.gw = Null /\ SubnetOf[e.iface] = t
                    ELSE /\ Linked(Us, e.gw) /\ e.gw \in nbrs[e.iface]
                         /\ Advertisers(t) \cap Within(e.gw, n - 1) # {}

(* The walk down prev_router (or_dijkstra.c:263, 289) ends at our router   *)
(* or at a removed one, and never goes round in a circle, although the     *)
(* pointers were set by different runs.                                    *)
WalksEnd ==
    \A r \in ToSet(rlist) :
        LET walk[n \in 0 .. Len(rlist)] ==
                IF n = 0 THEN r
                ELSE LET c == walk[n - 1]
                     IN  IF c \in {Null, Freed} THEN c ELSE prev[c]
        IN  walk[Len(rlist)] \in {Null, Freed}

(* A routing table that is out of date has a run coming that will see the  *)
(* change, although dirty is cleared before the locks are taken            *)
(* (or_dijkstra.c:414) and set without one (or_dijkstra.c:479, "worst case *)
(* it takes an extra second to run").                                      *)
ChangesAreComputed == stale /\ running => dirty \/ thread = "locking"

(* The assertion of compute_rtable, or_dijkstra.c:142 "assert(nbr)": the   *)
(* next router of a route is a neighbour on the interface of the route.    *)
GatewayIsNeighbour ==
    running /\ thread = "locking" =>
        LET s == Search
        IN  (\A t \in Advertised : ~ReadsFreed(s, Wrapper(s, t)))
                => AssertNbr(compute_rtable(s, NoRouter))
=============================================================================
