------------------------------ MODULE MCTables ------------------------------
(***************************************************************************)
(* The tables of the output port lookup and the software that fills them:     *)
(* the CAM with its look-up table, the registers through which SCONE reads    *)
(* and writes it, dijkstra_thread, which computes SCONE's routes, the sort of *)
(* the routing table, and the router kit's daemon.  The models share no       *)
(* state.  In a behaviour one of them, unit, is at work.  The table has its   *)
(* own variables, and v1 to v17 are those of the unit at work if it is        *)
(* another one; the ones it has no use for are 0.                             *)
(***************************************************************************)
EXTENDS CamLut, Integers, Sequences

CONSTANTS
    UNITS,      \* the models that are explored
    Routers, NoRouter, Subnets, Us, IfList, SubnetOf, NbrOn, Lsus, Null, Freed,
    r1, r2, r3, s12, s13, s23, stub, eth0, eth1

VARIABLES unit, v1, v2, v3, v4, v5, v6, v7, v8, v9, v10, v11, v12, v13, v14, v15, v16, v17

After10 == <<v11, v12, v13, v14, v15, v16, v17>>
After9 == <<v10, After10>>
After5 == <<v6, v7, v8, v9, After9>>
mcVars == <<unit, vars, v1, v2, v3, v4, v5, After5>>

(* Two rows in each table, packets on the way, and the threads of one team     *)
(* with the number of passes that each makes.                                  *)
TA(us, n) == INSTANCE TableAccess WITH
        Users <- us, PASSES <- n, ROWS <- 2, LOOKUPS <- TRUE,
        pc <- v1, row <- v2, ver <- v3, got <- v4, seen <- v5, data <- v6, addr <- v7,
        cmd <- v8, istate <- v9, iaddr <- v10, pulse <- v11, mem <- v12, reply <- v13,
        want <- v14, met <- v15, hurt <- v16

Teams == {<<{"rtable", "arp"}, 1>>, <<{"arp", "filter"}, 1>>, <<{"filter"}, 2>>,
          <<{"rtable", "show_rtable"}, 1>>, <<{"rtable", "show_filter"}, 1>>,
          <<{"filter", "show_arp"}, 1>>}

(* Entries with two masks and two addresses, static and dynamic; those with    *)
(* equal keys differ in their interface, which makes stability visible.        *)
SortEntries ==
    {[ip |-> <<1, 0>>, mask |-> m, gw |-> <<0, 0>>, iface |-> f,
      is_active |-> TRUE, is_static |-> st] :
        m \in {<<1, 0>>, <<1, 1>>}, f \in {"eth0", "eth1"}, st \in BOOLEAN}
    \cup {[ip |-> <<1, 1>>, mask |-> <<1, 1>>, gw |-> <<0, 0>>, iface |-> "eth0",
           is_active |-> FALSE, is_static |-> TRUE]}

RS == INSTANCE RTableSort WITH
        W <- 2, Ifaces <- {"eth0", "eth1"}, Entries <- SortEntries, MAX_LEN <- 4,
        list <- v1, cur <- v2, swapped <- v3, done <- v4, orig <- v5

(* A triangle: our router has an interface to each of two others, which are    *)
(* connected to each other; the last one also has a stub network.              *)
DJ == INSTANCE Dijkstra WITH
        up <- v1, nbrs <- v2, rlist <- v3, ifs <- v4, prev <- v5, dirty <- v6,
        thread <- v7, routes <- v8, stale <- v9, running <- v10

TriangleIfs == <<eth0, eth1>>
TriangleSubnet == [i \in {eth0, eth1} |-> IF i = eth0 THEN s12 ELSE s13]
TriangleNbrs == [i \in {eth0, eth1} |-> IF i = eth0 THEN {r2} ELSE {r3}]

To(s, n) == [sub |-> s, rid |-> n]
TriangleLsus == [q \in {r2, r3} |->
    IF q = r2
    THEN {{To(s12, a), To(s23, b)} : a \in {r1, NoRouter}, b \in {r3, NoRouter}}
    ELSE {{To(s13, a), To(s23, b), To(stub, NoRouter)} :
             a \in {r1, NoRouter}, b \in {r2, NoRouter}}]

(* Two entries in each kernel table, one of a device the daemon may not know.   *)
KernelEntries ==
    [rt |-> {[dev |-> "nf0", val |-> "r1"], [dev |-> "nf1", val |-> "r2"]},
     arp |-> {[dev |-> "nf0", val |-> "a1"], [dev |-> "nf1", val |-> "nomac"]},
     if |-> {[dev |-> "nf0", val |-> "i1"], [dev |-> "nf1", val |-> "i2"]}]

RK == INSTANCE RouterKit WITH
        Entries <- KernelEntries, MAX_KERNEL <- 2, DevMaps <- {{"nf0", "nf1"}, {"nf1"}},
        NoMac <- "nomac", OSPF <- "ospf", FIXME_MAX <- 3, MACS <- 2, CHANGES <- 2,
        RESTARTS <- 1,
        kernel <- v1, cur <- v2, copy <- v3, hw <- v4, mac <- v5, devtoport <- v6,
        at <- v7, changes <- v8, restarts <- v9

-----------------------------------------------------------------------------
Unused10 == v11 = 0 /\ v12 = 0 /\ v13 = 0 /\ v14 = 0 /\ v15 = 0 /\ v16 = 0 /\ v17 = 0
Unused5 == v6 = 0 /\ v7 = 0 /\ v8 = 0 /\ v9 = 0 /\ v10 = 0 /\ Unused10

MCInit ==
    /\ unit \in UNITS
    /\ Init
    /\ unit # "cam_lut" => \A r \in Rows : cam[r] = NoKey /\ lut[r] = ResetRow
    /\ \/ /\ unit = "cam_lut" /\ Unused5
          /\ v1 = 0 /\ v2 = 0 /\ v3 = 0 /\ v4 = 0 /\ v5 = 0
       \/ unit = "table_access" /\ \E t \in Teams : v17 = t /\ TA(t[1], t[2])!Init
       \/ unit = "dijkstra" /\ DJ!Init /\ Unused10
       \/ unit = "sort" /\ RS!Init /\ Unused5
       \/ unit = "rkd" /\ RK!Init /\ v10 = 0 /\ Unused10

MCNext ==
    \/ unit = "cam_lut" /\ Next /\ UNCHANGED <<unit, v1, v2, v3, v4, v5, After5>>
    \/ /\ unit = "table_access" /\ \E t \in Teams : v17 = t /\ TA(t[1], t[2])!Next
       /\ UNCHANGED <<unit, vars, v17>>
    \/ unit = "dijkstra" /\ DJ!Next /\ UNCHANGED <<unit, vars, After10>>
    \/ unit = "sort" /\ RS!Next /\ UNCHANGED <<unit, vars, After5>>
    \/ unit = "rkd" /\ RK!Next /\ UNCHANGED <<unit, vars, After9>>

(* The daemon polls for ever.                                                 *)
rkd == unit = "rkd" /\ RK!rkd /\ UNCHANGED <<unit, vars, After9>>

MCSpec == MCInit /\ [][MCNext]_mcVars /\ WF_mcVars(rkd)

-----------------------------------------------------------------------------
(* However the threads' register accesses interleave and packets are looked up     *)
(* meanwhile, a row of a table is the last one written to it and a row printed is   *)
(* the one the table held, except where a thread was disturbed in the middle of a    *)
(* row or the table ignored a request, and until that row is written or read again   *)
(* (or_rtable.c:267-301, or_arp.c, or_iface.c, or_output.c: no lock covers the          *)
(* indirect registers).                                                          *)
DamageIsLocal ==
    unit = "table_access" =>
        \E t \in Teams : v17 = t /\ TA(t[1], t[2])!DamageIsLocal

(* The routes that compute_rtable leaves are right for the router list they were   *)
(* computed from: one route, and a shortest one, to each subnet that can be         *)
(* reached; the walk down prev_router ends; and what our router advertises           *)
(* mirrors its neighbours (or_dijkstra.c:56-160, 263-289; or_pwospf.c:115-158,        *)
(* 271-325; or_iface.c:317-341, 391-406).                                         *)
RoutesAreShortest ==
    unit = "dijkstra" =>
        DJ!RoutesAreShortest /\ DJ!WalksEnd /\ DJ!OwnListMirrorsNeighbours

(* A routing table that is out of date has a run coming that will see the change    *)
(* (or_dijkstra.c:414, 479).                                                     *)
ChangesAreComputed == unit = "dijkstra" => DJ!ChangesAreComputed

(* or_dijkstra.c:142, "assert(nbr)": the next router of a route is a neighbour on   *)
(* the interface of the route.                                                   *)
GatewayIsNeighbour == unit = "dijkstra" => DJ!GatewayIsNeighbour

(* The bubble sort leaves the stable sort of the list, the result that RTable      *)
(* takes trigger_rtable_modified to have (or_rtable.c:230-250).                    *)
SortsStably == unit = "sort" => RS!SortsStably

(* While the daemon rewrites a table, a packet meets rows of the old one or of     *)
(* the new one, never of both (sume_mon.cc:254-262).                              *)
NeverMixesTables ==
    unit = "rkd" => RK!NeverMixesTables /\ RK!HwMirrorsCopy

(* Once the kernel's tables stay as they are, the hardware comes to hold their     *)
(* entries of the known devices, in the kernel's order (rkd.cc:198-223).           *)
EndsInSync == <>[](unit = "rkd" => RK!InSync)
=============================================================================
