------------------------------- MODULE Pwospf -------------------------------
(***************************************************************************)
(* A network of SCONE routers running PWOSPF (or_pwospf.c): hellos find    *)
(* and lose neighbours, link-state updates are flooded, aged and replaced. *)
(*                                                                         *)
(* LSUs of different routers do not meet: a router keeps and forwards each *)
(* by the originator's id.  So the module follows the LSUs of one router,  *)
(* Origin, through the network; another router's LSU matters to it only in *)
(* that it makes Origin flood its own again: propagate_pwospf_changes.     *)
(*                                                                         *)
(* An LSU is in flight from its place in a sender's lsu_queue on.  Time is *)
(* abstract: the guards of the time-outs say what can make the messages    *)
(* they wait for fail to come.                                             *)
(***************************************************************************)
EXTENDS LinkState, FiniteSetsExt

CONSTANTS
    Origin,         \* the router whose LSUs are followed
    Networks,       \* the routers attached to each subnet: possible networks
    LSU_TTL,        \* 64 in the code
    SEQ_RANGE,      \* 2^16 in the code
    LSU_TIMEOUT,    \* LSU intervals after which an entry is dropped: 3
    MAX_EVENTS,     \* bounds for each network: on failures, repairs, restarts
                    \* and losses,
    MAX_IN_FLIGHT   \* and on the LSUs in flight when a flood starts

Others == Routers \ {Origin}

ASSUME PwospfAssumption ==
    /\ Origin \in Routers /\ NoRouter \notin Routers
    /\ Networks \subseteq [Subnets -> SUBSET Routers]
    /\ LSU_TTL \in Nat \ {0} /\ SEQ_RANGE \in Nat \ {0}
    /\ LSU_TIMEOUT \in Nat \ {0}
    /\ {MAX_EVENTS, MAX_IN_FLIGHT} \subseteq [Networks -> Nat]

VARIABLES
    net,        \* the network
    cut,        \* subnets that are out of order
    nbrs,       \* <<subnet, router>> of each router's neighbours
    advs, seq,  \* interface_list and seq of Origin's own entry
    db,         \* each other router's entry for Origin
    missed,     \* LSU intervals since the entry was updated
    msgs,       \* the LSUs of Origin in flight
    events      \* bound: events so far

vars == <<net, cut, nbrs, advs, seq, db, missed, msgs, events>>

NoEntry == [seq |-> 0, advs |-> {}, known |-> FALSE]
Entry(m) == [seq |-> m.seq, advs |-> m.advs, known |-> TRUE]

\* The subnets of router r.
SubnetsOf(r) == {s \in Subnets : r \in net[s]}

\* Origin starts; the other routers know each other.
Init ==
    /\ net \in Networks /\ cut = {}
    /\ nbrs = [r \in Routers |-> IF r = Origin THEN {} ELSE
                 {n \in Subnets \X Others : n[2] # r /\ {r, n[2]} \subseteq net[n[1]]}]
    /\ advs = {Blank(s) : s \in SubnetsOf(Origin)} /\ seq = 0
    /\ db = [r \in Others |-> NoEntry] /\ missed = [r \in Others |-> 0]
    /\ msgs = {} /\ events = 0

\* Something goes wrong, or right: at most MAX_EVENTS[net] times.
Event == events < MAX_EVENTS[net] /\ events' = events + 1

-----------------------------------------------------------------------------
\* broadcast_pwospf_lsu_packet by router r, to all its neighbours but the
\* one the LSU came from.
Broadcast(r, to, lsu) ==
    {[to |-> n[2], sub |-> n[1], from |-> r,
      seq |-> lsu.seq, advs |-> lsu.advs, ttl |-> lsu.ttl] : n \in to}

\* start_lsu_bcast_flood by Origin, which has neighbours to and advertises list.
Flood(to, list) ==
    /\ Cardinality(msgs) <= MAX_IN_FLIGHT[net]
    /\ msgs' = msgs \cup Broadcast(Origin, to, [seq |-> seq, advs |-> list, ttl |-> LSU_TTL])
    /\ seq' = (seq + 1) % SEQ_RANGE

\* process_pwospf_hello_packet: router r hears n for the first time.
hello(r, s, n) ==
    /\ s \notin cut /\ {r, n} \subseteq net[s] /\ r # n /\ <<s, n>> \notin nbrs[r]
    /\ nbrs' = [nbrs EXCEPT ![r] = @ \cup {<<s, n>>}]
    /\ IF r = Origin
       THEN /\ advs' = AddNeighbor(advs, s, n)
            /\ Flood(nbrs'[r], advs')
       ELSE UNCHANGED <<advs, seq, msgs>>
    /\ UNCHANGED <<net, cut, db, missed, events>>

\* broadcast_pwospf_hello_packet: router r finds the neighbours in gone
\* timed out.
Expire(r, gone) ==
    /\ nbrs' = [nbrs EXCEPT ![r] = @ \ gone]
    /\ IF r = Origin
       THEN /\ advs' = FoldSet(LAMBDA g, l : DropNeighbor(l, g[1], g[2]), advs, gone)
            /\ Flood(nbrs'[r], advs')
       ELSE UNCHANGED <<advs, seq, msgs>>

\* Neighbours beyond a broken subnet time out, or one whose hellos were lost.
hello_timeout(r) ==
    /\ \/ \E gone \in SUBSET {n \in nbrs[r] : n[1] \in cut} :
              gone # {} /\ Expire(r, gone) /\ UNCHANGED events
       \/ \E n \in nbrs[r] : n[1] \notin cut /\ Expire(r, {n}) /\ Event
    /\ UNCHANGED <<net, cut, db, missed>>

\* Origin learns of a change elsewhere: another router's LSU differs from the
\* last one, or that router has timed out.
propagate_pwospf_changes ==
    /\ Event
    /\ Flood(nbrs[Origin], advs)
    /\ UNCHANGED <<net, cut, nbrs, advs, db, missed>>

\* pwospf_lsu_thread: Origin has not flooded for an LSU interval.  That is
\* long enough (30 s) for LSUs to arrive, and for Origin to hear a neighbour's
\* hello (5 s) or find that none came (15 s).
lsu_flood ==
    /\ msgs = {}
    /\ nbrs[Origin] = {n \in SubnetsOf(Origin) \X Others : n[1] \notin cut /\ n[2] \in net[n[1]]}
    /\ Flood(nbrs[Origin], advs)
    /\ missed' = [r \in Others |-> IF db[r].known /\ missed[r] < LSU_TIMEOUT
                                   THEN missed[r] + 1 ELSE missed[r]]
    /\ UNCHANGED <<net, cut, nbrs, advs, db, events>>

\* pwospf_lsu_timeout_thread of router r.
lsu_timeout(r) ==
    /\ db[r].known /\ missed[r] = LSU_TIMEOUT
    /\ db' = [db EXCEPT ![r] = NoEntry]
    /\ missed' = [missed EXCEPT ![r] = 0]
    /\ UNCHANGED <<net, cut, nbrs, advs, seq, msgs, events>>

\* Router r has no entry for Origin, or an older one than LSU m.
Newer(r, m) == ~db[r].known \/ m.seq > db[r].seq

\* Mutant: the last hop is not made.
RelayShort(r, m) ==
    {n \in Broadcast(r, nbrs[r] \ {<<m.sub, m.from>>}, [m EXCEPT !.ttl = @ - 1]) :
        Newer(r, m) /\ n.ttl > 1}

\* What router r passes on of LSU m: not to the neighbour it came from.
Relay(r, m) ==
    {n \in Broadcast(r, nbrs[r] \ {<<m.sub, m.from>>}, [m EXCEPT !.ttl = @ - 1]) :
        Newer(r, m) /\ n.ttl > 0}

\* Mutant: an old LSU, too, counts as an update of the entry.
AcceptRefreshes(r, m) ==
    /\ db' = IF Newer(r, m)
             THEN [db EXCEPT ![r] = [Entry(m) EXCEPT !.advs = Populate(db[r].advs, m.advs)]]
             ELSE db
    /\ missed' = [missed EXCEPT ![r] = 0]
    /\ msgs' = (msgs \ {m}) \cup Relay(r, m)

\* What router r, not being Origin, does with LSU m.
Accept(r, m) ==
    /\ IF Newer(r, m)
       THEN /\ db' = [db EXCEPT ![r] = [Entry(m) EXCEPT !.advs = Populate(db[r].advs, m.advs)]]
            /\ missed' = [missed EXCEPT ![r] = 0]
       ELSE UNCHANGED <<db, missed>>
    /\ msgs' = (msgs \ {m}) \cup Relay(r, m)

\* process_pwospf_lsu_packet.  Origin drops its own LSUs.
lsu(m) ==
    /\ m.sub \notin cut
    /\ IF m.to = Origin THEN msgs' = msgs \ {m} /\ UNCHANGED <<db, missed>>
       ELSE Accept(m.to, m)
    /\ UNCHANGED <<net, cut, nbrs, advs, seq, events>>

-----------------------------------------------------------------------------
(* The environment.                                                        *)

\* An LSU is lost: on a broken subnet, or for any other reason.
Lose(m) ==
    /\ msgs' = msgs \ {m}
    /\ IF m.sub \in cut THEN UNCHANGED events ELSE Event
    /\ UNCHANGED <<net, cut, nbrs, advs, seq, db, missed>>

\* A subnet breaks, or works again.
Break(s) == s \notin cut /\ cut' = cut \cup {s} /\ Event
            /\ UNCHANGED <<net, nbrs, advs, seq, db, missed, msgs>>
Repair(s) == s \in cut /\ cut' = cut \ {s} /\ Event
             /\ UNCHANGED <<net, nbrs, advs, seq, db, missed, msgs>>

\* The process of router r is restarted.
Restart(r) ==
    /\ Event
    /\ nbrs' = [nbrs EXCEPT ![r] = {}]
    /\ IF r = Origin
       THEN /\ advs' = {Blank(s) : s \in SubnetsOf(Origin)} /\ seq' = 0
            /\ UNCHANGED <<db, missed>>
       ELSE /\ db' = [db EXCEPT ![r] = NoEntry] /\ missed' = [missed EXCEPT ![r] = 0]
            /\ UNCHANGED <<advs, seq>>
    /\ UNCHANGED <<net, cut, msgs>>

Next ==
    \/ \E r, n \in Routers, s \in Subnets : hello(r, s, n)
    \/ \E r \in Routers : hello_timeout(r) \/ Restart(r)
    \/ propagate_pwospf_changes \/ lsu_flood
    \/ \E r \in Others : lsu_timeout(r)
    \/ \E m \in msgs : lsu(m) \/ Lose(m)
    \/ \E s \in Subnets : Break(s) \/ Repair(s)

\* Hellos, LSUs and the threads make progress; failures need not happen.
Fairness ==
    /\ \A r, n \in Routers, s \in Subnets : WF_vars(hello(r, s, n))
    /\ \A r \in Routers : WF_vars(hello_timeout(r) /\ UNCHANGED events)
    /\ WF_vars(lsu_flood)
    /\ \A r \in Others : WF_vars(lsu_timeout(r))
    /\ WF_vars(\E m \in msgs : lsu(m) \/ (Lose(m) /\ UNCHANGED events))

Spec == Init /\ [][Next]_vars /\ Fairness

-----------------------------------------------------------------------------
Msg == [to : Routers, sub : Subnets, from : Routers, seq : 0 .. SEQ_RANGE - 1,
        advs : SUBSET Adv, ttl : 1 .. LSU_TTL]

\* The types of the variables.
TypeOK ==
    /\ net \in Networks /\ cut \subseteq Subnets
    /\ \A r \in Routers : nbrs[r] \subseteq Subnets \X (Routers \ {r})
    /\ advs \subseteq Adv /\ seq \in 0 .. SEQ_RANGE - 1
    /\ \A r \in Others : /\ db[r].known \in BOOLEAN /\ db[r].seq \in 0 .. SEQ_RANGE - 1
                         /\ db[r].advs \subseteq Adv /\ missed[r] \in 0 .. LSU_TIMEOUT
    /\ msgs \subseteq Msg /\ events \in 0 .. MAX_EVENTS[net]

\* The routers that working subnets connect with Origin.
Connected ==
    LET reach[k \in 0 .. Cardinality(Routers)] ==
            IF k = 0 THEN {Origin}
            ELSE reach[k - 1] \cup
                 UNION {net[s] : s \in {t \in Subnets \ cut : net[t] \cap reach[k - 1] # {}}}
    IN  reach[Cardinality(Routers)]

\* What Origin should advertise: its neighbours, or a subnet without any as blank.
Neighbourhood ==
    UNION {LET here == {n \in nbrs[Origin] : n[1] = s}
           IN  IF here = {} THEN {Blank(s)} ELSE {To(s, n[2]) : n \in here}
           : s \in SubnetsOf(Origin)}

(* Once failures and restarts cease, a connected router's entry for Origin *)
(* comes to be the list of Origin's neighbours, each once and on subnets   *)
(* with several of them too (or_pwospf.c:139-166, 278-325, 671-756), and   *)
(* is never again anything else: it may be missing for a while, when       *)
(* Origin's sequence number has wrapped or started anew and its LSUs are   *)
(* taken for old ones, until the entry times out (or_pwospf.c:374, 1236).  *)
(* The types are checked with it.                                          *)
EntriesSettle ==
    /\ []TypeOK
    /\ <>[](\A r \in Others \cap Connected : db[r].known => db[r].advs = Neighbourhood)

(* And every connected router has that entry again and again.              *)
EntriesReturn ==
    \A r \in Others : []<>(r \in Connected => db[r].known /\ db[r].advs = advs)
=============================================================================
