------------------------------- MODULE Locks -------------------------------
(***************************************************************************)
(* The threads of SCONE and the locks they take.  A thread runs one of its    *)
(* programs again and again; a program is the sequence of the locks taken and  *)
(* released and of the shared data read and written on one path through the   *)
(* code.  What the data holds is modelled elsewhere: the path is chosen here.  *)
(*                                                                           *)
(* rwlocks are those of the C library: a reader waits only for a writer that   *)
(* is in, and a thread that has the lock for writing gets an error, on which   *)
(* the code goes on (or_arp.c:511-514).  A mutex is a lock that is only taken  *)
(* for writing.  A command that answers its client calls the transport        *)
(* thread, which takes locks of its own to send the answer, and waits for it  *)
(* (lwip_send).                                                              *)
(*                                                                           *)
(* Two returns leave locks locked: process_pwospf_hello_packet's when the      *)
(* masks differ (or_pwospf.c:95-98) and send_ip_packet's when there is no      *)
(* route (or_ip.c:311-314).                                                  *)
(*                                                                           *)
(* The mutex of the packet log, under which no other lock is taken, is left   *)
(* out, and so is that of the NAT table: no command changes it                *)
(* (or_main.c:712-721) and no packet uses it, as is_wan is 0 (or_main.c:359). *)
(***************************************************************************)
EXTENDS Integers, Sequences, FiniteSets, SequencesExt

CONSTANT
    CREW            \* bound: how many threads are active in a behaviour

ASSUME LocksAssumption == CREW \in Nat

VARIABLES
    crew,           \* the threads that are active
    prog,           \* thread -> the program it runs, "idle" for none
    pos,            \* thread -> the steps it has done
    held,           \* thread -> set of <<"rd" or "wr", lock>>, of its program
    kept,           \* thread -> such a set, left by earlier programs
    serving         \* the caller the transport thread works for

locksVars == <<crew, prog, pos, held, kept, serving>>

RwLocks == {"arp_cache", "arp_queue", "if_list", "rtable"}

Rd(l) == <<<<"rd", l>>>>
Wr(l) == <<<<"wr", l>>>>
Un(ls) == <<<<"un", ls>>>>     \* released in a row
Get(d) == <<<<"get", d>>>>
Put(d) == <<<<"put", d>>>>
Call == <<<<"call", "transport">>>>

-----------------------------------------------------------------------------
(* Sending.  A packet goes out, or on the ARP queue.                         *)
send_packet == Wr("write") \o Un({"write"})
send_ip(hit) == Get("arp_cache") \o IF hit THEN send_packet ELSE Put("arp_queue")

(* The four locks of an IP packet.                                           *)
Enter == Rd("arp_cache") \o Wr("arp_queue") \o Rd("if_list") \o Rd("rtable")
Leave == Un({"rtable", "if_list", "arp_queue", "arp_cache"})

send_ip_packet(hit) == Enter \o Get("rtable") \o send_ip(hit) \o Leave
send_ip_packet_no_route == Enter \o Get("rtable")
find_srcip == Rd("if_list") \o Rd("rtable") \o Get("rtable") \o Un({"rtable", "if_list"})

-----------------------------------------------------------------------------
(* The packet thread.                                                        *)
iface_is_active == Rd("if_list") \o Get("if_list") \o Un({"if_list"})
Received(handler) == iface_is_active \o handler

process_ip_packet(hit) == Enter \o Get("rtable") \o send_ip(hit) \o Leave

(* broadcast_pwospf_lsu_packet, for one neighbour.                           *)
broadcast_pwospf_lsu_packet ==
    Get("if_list") \o Wr("lsu_queue") \o Put("lsu_queue") \o Un({"lsu_queue"})

start_lsu_bcast_flood == Get("router_list") \o broadcast_pwospf_lsu_packet
propagate_pwospf_changes == Put("router_list") \o start_lsu_bcast_flood

\* Mutant: the routing table stays locked for reading.
Relock_kept == Un({"if_list"}) \o Wr("if_list")

Relock == Un({"rtable", "if_list"}) \o Wr("if_list") \o Rd("rtable")

process_pwospf_hello_packet ==
    Enter \o Relock \o Wr("router_list") \o Put("if_list") \o Put("router_list")
      \o propagate_pwospf_changes \o Un({"router_list"}) \o Leave

(* The masks differ: return, and process_ip_packet releases its four.         *)
process_pwospf_hello_packet_mask == Enter \o Relock \o Wr("router_list") \o Leave

process_pwospf_lsu_packet ==
    Enter \o Un({"rtable"}) \o Wr("rtable") \o Wr("router_list") \o Put("router_list")
      \o broadcast_pwospf_lsu_packet \o propagate_pwospf_changes
      \o Un({"router_list"}) \o Leave

process_arp_request == Rd("if_list") \o Get("if_list") \o send_packet \o Un({"if_list"})

SendQueued ==
    Rd("arp_cache") \o Wr("arp_queue") \o Put("arp_queue") \o send_packet
      \o Un({"arp_queue", "arp_cache"})

\* Mutant: the cache is locked for reading.
process_arp_reply_shared ==
    Rd("arp_cache") \o Put("arp_cache") \o Un({"arp_cache"}) \o SendQueued

process_arp_reply ==
    Wr("arp_cache") \o Put("arp_cache") \o Un({"arp_cache"}) \o SendQueued

-----------------------------------------------------------------------------
(* The other threads of the router, one round each.                          *)
arp_thread ==
    Wr("arp_cache") \o Put("arp_cache") \o Un({"arp_cache"})
      \o Enter \o Put("arp_queue") \o send_packet \o Leave

broadcast_pwospf_hello_packet ==
    send_packet \o Wr("router_list") \o Put("if_list") \o Put("router_list")
      \o Un({"router_list"}) \o Wr("router_list") \o propagate_pwospf_changes
      \o Un({"router_list"})

pwospf_hello_thread == Wr("if_list") \o broadcast_pwospf_hello_packet \o Un({"if_list"})

(* our_router is used after the lock is released.                            *)
pwospf_lsu_thread ==
    Wr("router_list") \o Un({"router_list"}) \o Get("router_list")
      \o Wr("router_list") \o start_lsu_bcast_flood \o Un({"router_list"})

pwospf_lsu_timeout_thread ==
    Wr("router_list") \o Put("router_list") \o propagate_pwospf_changes \o Un({"router_list"})

pwospf_lsu_bcast_thread(hit) ==
    Wr("lsu_queue") \o Put("lsu_queue") \o Un({"lsu_queue"})
      \o Enter \o Get("rtable") \o send_ip(hit) \o Leave

dijkstra_thread ==
    Rd("if_list") \o Wr("rtable") \o Wr("router_list") \o Get("router_list")
      \o Get("if_list") \o Put("rtable")
      \o Un({"router_list", "rtable", "if_list"})

netfpga_stats == Wr("stats") \o Put("stats") \o Un({"stats"})

-----------------------------------------------------------------------------
(* The commands.                                                             *)
Show(l) == Rd(l) \o Get(l) \o Un({l}) \o Call
Change(l) == Wr(l) \o Put(l) \o Un({l}) \o Call

(* iface_up and iface_down change our_router before they lock its list.       *)
cli_ip_interface ==
    Wr("if_list") \o Wr("rtable") \o Put("if_list") \o Put("rtable") \o Put("router_list")
      \o Wr("router_list") \o propagate_pwospf_changes \o Un({"router_list"})
      \o Un({"rtable", "if_list"}) \o Call

cli_pwospf_send_hello ==
    Wr("if_list") \o broadcast_pwospf_hello_packet \o Un({"if_list"}) \o Call

cli_pwospf_send_lsu ==
    Wr("router_list") \o start_lsu_bcast_flood \o Un({"router_list"}) \o Call

cli_show_pwospf_info ==
    Wr("router_list") \o Get("router_list") \o Un({"router_list"}) \o Call \o Show("if_list")

(* cli_sping: no lock at all until the reply is waited for.                   *)
send_icmp_echo_request_packet(hit) == Get("rtable") \o Get("if_list") \o send_ip(hit)

sprint_hw_stats == Wr("stats") \o Get("stats") \o Un({"stats"}) \o Call

-----------------------------------------------------------------------------
PacketPrograms ==
    "ip_sent" :> Received(process_ip_packet(TRUE))
    @@ "ip_queued" :> Received(process_ip_packet(FALSE))
    @@ "hello" :> Received(process_pwospf_hello_packet)
    @@ "hello_mask" :> Received(process_pwospf_hello_packet_mask)
    @@ "lsu" :> Received(process_pwospf_lsu_packet)
    @@ "arp_request" :> Received(process_arp_request)
    @@ "arp_reply" :> Received(process_arp_reply)

CliPrograms ==
    "interface" :> cli_ip_interface @@ "ip" :> Change("if_list")
    @@ "route" :> Change("rtable") @@ "arp" :> Change("arp_cache")
    @@ "send_hello" :> cli_pwospf_send_hello @@ "send_lsu" :> cli_pwospf_send_lsu
    @@ "show_iface" :> Show("if_list") @@ "show_route" :> Show("rtable")
    @@ "show_arp" :> Show("arp_cache") @@ "show_pwospf" :> cli_show_pwospf_info
    @@ "show_stats" :> sprint_hw_stats
    @@ "sping" :> send_icmp_echo_request_packet(FALSE)

TransportPrograms ==
    "send" :> send_ip_packet(TRUE) @@ "send_queued" :> send_ip_packet(FALSE)
    @@ "send_ip_packet_no_route" :> send_ip_packet_no_route
    @@ "find_srcip" :> find_srcip

Background ==
    "arp_thread" :> arp_thread @@ "hello_thread" :> pwospf_hello_thread
    @@ "lsu_thread" :> pwospf_lsu_thread @@ "timeout_thread" :> pwospf_lsu_timeout_thread
    @@ "bcast_thread" :> pwospf_lsu_bcast_thread(FALSE) @@ "dijkstra" :> dijkstra_thread
    @@ "stats" :> netfpga_stats

(* A release never waits: it is done in the step that comes before it, and a   *)
(* step is <<kind, lock or data, locks released>>.                            *)
WithReleases(steps) ==
    FoldLeft(LAMBDA done, s : IF s[1] = "un"
                              THEN [done EXCEPT ![Len(done)][3] = @ \cup s[2]]
                              ELSE Append(done, <<s[1], s[2], {}>>), <<>>, steps)

Program ==
    LET all == PacketPrograms @@ CliPrograms @@ TransportPrograms @@ Background
    IN  [p \in DOMAIN all |-> WithReleases(all[p])]

Threads == {"packet", "cli", "cli2", "transport"} \cup DOMAIN Background

Runs(t) ==
    CASE t = "packet" -> DOMAIN PacketPrograms
      [] t \in {"cli", "cli2"} -> DOMAIN CliPrograms
      [] t = "transport" -> DOMAIN TransportPrograms
      [] OTHER -> {t}

-----------------------------------------------------------------------------
LocksInit ==
    /\ crew \in {c \in SUBSET Threads : Cardinality(c) = CREW}
    /\ "cli2" \in crew => "cli" \in crew
    /\ prog = [t \in Threads |-> "idle"] /\ pos = [t \in Threads |-> 0]
    /\ held = [t \in Threads |-> {}] /\ kept = [t \in Threads |-> {}]
    /\ serving = "nobody"

Op(t) == Program[prog[t]][pos[t] + 1]
At(t, kinds) == prog[t] # "idle" /\ Op(t)[1] \in kinds

(* The threads with a lock among locks that keeps t from its next step.       *)
Blocks(locks, t) ==
    LET mode == Op(t)[1]
        l == Op(t)[2]
    IN  {u \in crew : /\ <<"wr", l>> \in locks[u] \/ (mode = "wr" /\ <<"rd", l>> \in locks[u])
                      /\ ~(u = t /\ l \in RwLocks /\ <<"wr", l>> \in locks[t])}

(* The threads that t waits for until they go on.                            *)
WaitsFor(t) ==
    IF At(t, {"rd", "wr"}) THEN Blocks(held, t)
    ELSE IF At(t, {"call"}) THEN {"transport"} \cap crew
    ELSE {}

Waits(t) == WaitsFor(t) # {} \/ (At(t, {"rd", "wr"}) /\ Blocks(kept, t) # {})

(* The threads ts are done with their step, and with their program if that was *)
(* the last one.  Releasing a lock for writing releases it for good; of one    *)
(* for reading, which a thread may have several times, as often as it took it. *)
Ends(t) == pos[t] + 1 = Len(Program[prog[t]])

Advanced(ts) ==
    LET Taken(t) == IF At(t, {"rd", "wr"}) THEN {<<Op(t)[1], Op(t)[2]>>} ELSE {}
        Left(t) == {h \in held[t] \cup Taken(t) : h[2] \notin Op(t)[3]}
        Over(t) == {h \in kept[t] : h[1] = "rd" \/ h[2] \notin Op(t)[3]}
    IN  /\ pos' = [t \in Threads |-> IF t \notin ts THEN pos[t]
                                     ELSE IF Ends(t) THEN 0 ELSE pos[t] + 1]
        /\ prog' = [t \in Threads |-> IF t \in ts /\ Ends(t) THEN "idle" ELSE prog[t]]
        /\ held' = [t \in Threads |-> IF t \notin ts THEN held[t]
                                      ELSE IF Ends(t) THEN {} ELSE Left(t)]
        /\ kept' = [t \in Threads |-> IF t \notin ts THEN kept[t]
                                      ELSE Over(t) \cup IF Ends(t) THEN Left(t) ELSE {}]

Start(t) ==
    /\ prog[t] = "idle"
    /\ \E p \in Runs(t) : prog' = [prog EXCEPT ![t] = p]
    /\ IF t = "transport"
       THEN serving' \in {"nobody"} \cup {u \in crew : At(u, {"call"})}
       ELSE UNCHANGED serving
    /\ UNCHANGED <<crew, pos, held, kept>>

(* At its end the transport thread answers the caller it worked for.          *)
Step(t) ==
    /\ prog[t] # "idle" /\ ~Waits(t)
    /\ LET answers == t = "transport" /\ serving # "nobody" /\ Ends(t)
       IN  /\ Advanced(IF answers THEN {t, serving} ELSE {t})
           /\ serving' = IF answers THEN "nobody" ELSE serving
    /\ UNCHANGED crew

LocksNext == \E t \in crew : Start(t) \/ Step(t)

LocksSpec == LocksInit /\ [][LocksNext]_locksVars

-----------------------------------------------------------------------------
(* Threads of which each waits for another one of them.                       *)
Deadlocked(ts) == ts # {} /\ \A t \in ts : WaitsFor(t) \cap ts # {}

(* No threads of the router wait for each other, each for one that would go on  *)
(* to release the lock, or to answer, if it did not wait itself: the order of    *)
(* the locks is kept even by the handlers that release some of them to take       *)
(* them again (or_pwospf.c:87-91, 363-365), and no command calls the transport    *)
(* thread with a lock that it needs (or_ip.c:292-295).  Not so for the locks that  *)
(* the two early returns have left locked: who needs one waits for ever.           *)
NoDeadlock ==
    LET waiting == {t \in crew : WaitsFor(t) # {}}
    IN  \A ts \in SUBSET waiting : ~Deadlocked(ts)

(* Two threads are about to use the same data, and one writes it.              *)
Race(t, u) ==
    /\ t # u /\ At(t, {"get", "put"}) /\ At(u, {"get", "put"})
    /\ Op(t)[2] = Op(u)[2] /\ "put" \in {Op(t)[1], Op(u)[1]}

(* The ARP cache and queue, the routing table, the LSU queue and the             *)
(* counters are never used by two threads at once with one writing, except for   *)
(* sping, whose request is sent without a lock (or_icmp.c:182-236).               *)
TablesAreGuarded ==
    \A t, u \in crew :
        Race(t, u) => \/ Op(t)[2] \in {"if_list", "router_list"}
                     \/ "sping" \in {prog[t], prog[u]}

(* The packet thread holds no lock once it is done with a packet: "unlocking of   *)
(* the above will be automatically performed in process ip packet"                *)
(* (or_pwospf.c:182).                                                           *)
LocksReleased == kept["packet"] = {}
=============================================================================
