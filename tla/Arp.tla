-------------------------------- MODULE Arp --------------------------------
(***************************************************************************)
(* or_arp.c: the ARP cache with its copy in the hardware CAM, and the      *)
(* queue of packets that wait for a next hop's MAC address.                *)
(*                                                                         *)
(* Steps are the critical sections of the code.  process_arp_reply takes   *)
(* the cache lock, releases it, and takes it again with the queue lock: it *)
(* is two steps, and window holds the reply between them.  arp_thread      *)
(* expires the cache in one step and then walks the queue, a step for each *)
(* entry and each packet, with the locks of cache and queue in hand.       *)
(*                                                                         *)
(* A packet record carries the hop its ICMP error would be sent to (None   *)
(* when process_arp_queue sends none).  Time advances by whole seconds     *)
(* while arp_thread sleeps: a round of it, and the handling of a reply,    *)
(* take less than one.                                                     *)
(***************************************************************************)
EXTENDS Naturals, Sequences, FiniteSets, Functions

CONSTANTS
    Ids,            \* packets
    Ips, Macs,
    None,
    CAM_WIDTH,      \* NFPLUS_OUTPUT_PORT_LOOKUP_0_MEM_IP_ARP_CAM_WIDTH
    MAX_REQUESTS,   \* ARP requests before giving up (5)
    TTLs            \* values of arp_ttl in seconds; the least is the first

ASSUME ArpAssumption ==
    /\ None \notin Ips /\ None \notin Macs
    /\ CAM_WIDTH \in Nat \ {0} /\ MAX_REQUESTS \in Nat \ {0}
    /\ TTLs \subseteq Nat /\ \E t \in TTLs : \A s \in TTLs : s <= t

VARIABLES
    arp_cache,  \* sequence of [ip, mac, static, age]
    hw,         \* the CAM: rows of [ip, mac], or None
    arp_queue,  \* sequence of [ip, requests, since, packets]
    owed,       \* history: packets accepted and not yet sent or given up
    arp_ttl,
    turn,       \* arp_thread: "expire", "queue", "walk" or "sleep"
    pos,        \* process_arp_queue: index of the entry it looks at
    window,     \* the ip of the reply being handled, or None
    spinning    \* send_queued_packets does not terminate

vars == <<arp_cache, hw, arp_queue, owed, arp_ttl, turn, pos, window, spinning>>

MaxTTL == CHOOSE t \in TTLs : \A s \in TTLs : s <= t
Packet == [id : Ids, err : BOOLEAN, back : Ips \cup {None}]

-----------------------------------------------------------------------------
\* The locks of cache and queue are held across steps.
Locked == spinning \/ turn = "walk"

\* The list s after node_remove of the entries not at the indices K.
Keep(s, K) ==
    [i \in 1 .. Cardinality(K) |->
       s[CHOOSE k \in K : Cardinality({j \in K : j < k}) = i - 1]]

InCache(ip) == \E k \in DOMAIN arp_cache : arp_cache[k].ip = ip

\* The rows write_arp_cache_to_hw writes: static entries first.
write_arp_cache_to_hw(cache) ==
    LET ordered == Keep(cache, {k \in DOMAIN cache : cache[k].static})
                     \o Keep(cache, {k \in DOMAIN cache : ~cache[k].static})
    IN  [r \in 1 .. CAM_WIDTH |->
           IF r <= Len(ordered) THEN [ip |-> ordered[r].ip, mac |-> ordered[r].mac]
           ELSE None]

update_arp_cache(ip, mac, static) ==
    LET e == [ip |-> ip, mac |-> mac, static |-> static, age |-> 0]
    IN  /\ arp_cache' = IF InCache(ip)
                        THEN [k \in DOMAIN arp_cache |->
                                IF arp_cache[k].ip = ip THEN e ELSE arp_cache[k]]
                        ELSE Append(arp_cache, e)
        /\ hw' = write_arp_cache_to_hw(arp_cache')

\* The queue with packet p added for next hop ip; a new entry's first
\* request is sent at once.
arp_queue_add(q, p, ip) ==
    IF \E k \in DOMAIN q : q[k].ip = ip
    THEN [k \in DOMAIN q |-> IF q[k].ip = ip
                             THEN [q[k] EXCEPT !.packets = Append(@, p)] ELSE q[k]]
    ELSE Append(q, [ip |-> ip, requests |-> 1, since |-> 0, packets |-> <<p>>])

-----------------------------------------------------------------------------
Init ==
    /\ arp_cache = <<>> /\ hw = [r \in 1 .. CAM_WIDTH |-> None]
    /\ arp_queue = <<>> /\ owed = {}
    /\ arp_ttl = CHOOSE t \in TTLs : \A s \in TTLs : t <= s
    /\ turn = "expire" /\ pos = 1 /\ window = None /\ spinning = FALSE

\* send_ip, called with the cache and queue locks: the packet goes out when
\* the next hop is in the cache, and waits otherwise.
send_ip(p, ip) ==
    /\ ~Locked /\ \A o \in owed : o.id # p.id
    /\ IF InCache(ip) THEN UNCHANGED <<arp_queue, owed>>
       ELSE /\ arp_queue' = arp_queue_add(arp_queue, p, ip)
            /\ owed' = owed \cup {p}
    /\ UNCHANGED <<arp_cache, hw, arp_ttl, turn, pos, window, spinning>>

process_arp_reply(ip, mac) ==
    /\ ~Locked /\ window = None
    /\ update_arp_cache(ip, mac, FALSE)
    /\ window' = ip
    /\ UNCHANGED <<arp_queue, owed, arp_ttl, turn, pos, spinning>>

\* The queue entries that the reply in the window answers.
Answered == {k \in DOMAIN arp_queue : arp_queue[k].ip = window}

\* Mutant: only the first waiting packet is sent.
FlushFirstOnly ==
    /\ window # None /\ ~Locked
    /\ owed' = owed \ {Head(arp_queue[k].packets) : k \in Answered}
    /\ arp_queue' = Keep(arp_queue, DOMAIN arp_queue \ Answered)
    /\ window' = None
    /\ UNCHANGED <<arp_cache, hw, arp_ttl, turn, pos, spinning>>

\* Second half of process_arp_reply.  When the entry has left the cache in
\* the meantime, send_ip puts each packet back on the list being walked: a
\* single packet is lost with the freed entry, with two the walk never ends.
send_queued_packets ==
    /\ window # None /\ ~Locked
    /\ owed' = owed \ UNION {Range(arp_queue[k].packets) : k \in Answered}
    /\ arp_queue' = Keep(arp_queue, DOMAIN arp_queue \ Answered)
    /\ spinning' = (~InCache(window) /\ \E k \in Answered : Len(arp_queue[k].packets) > 1)
    /\ window' = None
    /\ UNCHANGED <<arp_cache, hw, arp_ttl, turn, pos>>

Fresh == {k \in DOMAIN arp_cache : arp_cache[k].static \/ arp_cache[k].age <= arp_ttl}

\* Mutant: the hardware copy is not refreshed.
ExpireForgetsHw ==
    /\ turn = "expire" /\ ~Locked
    /\ arp_cache' = Keep(arp_cache, Fresh)
    /\ turn' = "queue"
    /\ UNCHANGED <<hw, arp_queue, owed, arp_ttl, pos, window, spinning>>

expire_arp_cache ==
    /\ turn = "expire" /\ ~Locked
    /\ arp_cache' = Keep(arp_cache, Fresh)
    /\ hw' = IF Fresh # DOMAIN arp_cache THEN write_arp_cache_to_hw(arp_cache') ELSE hw
    /\ turn' = "queue"
    /\ UNCHANGED <<arp_queue, owed, arp_ttl, pos, window, spinning>>

\* Mutant: the request is repeated but not counted.
RequestUncounted ==
    /\ arp_queue[pos].since > 1 /\ arp_queue[pos].requests < MAX_REQUESTS
    /\ arp_queue' = [arp_queue EXCEPT ![pos].since = 0]
    /\ pos' = pos + 1
    /\ UNCHANGED owed

RequestAgain ==
    /\ arp_queue[pos].since > 1 /\ arp_queue[pos].requests < MAX_REQUESTS
    /\ arp_queue' = [arp_queue EXCEPT ![pos].requests = @ + 1, ![pos].since = 0]
    /\ pos' = pos + 1
    /\ UNCHANGED owed

\* The entry is given up.  Its first packet leaves it; the ICMP error for the
\* packet goes out, or waits for a next hop of its own, perhaps in this entry,
\* where the walk reaches it and gives it up with the rest.
ReturnToSender ==
    /\ arp_queue[pos].since > 1 /\ arp_queue[pos].requests >= MAX_REQUESTS
    /\ arp_queue[pos].packets # <<>>
    /\ LET p     == Head(arp_queue[pos].packets)
           error == [id |-> p.id, err |-> TRUE, back |-> None]
           rest  == [arp_queue EXCEPT ![pos].packets = Tail(@)]
       IN  IF p.back = None \/ InCache(p.back)
           THEN arp_queue' = rest /\ owed' = owed \ {p}
           ELSE /\ arp_queue' = arp_queue_add(rest, error, p.back)
                /\ owed' = (owed \ {p}) \cup {error}
    /\ UNCHANGED pos

FreeEntry ==
    /\ arp_queue[pos].packets = <<>>
    /\ arp_queue' = Keep(arp_queue, DOMAIN arp_queue \ {pos})
    /\ UNCHANGED <<owed, pos>>

\* The loop of process_arp_queue: nothing within a second of the last request,
\* another request, or the packets are returned to sender and the entry freed.
process_arp_queue ==
    /\ ~spinning
    /\ \/ turn = "queue" /\ turn' = "walk" /\ pos' = 1 /\ UNCHANGED <<arp_queue, owed>>
       \/ /\ turn = "walk" /\ pos <= Len(arp_queue)
          /\ \/ arp_queue[pos].since <= 1 /\ pos' = pos + 1 /\ UNCHANGED <<arp_queue, owed>>
             \/ RequestAgain \/ ReturnToSender \/ FreeEntry
          /\ UNCHANGED turn
       \/ /\ turn = "walk" /\ pos > Len(arp_queue)
          /\ turn' = "sleep" /\ pos' = 1 /\ UNCHANGED <<arp_queue, owed>>
    /\ UNCHANGED <<arp_cache, hw, arp_ttl, window, spinning>>

\* A second passes and arp_thread wakes up (ages stop where they no longer
\* matter).
Tick ==
    /\ turn = "sleep" /\ window = None /\ ~Locked
    /\ turn' = "expire"
    /\ arp_cache' = [k \in DOMAIN arp_cache |->
          [arp_cache[k] EXCEPT !.age = IF arp_cache[k].static \/ @ > MaxTTL THEN @ ELSE @ + 1]]
    /\ arp_queue' = [k \in DOMAIN arp_queue |->
          [arp_queue[k] EXCEPT !.since = IF @ > 1 THEN @ ELSE @ + 1]]
    /\ UNCHANGED <<hw, owed, arp_ttl, pos, window, spinning>>

cli_ip_arp_add(ip, mac) ==
    /\ ~Locked
    /\ update_arp_cache(ip, mac, TRUE)
    /\ UNCHANGED <<arp_queue, owed, arp_ttl, turn, pos, window, spinning>>

cli_ip_arp_del(ip) ==
    /\ ~Locked
    /\ arp_cache' = Keep(arp_cache, {k \in DOMAIN arp_cache : arp_cache[k].ip # ip})
    /\ hw' = IF InCache(ip) THEN write_arp_cache_to_hw(arp_cache') ELSE hw
    /\ UNCHANGED <<arp_queue, owed, arp_ttl, turn, pos, window, spinning>>

cli_nuke_arp_cache ==
    /\ ~Locked
    /\ arp_cache' = <<>> /\ hw' = write_arp_cache_to_hw(<<>>)
    /\ UNCHANGED <<arp_queue, owed, arp_ttl, turn, pos, window, spinning>>

\* Zeroes a hardware row, and leaves the software cache as it is.
cli_nuke_hw_arp_cache_entry(r) ==
    /\ hw' = [hw EXCEPT ![r] = None]
    /\ UNCHANGED <<arp_cache, arp_queue, owed, arp_ttl, turn, pos, window, spinning>>

cli_ip_arp_set_ttl(t) ==
    /\ arp_ttl' = t
    /\ UNCHANGED <<arp_cache, hw, arp_queue, owed, turn, pos, window, spinning>>

arp_thread == expire_arp_cache \/ process_arp_queue

cli ==
    \/ \E ip \in Ips, mac \in Macs : cli_ip_arp_add(ip, mac)
    \/ \E ip \in Ips : cli_ip_arp_del(ip)
    \/ cli_nuke_arp_cache
    \/ \E r \in 1 .. CAM_WIDTH : cli_nuke_hw_arp_cache_entry(r)
    \/ \E t \in TTLs : cli_ip_arp_set_ttl(t)

Next ==
    \/ \E p \in Packet, ip \in Ips : ~p.err /\ send_ip(p, ip)
    \/ \E ip \in Ips, mac \in Macs : process_arp_reply(ip, mac)
    \/ send_queued_packets
    \/ arp_thread \/ Tick
    \/ cli

(* The reply handler and arp_thread run whenever they can.  Time passes    *)
(* however many replies arrive (strong fairness, since Tick waits for the  *)
(* window to close).  Nobody has to answer an ARP request.                 *)
Fairness == WF_vars(send_queued_packets) /\ WF_vars(arp_thread) /\ SF_vars(Tick)
Spec == Init /\ [][Next]_vars /\ Fairness

-----------------------------------------------------------------------------
(* Types, one cache entry and one queue entry per address, no more than    *)
(* MAX_REQUESTS requests for an address ("have we sent less than 5 arp     *)
(* requests?", process_arp_queue), and a packet in every queue entry but   *)
(* the one being given up.                                                 *)
TypeOK ==
    /\ arp_cache \in Seq([ip : Ips, mac : Macs, static : BOOLEAN, age : 0 .. MaxTTL + 1])
    /\ arp_queue \in Seq([ip : Ips, requests : 1 .. MAX_REQUESTS, since : 0 .. 2,
                          packets : Seq(Packet)])
    /\ \A k \in DOMAIN arp_queue :
          arp_queue[k].packets # <<>> \/ (turn = "walk" /\ k = pos)
    /\ \A j, k \in DOMAIN arp_cache : arp_cache[j].ip = arp_cache[k].ip => j = k
    /\ \A j, k \in DOMAIN arp_queue : arp_queue[j].ip = arp_queue[k].ip => j = k
    /\ owed \subseteq Packet /\ turn \in {"expire", "queue", "walk", "sleep"}
    /\ pos \in 1 .. Len(arp_queue) + 1

(* Every packet taken over for sending is waiting, in one place, until it  *)
(* has been sent or given up: or_main.c:805, "arp queue add adds the       *)
(* packet to the queue, will free later".  (Those that a deletion of the   *)
(* address between the halves of process_arp_reply loses, or_arp.c:179,    *)
(* are not counted.)  And it does not wait for an address the router has   *)
(* learnt from the network, once the handler of the reply is done; a       *)
(* static entry does not release the queue.                                *)
NoPacketLost ==
    /\ TypeOK
    /\ owed = UNION {Range(arp_queue[k].packets) : k \in DOMAIN arp_queue}
    /\ \A k, l \in DOMAIN arp_queue :
          \A i \in DOMAIN arp_queue[k].packets, j \in DOMAIN arp_queue[l].packets :
             arp_queue[k].packets[i] = arp_queue[l].packets[j] => k = l /\ i = j
    /\ \A k \in DOMAIN arp_cache, j \in DOMAIN arp_queue :
          arp_cache[k].ip = arp_queue[j].ip =>
             arp_cache[k].static \/ window = arp_cache[k].ip

(* The hardware sends to no MAC address that the software has withdrawn or *)
(* replaced: every CAM row is an entry of the cache.  A dynamic entry      *)
(* takes no row from a static one: with a dynamic entry in the CAM no      *)
(* static entry is left out, unless its row was nuked                      *)
(* (write_arp_cache_to_hw).                                                *)
HardwareIsCurrent ==
    \A r \in 1 .. CAM_WIDTH : hw[r] # None =>
       \E j \in DOMAIN arp_cache :
          /\ arp_cache[j].ip = hw[r].ip /\ arp_cache[j].mac = hw[r].mac
          /\ \A k \in DOMAIN arp_cache : arp_cache[k].static /\ ~arp_cache[j].static =>
                \E q \in 1 .. r : hw[q] = None \/ hw[q].ip = arp_cache[k].ip

(* Every waiting packet is sent or given up in the end, also when nobody   *)
(* ever answers and while more packets join the queue, unless that         *)
(* deletion has made send_queued_packets run for ever.                     *)
Pending(i) == \E o \in owed : o.id = i /\ ~o.err
NoPacketWaitsForEver == \A i \in Ids : Pending(i) ~> ~Pending(i) \/ spinning
=============================================================================
