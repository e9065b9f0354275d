------------------------------ MODULE Forward ------------------------------
(***************************************************************************)
(* The journey of an IP packet through a network of SCONE routers:         *)
(* process_ip_packet (or_ip.c), the ICMP messages it sends (or_icmp.c),    *)
(* what becomes of a packet whose next hop does not answer (or_arp.c), and *)
(* the packets a router makes itself.  A packet leads to one packet at     *)
(* most, so there is one packet under way at a time.                       *)
(*                                                                         *)
(* A router keeps the locks of the routing table, the interface list and   *)
(* the ARP queue from when it takes a packet until it has sent what the    *)
(* packet leads to, so each is one step.  From one step to the next the    *)
(* routing tables may change at will, or they are settled.                 *)
(*                                                                         *)
(* No interface has is_wan set (or_main.c:359), so no packet is translated *)
(* (or_ip.c:72-76, 137-144).                                               *)
(***************************************************************************)
EXTENDS Checksum

CONSTANTS
    Ifaces,         \* the interfaces of all routers
    Owner,          \* interface -> its router
    IfIp,           \* interface -> its address
    Link,           \* interface -> the one at the other end; LANs have none
    Hosts,          \* interface of a LAN -> the hosts that answer on it
    Route,          \* <<router, address>> -> interface, when settled
    NoRoute,
    HELLO_TIP,      \* the PWOSPF address
    INIT_TTL,       \* 0x40, of the packets a router makes
    Traffic         \* what a host may send, records iface, pkt, settled

VARIABLES
    settled,        \* whether the tables are those of Route
    pc,             \* "idle", "in", "out", and at the end "arrived" or "dropped"
    pkt,            \* the packet
    at,             \* the interface it comes in by, or leaves by
    sent,           \* history: the packet of the host or router that began
    ttl0, hops,     \* history: pkt's first TTL, how often it was sent on
    came, about     \* history: pkt as it came to the router, what an error is about

vars == <<settled, pc, pkt, at, sent, ttl0, hops, came, about>>

Nothing == [proto |-> "none"]

IfacesOf(r) == {i \in Ifaces : Owner[i] = r}

(* What get_next_hop may find.                                             *)
get_next_hop(r, ip) ==
    IF ~settled THEN IfacesOf(r) \cup {NoRoute}
    ELSE IF <<r, ip>> \in DOMAIN Route THEN {Route[r, ip]} ELSE {NoRoute}

iface_match_ip(r, ip) == \E i \in IfacesOf(r) : IfIp[i] = ip

-----------------------------------------------------------------------------
(* Packets.  rest is the sum of the four words before the time to live.    *)
Icmp == {"echo", "reply", "error"}
ip_p(p) == CASE p.proto \in Icmp     -> 1
             [] p.proto = "tcp"      -> 2
             [] p.proto = "udp"      -> 3
             [] p.proto = "pwospf"   -> 4
             [] OTHER                -> 0

(* The words of the header, without the checksum.                          *)
IpSum(p) ==
    ntohs(p.rest) + ntohs(p.ttl + B * ip_p(p)) + ntohs(p.src[1]) + ntohs(p.src[2])
        + ntohs(p.dst[1]) + ntohs(p.dst[2])

compute_ip_checksum(p) == ntohs(compute_checksum[IpSum(p)])

Summed(p) == [p EXCEPT !.ipsum = compute_ip_checksum(p)]

(* Version, options and fragments are not modelled, the checksum is.       *)
is_packet_valid(p) == verify_checksum(IpSum(p) + ntohs(p.ipsum))

Fields == {"proto", "rest", "ttl", "ipsum", "src", "dst", "quote"}
Header(p) == [f \in Fields \ {"quote"} |-> p[f]]

(* Routes lead out of interfaces of the router.  A host that gets the      *)
(* checksum right computes it as the router does.                          *)
ASSUME ForwardAssumption ==
    /\ INIT_TTL \in 2 .. B - 1
    /\ \A d \in DOMAIN Route : Route[d] \in IfacesOf(d[1])
    /\ \A s \in Traffic :
          /\ s.pkt = [f \in Fields |-> s.pkt[f]] /\ s.pkt.ttl \in Byte
          /\ is_packet_valid(s.pkt) => s.pkt = Summed(s.pkt)

(* quote is the header an ICMP error carries.                              *)
populate_ip(proto, src, dst, quote) ==
    Summed([proto |-> proto, rest |-> 1, ttl |-> INIT_TTL, ipsum |-> 0,
            src |-> src, dst |-> dst, quote |-> quote])

-----------------------------------------------------------------------------
Init ==
    /\ settled \in BOOLEAN /\ pc = "idle" /\ at = NoRoute
    /\ pkt = Nothing /\ sent = Nothing /\ came = Nothing /\ about = Nothing
    /\ ttl0 = 0 /\ hops = 0

End(how) ==
    pc' = how /\ UNCHANGED <<settled, pkt, at, sent, ttl0, hops, about>>

(* A packet that was not on its way before leaves by interface o.           *)
Begin(p, o) ==
    /\ pc' = "out" /\ at' = o /\ pkt' = p
    /\ ttl0' = pkt'.ttl /\ hops' = 0
    /\ UNCHANGED settled

(* A host gives a packet to its router.                                    *)
HostSends(s) ==
    /\ s.settled = settled
    /\ pkt' = s.pkt /\ sent' = s.pkt /\ pc' = "in" /\ at' = s.iface
    /\ ttl0' = s.pkt.ttl /\ hops' = 0
    /\ UNCHANGED <<settled, came, about>>

(* A router sends a TCP segment or a ping of its own, to somebody else.    *)
(* Nobody answers ARP for an address of the router itself, and what it     *)
(* sends to one leads to nothing (expire_arp_queue).                       *)
SendOwn(r, p, o) == Begin(p, o) /\ sent' = pkt' /\ UNCHANGED <<came, about>>

send_ip_packet(r, src, dst) ==
    /\ iface_match_ip(r, src) /\ ~iface_match_ip(r, dst)
    /\ \E o \in get_next_hop(r, dst) \ {NoRoute} :
          SendOwn(r, populate_ip("tcp", src, dst, Nothing), o)

send_icmp_echo_request_packet(r, dst) ==
    /\ ~iface_match_ip(r, dst)
    /\ \E o \in get_next_hop(r, dst) \ {NoRoute} :
          SendOwn(r, populate_ip("echo", IfIp[o], dst, Nothing), o)

\* Mutant: the route is looked up for the destination of the packet.
send_icmp_packet_astray(r, p, proto, own, was) ==
    \E o \in get_next_hop(r, p.dst) :
        \/ o = NoRoute /\ End("dropped")
        \/ /\ o # NoRoute
           /\ Begin(populate_ip(proto, IF own THEN p.dst ELSE IfIp[o], p.src,
                                IF proto = "error" THEN Header(p) ELSE Nothing), o)
           /\ about' = was /\ UNCHANGED sent

(* A message to the source of p: "reply" or "error", from the address p was *)
(* for when own, else from that of the interface it leaves by.              *)
send_icmp_packet(r, p, proto, own, was) ==
    \E o \in get_next_hop(r, p.src) :
        \/ o = NoRoute /\ End("dropped")
        \/ /\ o # NoRoute
           /\ Begin(populate_ip(proto, IF own THEN p.dst ELSE IfIp[o], p.src,
                                IF proto = "error" THEN Header(p) ELSE Nothing), o)
           /\ about' = was /\ UNCHANGED sent

-----------------------------------------------------------------------------
(* process_ip_packet.                                                      *)
Taken == pc = "in" /\ came' = pkt
Valid == Taken /\ is_packet_valid(pkt)

Refuse == Taken /\ ~is_packet_valid(pkt) /\ End("dropped")

(* A packet for one of our addresses.                                      *)
Local(r) ==
    /\ Valid /\ iface_match_ip(r, pkt.dst)
    /\ \/ pkt.proto \in {"tcp", "reply", "error", "pwospf"} /\ End("arrived")
       \/ pkt.proto = "echo" /\ send_icmp_packet(r, pkt, "reply", TRUE, Nothing)
       \/ pkt.proto = "udp" /\ send_icmp_packet(r, pkt, "error", TRUE, pkt)
       \/ pkt.proto = "other" /\ send_icmp_packet(r, pkt, "error", FALSE, pkt)

Hello(r) ==
    Valid /\ ~iface_match_ip(r, pkt.dst) /\ pkt.dst = HELLO_TIP /\ End("arrived")

\* Mutant: nothing is done about a packet whose time is up.
Expired_ignored == FALSE
Expired == pkt.ttl = 1

SentOn(o) ==
    /\ pkt' = Summed([pkt EXCEPT !.ttl = (@ - 1) % B])
    /\ pc' = "out" /\ at' = o /\ hops' = hops + 1
    /\ UNCHANGED <<settled, sent, ttl0, about>>

(* A packet for somebody else.                                             *)
Onward(r) ==
    /\ Valid /\ ~iface_match_ip(r, pkt.dst) /\ pkt.dst # HELLO_TIP
    /\ \E o \in get_next_hop(r, pkt.dst) :
          \/ o \in {NoRoute, at} /\ send_icmp_packet(r, pkt, "error", FALSE, pkt)
          \/ /\ o \notin {NoRoute, at}
             /\ \/ Expired /\ send_icmp_packet(r, pkt, "error", FALSE, pkt)
                \/ ~Expired /\ SentOn(o)

-----------------------------------------------------------------------------
(* The next hop answers ARP: a router at the other end, or a host on the    *)
(* LAN.  A router may be gone while the tables change.                      *)
Answers == at \notin DOMAIN Link => pkt.dst \in Hosts[at]
MayFail == IF at \in DOMAIN Link THEN ~settled ELSE ~Answers

send_ip ==
    /\ pc = "out" /\ Answers
    /\ \/ at \in DOMAIN Link /\ pc' = "in" /\ at' = Link[at]
       \/ at \notin DOMAIN Link /\ pc' = "arrived" /\ UNCHANGED at
    /\ UNCHANGED <<settled, pkt, sent, ttl0, hops, came, about>>

\* Mutant: the time to live stays as it was sent on.
Restored_not(p) == p

(* The time to live as it was, unless it is at its limit.                   *)
Restored(p) == IF p.ttl < B - 1 THEN Summed([p EXCEPT !.ttl = @ + 1]) ELSE p

(* The requests have gone unanswered.  A packet the router made itself, and *)
(* an ICMP error, leads to nothing.                                        *)
expire_arp_queue ==
    LET r == Owner[at]
    IN  /\ pc = "out" /\ MayFail
        /\ \/ /\ pkt.proto # "error" /\ ~iface_match_ip(r, pkt.src)
              /\ \E p \in {Restored(pkt)} : send_icmp_packet(r, p, "error", FALSE, came)
           \/ (pkt.proto = "error" \/ iface_match_ip(r, pkt.src)) /\ End("dropped")
        /\ UNCHANGED came

process_ip_packet == \E r \in {Owner[at]} : Refuse \/ Local(r) \/ Hello(r) \/ Onward(r)

Travels == pc \in {"in", "out"} /\ (process_ip_packet \/ send_ip \/ expire_arp_queue)

Next ==
    \/ pc = "idle" /\ \E s \in Traffic : HostSends(s)
    \/ pc = "idle" /\ \E i \in Ifaces, dst \in {d[2] : d \in DOMAIN Route} :
          \/ send_ip_packet(Owner[i], IfIp[i], dst)
          \/ send_icmp_echo_request_packet(Owner[i], dst)
    \/ Travels

Spec == Init /\ [][Next]_vars /\ WF_vars(Travels)

-----------------------------------------------------------------------------
(* Wherever the routers send it, and however often their tables change      *)
(* meanwhile, a packet that was made with a time to live of n is sent on    *)
(* n - 1 times at most.  One that came with 0 is not refused (or_ip.c:149)   *)
(* but goes on with 255, once: it is sent on 255 times at most.             *)
HopsAreBounded == hops = 0 \/ hops < IF ttl0 = 0 THEN B ELSE ttl0

(* The header that an ICMP error carries is that of the packet as it came   *)
(* to the router: when the router had sent it on and its next hop does not   *)
(* answer, the time to live is put back and the checksum made good           *)
(* (or_arp.c:610-623, "the ICMP error should return the original packet").    *)
(* Not so for a packet that came with a time to live of 0, nor, by the       *)
(* assumption on Traffic, for one whose checksum was 0xffff for 0.             *)
ErrorsQuoteOriginals ==
    pkt.proto = "error" /\ about # Nothing =>
        about.ttl = 0 \/ pkt.quote = Header(about)

(* What a journey of a host's packet may end in.                            *)
Heard ==
    /\ pc = "arrived"
    /\ \/ pkt.proto = sent.proto /\ pkt.dst = sent.dst
       \/ pkt.proto \in {"reply", "error"} /\ pkt.dst = sent.src

(* A good packet of a host, at its router, while the tables are settled.     *)
(* Only an ICMP error sent to a host that does not answer may be lost.       *)
Waits ==
    /\ settled /\ pc = "in" /\ pkt = sent
    /\ is_packet_valid(sent) /\ sent.proto # "error"
=============================================================================
