--------------------------- MODULE Forward_proofs ---------------------------
(***************************************************************************)
(* For every network, every table and every packet a host may send: the     *)
(* time to live bounds how often a packet is sent on, and an ICMP error      *)
(* quotes the packet it is about as it came to the router.                   *)
(***************************************************************************)
EXTENDS Forward, TLAPS

IsPacket(p) == p = [f \in Fields |-> p[f]] /\ p.ttl \in Byte
Good(p) == IsPacket(p) /\ (is_packet_valid(p) => p = Summed(p))

Life == IF ttl0 = 0 THEN B ELSE ttl0

(* What the time to live and the hops add up to.                           *)
LifeInv ==
    /\ ttl0 \in Byte /\ hops \in Nat
    /\ pc = "idle" => hops = 0
    /\ pc # "idle" /\ hops = 0 => pkt.ttl = ttl0
    /\ pc # "idle" /\ hops > 0 => pkt.ttl >= 1 /\ hops + pkt.ttl = Life

(* What a router sends on is the good packet it took, with one less to live. *)
Less(p) == Summed([p EXCEPT !.ttl = (@ - 1) % B])
SentFrom(p) == IsPacket(p) /\ p = Summed(p) /\ pkt = Less(p)

(* What leaves a router it has made itself, is an error, or was sent on.     *)
LeavesInv ==
    pc = "out" => \/ iface_match_ip(Owner[at], pkt.src)
                  \/ pkt.proto = "error"
                  \/ SentFrom(came)

IInv ==
    /\ pc # "idle" => Good(pkt)
    /\ pc = "idle" => about = Nothing
    /\ LifeInv
    /\ LeavesInv
    /\ ErrorsQuoteOriginals

-----------------------------------------------------------------------------
(* Only the checksum changes when a checksum is computed.                    *)
LEMMA SummedFields ==
    ASSUME NEW p, IsPacket(p)
    PROVE  /\ IsPacket(Summed(p))
           /\ \A f \in Fields \ {"ipsum"} : Summed(p)[f] = p[f]
           /\ Summed(p).ipsum = compute_ip_checksum(p)
<1> DEFINE c == compute_ip_checksum(p)
<1>1. Summed(p) = [f \in Fields |-> IF f = "ipsum" THEN c ELSE p[f]]
  BY DEF Summed, IsPacket, Fields
<1> HIDE DEF c
<1>2. Summed(p).ipsum = c
  BY <1>1 DEF Fields
<1>3. \A f \in Fields \ {"ipsum"} : Summed(p)[f] = p[f]
  BY <1>1
<1>4. Summed(p).ttl = p.ttl
  BY <1>3 DEF Fields
<1>5. IsPacket(Summed(p))
  BY <1>1, <1>4 DEF IsPacket
<1> QED BY <1>2, <1>3, <1>5 DEF c

(* The checksum depends on the rest of the header only.                      *)
LEMMA SameChecksum ==
    ASSUME NEW p, NEW q, \A f \in Fields \ {"ipsum", "quote"} : p[f] = q[f]
    PROVE  compute_ip_checksum(p) = compute_ip_checksum(q)
<1>1. p.rest = q.rest /\ p.ttl = q.ttl /\ p.src = q.src /\ p.dst = q.dst /\ p.proto = q.proto
  BY DEF Fields
<1>2. ip_p(p) = ip_p(q)
  BY <1>1 DEF ip_p
<1>3. IpSum(p) = IpSum(q)
  BY <1>1, <1>2 DEF IpSum
<1> QED BY <1>3 DEF compute_ip_checksum

(* A packet with its checksum computed is good.                              *)
LEMMA SummedIsGood ==
    ASSUME NEW p, IsPacket(p)
    PROVE  Good(Summed(p))
<1> DEFINE q == Summed(p)
<1>1. IsPacket(q) /\ (\A f \in Fields \ {"ipsum"} : q[f] = p[f]) /\ q.ipsum = compute_ip_checksum(p)
  BY SummedFields
<1> HIDE DEF q
<1>2. compute_ip_checksum(q) = compute_ip_checksum(p)
  BY <1>1, SameChecksum
<1>3. q = [f \in Fields |-> q[f]]
  BY <1>1 DEF IsPacket
<1>4. Summed(q) = [f \in Fields |-> IF f = "ipsum" THEN compute_ip_checksum(q) ELSE q[f]]
  BY <1>3 DEF Summed, Fields
<1>5. Summed(q) = q
  BY <1>1, <1>2, <1>3, <1>4
<1> QED BY <1>1, <1>5 DEF Good, q

(* Sending on and putting back: the packet is as it was.                     *)
LEMMA PutBack ==
    ASSUME NEW p, IsPacket(p), p = Summed(p), p.ttl # 0
    PROVE  Restored(Less(p)) = p
<1> DEFINE m == [p EXCEPT !.ttl = (@ - 1) % B]
           q == Summed(m)
           n == [q EXCEPT !.ttl = @ + 1]
<1>1. B \in Nat /\ B >= 2 /\ p.ttl \in Nat /\ p.ttl >= 1 /\ p.ttl < B
  BY ByteAssumption DEF IsPacket, Byte
<1>2. (p.ttl - 1) % B = p.ttl - 1 /\ p.ttl - 1 \in Byte
  BY <1>1 DEF Byte
<1>3. p = [f \in Fields |-> p[f]]
  BY DEF IsPacket
<1>4. m = [f \in Fields |-> IF f = "ttl" THEN p.ttl - 1 ELSE p[f]]
  BY <1>2, <1>3 DEF Fields
<1>5. IsPacket(m) /\ m.ttl = p.ttl - 1 /\ \A f \in Fields \ {"ttl"} : m[f] = p[f]
  BY <1>2, <1>4 DEF IsPacket, Fields
<1> HIDE DEF m
<1>6. IsPacket(q) /\ \A f \in Fields \ {"ipsum"} : q[f] = m[f]
  BY <1>5, SummedFields
<1>7. q.ttl = p.ttl - 1 /\ \A f \in Fields \ {"ttl", "ipsum"} : q[f] = p[f]
  BY <1>5, <1>6 DEF Fields
<1> HIDE DEF q
<1>8. q = [f \in Fields |-> q[f]]
  BY <1>6 DEF IsPacket
<1>9. (p.ttl - 1) + 1 = p.ttl
  BY <1>1
<1>10. n = [f \in Fields |-> IF f = "ttl" THEN p.ttl ELSE q[f]]
  BY <1>7, <1>8, <1>9 DEF Fields
<1>11. \A f \in Fields \ {"ipsum"} : n[f] = p[f]
  BY <1>7, <1>10
<1>12. n = [f \in Fields |-> n[f]]
  BY <1>10
<1> HIDE DEF n
<1>13. compute_ip_checksum(n) = compute_ip_checksum(p)
  BY <1>11, SameChecksum
<1>14. p.ipsum = compute_ip_checksum(p)
  BY SummedFields
<1>15. Summed(n) = [f \in Fields |-> IF f = "ipsum" THEN compute_ip_checksum(n) ELSE n[f]]
  BY <1>12 DEF Summed, Fields
<1>16. Summed(n) = p
  BY <1>3, <1>11, <1>13, <1>14, <1>15
<1>17. q.ttl < B - 1
  BY <1>1, <1>7
<1>18. Restored(q) = Summed(n)
  BY <1>17 DEF Restored, n
<1> QED BY <1>16, <1>18 DEF Less, q, m

(* What a router makes is a good packet with a fresh time to live.           *)
LEMMA MadeIsGood ==
    ASSUME NEW proto, NEW src, NEW dst, NEW quote
    PROVE  LET p == populate_ip(proto, src, dst, quote)
           IN  /\ Good(p) /\ p.ttl = INIT_TTL /\ INIT_TTL \in Byte
               /\ p.proto = proto /\ p.src = src /\ p.quote = quote
<1> DEFINE r == [proto |-> proto, rest |-> 1, ttl |-> INIT_TTL, ipsum |-> 0,
                 src |-> src, dst |-> dst, quote |-> quote]
<1>1. INIT_TTL \in Byte
  BY ForwardAssumption, ByteAssumption DEF Byte
<1>2. r = [f \in Fields |-> r[f]]
  BY DEF Fields
<1>3. r.ttl = INIT_TTL /\ r.proto = proto /\ r.src = src /\ r.quote = quote
  OBVIOUS
<1> HIDE DEF r
<1>4. IsPacket(r)
  BY <1>1, <1>2, <1>3 DEF IsPacket
<1>5. Good(Summed(r)) /\ \A f \in Fields \ {"ipsum"} : Summed(r)[f] = r[f]
  BY <1>4, SummedFields, SummedIsGood
<1>6. Summed(r).ttl = INIT_TTL /\ Summed(r).proto = proto /\ Summed(r).src = src
      /\ Summed(r).quote = quote
  BY <1>3, <1>5 DEF Fields
<1> QED BY <1>1, <1>5, <1>6 DEF populate_ip, r

(* get_next_hop leads out of an interface of the router.                     *)
LEMMA NextHopIsOwn ==
    ASSUME NEW r, NEW ip, NEW o \in get_next_hop(r, ip), o # NoRoute
    PROVE  o \in IfacesOf(r) /\ Owner[o] = r
<1>1. CASE ~settled
  BY <1>1 DEF get_next_hop, IfacesOf
<1>2. CASE settled /\ <<r, ip>> \in DOMAIN Route
  <2>1. Route[<<r, ip>>] \in IfacesOf(r)
    BY <1>2, ForwardAssumption
  <2> QED BY <1>2, <2>1 DEF get_next_hop, IfacesOf
<1>3. CASE settled /\ <<r, ip>> \notin DOMAIN Route
  BY <1>3 DEF get_next_hop
<1> QED BY <1>1, <1>2, <1>3

-----------------------------------------------------------------------------
LEMMA InitInv == Init => IInv
<1> SUFFICES ASSUME Init PROVE IInv
  OBVIOUS
<1>1. pc = "idle" /\ pkt = Nothing /\ about = Nothing /\ ttl0 = 0 /\ hops = 0
  BY DEF Init
<1>2. 0 \in Byte
  BY ByteAssumption DEF Byte
<1>3. pkt.proto = "none"
  BY <1>1 DEF Nothing
<1> QED BY <1>1, <1>2, <1>3 DEF IInv, LifeInv, LeavesInv, ErrorsQuoteOriginals

(* A journey that ends, or is over.                                          *)
LEMMA EndKeeps ==
    ASSUME IInv, pc # "idle", NEW how \in {"arrived", "dropped"}, End(how)
    PROVE  IInv'
<1>1. /\ pc' # "idle" /\ pc' # "out" /\ pkt' = pkt /\ about' = about
      /\ ttl0' = ttl0 /\ hops' = hops
  BY DEF End
<1>2. Good(pkt)'
  BY <1>1 DEF IInv
<1>3. LifeInv'
  BY <1>1 DEF IInv, LifeInv, Life
<1>4. ErrorsQuoteOriginals'
  BY <1>1 DEF IInv, ErrorsQuoteOriginals
<1> QED BY <1>1, <1>2, <1>3, <1>4 DEF IInv, LeavesInv

(* A packet that a router makes.                                             *)
LEMMA BeginKeeps ==
    ASSUME NEW p, NEW o, Good(p), p.ttl \in Byte, Begin(p, o),
           iface_match_ip(Owner[o], p.src) \/ p.proto = "error",
           ErrorsQuoteOriginals'
    PROVE  IInv'
<1>1. /\ pc' = "out" /\ pkt' = p /\ at' = o /\ ttl0' = p.ttl /\ hops' = 0
  BY DEF Begin
<1>2. LifeInv'
  BY <1>1 DEF LifeInv
<1>3. LeavesInv'
  BY <1>1 DEF LeavesInv, iface_match_ip
<1>4. Good(pkt)'
  BY <1>1
<1> QED BY <1>1, <1>2, <1>3, <1>4 DEF IInv

(* An ICMP message.  An error is about a packet whose header it quotes.       *)
LEMMA IcmpKeeps ==
    ASSUME IInv, pc # "idle", NEW r, NEW p, NEW proto, NEW own, NEW was,
           send_icmp_packet(r, p, proto, own, was),
           \/ proto = "error" /\ (was = Nothing \/ was.ttl = 0 \/ Header(p) = Header(was))
           \/ proto = "reply" /\ own /\ iface_match_ip(r, p.dst)
    PROVE  IInv'
<1>1. PICK o \in get_next_hop(r, p.src) :
        \/ o = NoRoute /\ End("dropped")
        \/ /\ o # NoRoute
           /\ Begin(populate_ip(proto, IF own THEN p.dst ELSE IfIp[o], p.src,
                                IF proto = "error" THEN Header(p) ELSE Nothing), o)
           /\ about' = was
  BY DEF send_icmp_packet
<1>2. CASE End("dropped")
  BY <1>2, EndKeeps
<1>3. CASE ~End("dropped")
  <2> DEFINE src == IF own THEN p.dst ELSE IfIp[o]
             quote == IF proto = "error" THEN Header(p) ELSE Nothing
             q == populate_ip(proto, src, p.src, quote)
  <2>1. o # NoRoute /\ Begin(q, o) /\ about' = was
    BY <1>1, <1>3
  <2>2. /\ Good(q) /\ q.ttl = INIT_TTL /\ INIT_TTL \in Byte
        /\ q.proto = proto /\ q.src = src /\ q.quote = quote
    BY MadeIsGood
  <2> HIDE DEF q
  <2>3. pkt' = q
    BY <2>1 DEF Begin
  <2>4. ErrorsQuoteOriginals'
    BY <2>1, <2>2, <2>3 DEF ErrorsQuoteOriginals
  <2>5. Owner[o] = r
    BY <2>1, NextHopIsOwn
  <2>6. iface_match_ip(Owner[o], q.src) \/ q.proto = "error"
    BY <2>2, <2>5
  <2> QED BY <2>1, <2>2, <2>4, <2>6, BeginKeeps
<1> QED BY <1>2, <1>3

(* A packet that a router sends on.                                          *)
LEMMA SentOnKeeps ==
    ASSUME IInv, pc = "in", came' = pkt, is_packet_valid(pkt), ~Expired, NEW o, SentOn(o)
    PROVE  IInv'
<1> DEFINE m == [pkt EXCEPT !.ttl = (@ - 1) % B]
<1>1. /\ pc' = "out" /\ pkt' = Summed(m) /\ hops' = hops + 1 /\ ttl0' = ttl0
      /\ about' = about
  BY DEF SentOn
<1>2. Good(pkt) /\ IsPacket(pkt) /\ pkt = Summed(pkt)
  BY DEF IInv, Good
<1>3. B \in Nat /\ B >= 2 /\ pkt.ttl \in Nat /\ pkt.ttl < B
  BY <1>2, ByteAssumption DEF IsPacket, Byte
<1>4. pkt.ttl # 1
  BY DEF Expired
<1>5. (pkt.ttl - 1) % B = IF pkt.ttl = 0 THEN B - 1 ELSE pkt.ttl - 1
  BY <1>3
<1>6. pkt = [f \in Fields |-> pkt[f]]
  BY <1>2 DEF IsPacket
<1>7. m = [f \in Fields |-> IF f = "ttl" THEN (pkt.ttl - 1) % B ELSE pkt[f]]
  BY <1>6 DEF Fields
<1>8. (pkt.ttl - 1) % B \in Byte
  BY <1>3, <1>5 DEF Byte
<1>9. IsPacket(m) /\ m.ttl = (pkt.ttl - 1) % B /\ \A f \in Fields \ {"ttl"} : m[f] = pkt[f]
  BY <1>7, <1>8 DEF IsPacket, Fields
<1>10. pkt' = Less(pkt)
  BY <1>1 DEF Less
<1>11. LeavesInv'
  BY <1>2, <1>10 DEF LeavesInv, SentFrom
<1> HIDE DEF m
<1>12. Good(pkt') /\ \A f \in Fields \ {"ipsum"} : pkt'[f] = m[f]
  BY <1>1, <1>9, SummedIsGood, SummedFields
<1>13. pkt'.ttl = (pkt.ttl - 1) % B /\ pkt'.proto = pkt.proto /\ pkt'.quote = pkt.quote
  BY <1>9, <1>12 DEF Fields
<1>14. ErrorsQuoteOriginals'
  BY <1>1, <1>13 DEF IInv, ErrorsQuoteOriginals
<1>15. LifeInv'
  <2>1. LifeInv /\ ttl0 \in Nat /\ hops \in Nat
    BY DEF IInv, LifeInv, Byte
  <2>2. Life' = Life
    BY <1>1 DEF Life
  <2>3. CASE hops = 0
    <3>1. pkt.ttl = ttl0
      BY <2>1, <2>3 DEF LifeInv
    <3>2. pkt'.ttl >= 1 /\ hops' + pkt'.ttl = Life
      BY <1>1, <1>3, <1>4, <1>5, <1>13, <2>3, <3>1 DEF Life
    <3> QED BY <1>1, <2>1, <2>2, <3>2 DEF LifeInv
  <2>4. CASE hops > 0
    <3>1. pkt.ttl >= 1 /\ hops + pkt.ttl = Life
      BY <2>1, <2>4 DEF LifeInv
    <3>2. pkt'.ttl >= 1 /\ hops' + pkt'.ttl = Life
      BY <1>1, <1>3, <1>4, <1>5, <1>13, <2>1, <3>1
    <3> QED BY <1>1, <2>1, <2>2, <3>2 DEF LifeInv
  <2> QED BY <2>1, <2>3, <2>4
<1> QED BY <1>1, <1>11, <1>12, <1>14, <1>15 DEF IInv

-----------------------------------------------------------------------------
LEMMA NextInv == IInv /\ [Next]_vars => IInv'
<1> SUFFICES ASSUME IInv, [Next]_vars PROVE IInv'
  OBVIOUS
<1>1. CASE UNCHANGED vars
  <2>1. Good(pkt)' <=> Good(pkt)
    BY <1>1 DEF vars
  <2>2. LifeInv' <=> LifeInv
    BY <1>1 DEF vars, LifeInv, Life
  <2>3. LeavesInv' <=> LeavesInv
    BY <1>1 DEF vars, LeavesInv, SentFrom, iface_match_ip
  <2>4. ErrorsQuoteOriginals' <=> ErrorsQuoteOriginals
    BY <1>1 DEF vars, ErrorsQuoteOriginals
  <2> QED BY <1>1, <2>1, <2>2, <2>3, <2>4 DEF IInv, vars
<1>2. ASSUME pc = "idle", NEW s \in Traffic, HostSends(s) PROVE IInv'
  <2>1. /\ pkt' = s.pkt /\ pc' = "in" /\ ttl0' = s.pkt.ttl /\ hops' = 0 /\ about' = about
    BY <1>2 DEF HostSends
  <2>2. Good(s.pkt) /\ s.pkt.ttl \in Byte
    BY ForwardAssumption DEF Good, IsPacket
  <2>3. LifeInv'
    BY <2>1, <2>2 DEF LifeInv
  <2>4. ErrorsQuoteOriginals'
    BY <1>2, <2>1 DEF IInv, ErrorsQuoteOriginals
  <2> QED BY <2>1, <2>2, <2>3, <2>4 DEF IInv, LeavesInv
<1>3. ASSUME pc = "idle", NEW r, NEW src, NEW dst, send_ip_packet(r, src, dst) PROVE IInv'
  <2> DEFINE p == populate_ip("tcp", src, dst, Nothing)
  <2>1. iface_match_ip(r, src) /\ \E o \in get_next_hop(r, dst) \ {NoRoute} : SendOwn(r, p, o)
    BY <1>3 DEF send_ip_packet
  <2>2. PICK o \in get_next_hop(r, dst) \ {NoRoute} : SendOwn(r, p, o)
    BY <2>1
  <2>3. Good(p) /\ p.ttl \in Byte /\ p.src = src
    BY MadeIsGood
  <2> HIDE DEF p
  <2>4. Begin(p, o) /\ about' = about
    BY <2>2 DEF SendOwn
  <2>5. Owner[o] = r
    BY <2>2, NextHopIsOwn
  <2>6. ErrorsQuoteOriginals'
    BY <1>3, <2>4 DEF IInv, ErrorsQuoteOriginals
  <2> QED BY <2>1, <2>3, <2>4, <2>5, <2>6, BeginKeeps
<1>4. ASSUME pc = "idle", NEW r, NEW dst, send_icmp_echo_request_packet(r, dst) PROVE IInv'
  <2>1. PICK o \in get_next_hop(r, dst) \ {NoRoute} :
          SendOwn(r, populate_ip("echo", IfIp[o], dst, Nothing), o)
    BY <1>4 DEF send_icmp_echo_request_packet
  <2> DEFINE p == populate_ip("echo", IfIp[o], dst, Nothing)
  <2>2. Good(p) /\ p.ttl \in Byte /\ p.src = IfIp[o]
    BY MadeIsGood
  <2>3. Begin(p, o) /\ about' = about
    BY <2>1 DEF SendOwn
  <2> HIDE DEF p
  <2>4. o \in IfacesOf(r) /\ Owner[o] = r
    BY <2>1, NextHopIsOwn
  <2>5. iface_match_ip(Owner[o], p.src)
    BY <2>2, <2>4 DEF iface_match_ip
  <2>6. ErrorsQuoteOriginals'
    BY <1>4, <2>3 DEF IInv, ErrorsQuoteOriginals
  <2> QED BY <2>2, <2>3, <2>5, <2>6, BeginKeeps
<1>5. ASSUME Refuse PROVE IInv'
  BY <1>5, EndKeeps DEF Refuse, Taken
<1>6. ASSUME NEW r, Local(r) PROVE IInv'
  <2>1. pc # "idle" /\ iface_match_ip(r, pkt.dst)
    BY <1>6 DEF Local, Valid, Taken
  <2>2. CASE End("arrived")
    BY <2>1, <2>2, EndKeeps
  <2>3. CASE send_icmp_packet(r, pkt, "reply", TRUE, Nothing)
    BY <2>1, <2>3, IcmpKeeps
  <2>4. CASE \E own \in BOOLEAN : send_icmp_packet(r, pkt, "error", own, pkt)
    BY <2>1, <2>4, IcmpKeeps
  <2> QED BY <1>6, <2>2, <2>3, <2>4 DEF Local
<1>7. ASSUME NEW r, Hello(r) PROVE IInv'
  BY <1>7, EndKeeps DEF Hello, Valid, Taken
<1>8. ASSUME NEW r, Onward(r) PROVE IInv'
  <2>1. pc = "in" /\ came' = pkt /\ is_packet_valid(pkt)
    BY <1>8 DEF Onward, Valid, Taken
  <2>2. PICK o \in get_next_hop(r, pkt.dst) :
          \/ send_icmp_packet(r, pkt, "error", FALSE, pkt)
          \/ ~Expired /\ SentOn(o)
    BY <1>8 DEF Onward
  <2>3. CASE send_icmp_packet(r, pkt, "error", FALSE, pkt)
    BY <2>1, <2>3, IcmpKeeps
  <2>4. CASE ~Expired /\ SentOn(o)
    BY <2>1, <2>4, SentOnKeeps
  <2> QED BY <2>2, <2>3, <2>4
<1>9. ASSUME send_ip PROVE IInv'
  <2>1. /\ pc # "idle" /\ pc' \in {"in", "arrived"} /\ pkt' = pkt /\ about' = about
        /\ ttl0' = ttl0 /\ hops' = hops
    BY <1>9 DEF send_ip
  <2>2. LifeInv'
    BY <2>1 DEF IInv, LifeInv, Life
  <2>3. ErrorsQuoteOriginals'
    BY <2>1 DEF IInv, ErrorsQuoteOriginals
  <2>4. Good(pkt)'
    BY <2>1 DEF IInv
  <2> QED BY <2>1, <2>2, <2>3, <2>4 DEF IInv, LeavesInv
<1>10. ASSUME expire_arp_queue PROVE IInv'
  <2> DEFINE r == Owner[at]
  <2>1. pc = "out"
    BY <1>10 DEF expire_arp_queue
  <2>2. CASE End("dropped")
    BY <2>1, <2>2, EndKeeps
  <2>3. CASE ~End("dropped")
    <3>1. /\ pkt.proto # "error" /\ ~iface_match_ip(r, pkt.src)
          /\ \E p \in {Restored(pkt)} : send_icmp_packet(r, p, "error", FALSE, came)
      BY <1>10, <2>3 DEF expire_arp_queue
    <3>2. SentFrom(came)
      BY <2>1, <3>1 DEF IInv, LeavesInv
    <3>3. came.ttl = 0 \/ Restored(pkt) = came
      BY <3>2, PutBack DEF SentFrom
    <3>4. came.ttl = 0 \/ Header(Restored(pkt)) = Header(came)
      BY <3>3
    <3>5. send_icmp_packet(r, Restored(pkt), "error", FALSE, came)
      BY <3>1
    <3> QED BY <2>1, <3>4, <3>5, IcmpKeeps
  <2> QED BY <2>2, <2>3
<1>11. ASSUME Travels PROVE IInv'
  BY <1>5, <1>6, <1>7, <1>8, <1>9, <1>10, <1>11 DEF Travels, process_ip_packet
<1> QED BY <1>1, <1>2, <1>3, <1>4, <1>11 DEF Next

-----------------------------------------------------------------------------
(* A packet made with a time to live of n is sent on n - 1 times at most, one   *)
(* that came with 0 as if it were 256: for every network, every table and       *)
(* every change of the tables, the decrement and the test of process_ip_packet   *)
(* (or_ip.c:149-160) end every loop.                                            *)
THEOREM TtlBoundsHops == Spec => []HopsAreBounded
<1>1. IInv => HopsAreBounded
  <2> SUFFICES ASSUME IInv, hops # 0 PROVE hops < Life
    BY DEF HopsAreBounded, Life
  <2>1. hops \in Nat /\ pc # "idle" /\ ttl0 \in Byte
    BY DEF IInv, LifeInv
  <2>2. pkt.ttl \in Byte
    BY <2>1 DEF IInv, Good, IsPacket
  <2>3. pkt.ttl >= 1 /\ hops + pkt.ttl = Life
    BY <2>1 DEF IInv, LifeInv
  <2>4. pkt.ttl \in Int
    BY <2>2 DEF Byte
  <2> QED BY <2>1, <2>3, <2>4
<1> QED BY <1>1, InitInv, NextInv, PTL DEF Spec

(* For every network, an ICMP error quotes the packet as it came to the router,  *)
(* also one that was sent on and whose next hop did not answer                   *)
(* (or_arp.c:610-623), unless it came with a time to live of 0.                  *)
THEOREM ErrorsAreFaithful == Spec => []ErrorsQuoteOriginals
<1>1. IInv => ErrorsQuoteOriginals
  BY DEF IInv
<1> QED BY <1>1, InitInv, NextInv, PTL DEF Spec
=============================================================================
