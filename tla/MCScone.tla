------------------------------ MODULE MCScone ------------------------------
(***************************************************************************)
(* What SCONE does for its packets and its users: the journeys of packets     *)
(* through routers, the sping command, the web server, the flooding of link state *)
(* updates and the checksums of messages.  The models share no state.  In a   *)
(* behaviour one of them, unit, is at work.  The variables of Forward are its  *)
(* own, and nothing happens to them while another unit is at work; v1 to v7    *)
(* are the variables of the other units, and the ones not in use are 0.        *)
(***************************************************************************)
EXTENDS Forward, SequencesExt

VARIABLES unit, v1, v2, v3, v4, v5, v6, v7

Others == <<v1, v2, v3, v4, v5, v6, v7>>
mcVars == <<unit, vars, Others>>

(* Two CLI threads; three requests and two replies in five seconds.            *)
Pingers == {"c1", "c2"}
SP == INSTANCE Sping WITH
        Clients <- Pingers, WAIT <- 1, EXPIRE <- 2, PINGS <- 3, REPLIES <- 2, MAX_TIME <- 5,
        now <- v1, next_clean <- v2, sping_queue <- v3, client <- v4, asked <- v5,
        pings <- v6, replies <- v7

(* Two of the five workers, two clients, requests that make the buffer grow     *)
(* twice, an answer in two parts, the second sent in two pieces.              *)
Workers == {"w1", "w2"}
Clients == {"c1", "c2"}
WW == INSTANCE Www WITH
        NEEDS <- {2}, BODY <- [bad |-> 1, file |-> 0], BUF <- 1, CHUNK <- 2, SHORTAGES <- 1,
        LENGTHS <- [bad |-> <<>>, file |-> <<1, 3>>],
        www_request_queue <- v1, worker <- v2, client <- v3

Senders == {"s1", "s2"}
LB == INSTANCE LsuBcast WITH
        MAX_QUEUE <- 3,
        lsu_queue <- v1, sending <- v2, bcast <- v3, sender <- v4

(* Messages of up to four bytes, cut into buffers at any places: the unit        *)
(* "checksum" has v1, such a message, and does nothing.                         *)
Messages == UNION {[1 .. n -> Byte] : n \in 1 .. 4}
Cuts(m) == SUBSET (1 .. Len(m) - 1)
Buffers(m, cut) ==
    LET ends == SetToSortSeq(cut \cup {Len(m)}, <)
    IN  [i \in DOMAIN ends |-> SubSeq(m, IF i = 1 THEN 1 ELSE ends[i - 1] + 1, ends[i])]

-----------------------------------------------------------------------------
(* Three routers, each linked to both others: "12" is the interface of      *)
(* router 1 to router 2.  Routers 1 and 2 have a LAN.                       *)
MCIfaces == {"12", "13", "21", "23", "31", "32", "1lan", "2lan"}
MCOwner == [i \in MCIfaces |-> CASE i \in {"12", "13", "1lan"} -> 1
                                 [] i \in {"21", "23", "2lan"} -> 2
                                 [] OTHER -> 3]
MCLink == [i \in MCIfaces \ {"1lan", "2lan"} |->
    CASE i = "12" -> "21" [] i = "21" -> "12" [] i = "13" -> "31"
      [] i = "31" -> "13" [] i = "23" -> "32" [] i = "32" -> "23"]
MCIfIp == [i \in MCIfaces |->
    CASE i = "12" -> <<4, 1>> [] i = "21" -> <<4, 2>> [] i = "13" -> <<4, 24>>
      [] i = "31" -> <<20, 3>> [] i = "23" -> <<0, 9>> [] i = "32" -> <<0, 24>>
      [] i = "1lan" -> <<24, 1>> [] i = "2lan" -> <<12, 12>>]

(* A host on each LAN, one on the second that is gone, an address whose      *)
(* routes go round, one that router 2 has no route to.                      *)
Host == <<24, 7>>
Host2 == <<12, 0>>
Gone == <<12, 24>>
Lost == <<17, 5>>
Nowhere == <<9, 9>>
HelloTip == <<14, 5>>
MCHosts == [i \in {"1lan", "2lan"} |-> IF i = "1lan" THEN {Host} ELSE {Host2}]

Subnet(lan) == {MCIfIp[lan]} \cup (IF lan = "1lan" THEN {Host} ELSE {Host2, Gone})
MCAddrs == {MCIfIp[i] : i \in MCIfaces} \cup {Host, Host2, Gone, Lost, Nowhere, HelloTip}
MCRoute ==
    [d \in {e \in (1 .. 3) \X MCAddrs : e[2] # HelloTip /\ e # <<2, Nowhere>>} |->
        LET r == d[1]
            a == d[2]
            own == {i \in MCIfaces : MCOwner[i] = r /\ a \in {MCIfIp[i], MCIfIp[
                        IF i \in DOMAIN MCLink THEN MCLink[i] ELSE i]}}
        IN  CASE own # {} -> CHOOSE i \in own : TRUE
              [] a \in Subnet("1lan") \/ a \in {MCIfIp["13"], MCIfIp["12"]} ->
                     <<"1lan", "21", "31">>[r]
              [] a \in Subnet("2lan") \/ a \in {MCIfIp["21"], MCIfIp["23"], Nowhere} ->
                     <<"12", "2lan", "32">>[r]
              [] OTHER -> <<"13", "21", "32">>[r]]

Pkt(proto, src, dst, ttl, rest) ==
    Summed([proto |-> proto, rest |-> rest, ttl |-> ttl, ipsum |-> 0,
            src |-> src, dst |-> dst, quote |-> Nothing])
Send(from, pkts, how) == [iface : {from}, pkt : pkts, settled : {how}]

(* What the host of router 1 sends to any address; what that of router 2   *)
(* sends; and, while the tables change, packets through the routers and    *)
(* for a router.  Two packets have a wrong checksum.                    *)
Broken(p) == [p EXCEPT !.ipsum = (@ + 1) % M]
MCSends ==
    Send("1lan", {Pkt(proto, Host, dst, ttl, rest) :
        proto \in {"tcp", "udp", "echo", "error", "other"}, dst \in MCAddrs \ {Host},
        ttl \in Byte, rest \in {0, M - 1}}, TRUE)
    \cup Send("2lan", {Pkt("tcp", Host2, dst, ttl, 1) : dst \in MCAddrs, ttl \in Byte}, TRUE)
    \cup Send("1lan", {Pkt("udp", Host, Host2, ttl, 3) : ttl \in Byte}, FALSE)
    \cup Send("1lan", {Pkt(proto, Host, MCIfIp["32"], ttl, 3) :
        proto \in {"udp", "echo", "other"}, ttl \in {2, B - 1}}, FALSE)
    \cup Send("1lan", {Broken(Pkt("tcp", Host, Host2, 3, rest)) : rest \in {0, 3}}, TRUE)

-----------------------------------------------------------------------------
After4 == <<v5, v6, v7>>
After3 == <<v4, After4>>

MCInit ==
    /\ unit \in {"forward", "sping", "www", "lsu", "checksum"}
    /\ Init /\ (unit # "forward" => settled)
    /\ \/ /\ unit = "forward"
          /\ v1 = 0 /\ v2 = 0 /\ v3 = 0 /\ v4 = 0 /\ v5 = 0 /\ v6 = 0 /\ v7 = 0
       \/ unit = "sping" /\ SP!SpingInit
       \/ unit = "www" /\ WW!WwwInit /\ v4 = 0 /\ v5 = 0 /\ v6 = 0 /\ v7 = 0
       \/ unit = "lsu" /\ LB!LsuInit /\ v5 = 0 /\ v6 = 0 /\ v7 = 0
       \/ /\ unit = "checksum" /\ v1 \in Messages
          /\ v2 = 0 /\ v3 = 0 /\ v4 = 0 /\ v5 = 0 /\ v6 = 0 /\ v7 = 0

InForward(A) == unit = "forward" /\ A /\ UNCHANGED <<unit, Others>>
InWww(A) == unit = "www" /\ A /\ UNCHANGED <<unit, vars, After3>>
InLsu(A) == unit = "lsu" /\ A /\ UNCHANGED <<unit, vars, After4>>

MCNext ==
    \/ InForward(Next)
    \/ unit = "sping" /\ SP!SpingNext /\ UNCHANGED <<unit, vars>>
    \/ InWww(WW!WwwNext)
    \/ InLsu(LB!LsuNext)

(* The workers run, and clients send what they have begun to send, if they       *)
(* do not go away.  The threads of PWOSPF run, and a thread that has queued       *)
(* packets goes on to signal.                                                  *)
MCSpec ==
    /\ MCInit /\ [][MCNext]_mcVars
    /\ WF_mcVars(InForward(Travels))
    /\ \A w \in Workers : WF_mcVars(InWww(WW!Pool(w)))
    /\ \A c \in Clients : WF_mcVars(InWww(WW!ClientSends(c)))
    /\ WF_mcVars(InLsu(LB!pwospf_lsu_thread)) /\ WF_mcVars(InLsu(LB!pwospf_lsu_bcast_thread))
    /\ \A t \in Senders \cup {LB!Lsu} : WF_mcVars(InLsu(LB!Signal(t)))

-----------------------------------------------------------------------------
(* The ways to compute a checksum agree with the one's complement sum:              *)
(* that of a chain, however its buffers cut the message and whatever pseudo           *)
(* header is added (inet_chksum_pseudo); that of one buffer (inet_chksum); and         *)
(* that of an ICMP message, in the other byte order, without the checksum field        *)
(* and, for even lengths only, with all of the message (compute_icmp_checksum).        *)
(* verify_checksum, which folds once, accepts a message if and only if its one's        *)
(* complement sum is zero and it is not all zeros.                                     *)
ChecksumsAgree == unit = "checksum" =>
    /\ \A cut \in Cuts(v1), header \in {<<>>, <<M - 1, 2>>} :
           inet_chksum_pseudo(Buffers(v1, cut), header)
               = Not16(OnesSum(chksum(v1) + Total(header)))
    /\ inet_chksum(v1) = Not16(OnesSum(chksum(v1)))
    /\ Len(v1) % 2 = 0 =>
           /\ ntohs(compute_icmp_checksum(v1)) = Not16(OnesSum(chksum(
                  [i \in DOMAIN v1 |-> IF i \in {3, 4} THEN 0 ELSE v1[i]])))
           /\ verify_checksum(Total(Shorts(v1))) <=> OnesSum(chksum(v1)) = M - 1

(* When the routing tables are settled, what a host sends arrives, or an answer to it     *)
(* or an ICMP error about it arrives at the host: no router refuses what another sent     *)
(* (compute_ip_checksum, verify_checksum), drops a packet in silence or sends an error    *)
(* the wrong way, and loops in the tables come to an end (or_ip.c:55-223, or_icmp.c).     *)
SourceHears ==
    (unit = "forward" /\ Waits) ~> (unit = "forward" /\ Heard)

(* A ping that is told "no reply" leaves no reply of its own on the queue that     *)
(* came while it waited (wait_for_reply, process_icmp_echo_reply_packet).         *)
WaitersHearReplies == unit = "sping" => SP!WaitersHearReplies

(* A client that stays on the line gets the whole answer before its connection     *)
(* is closed, unless the server ran short of sockets, of memory or of bytes of      *)
(* the file (service_request, send_all).                                        *)
RepliesAreWhole == unit = "www" => WW!RepliesAreWhole

(* Every accepted connection is closed in the end, or lost to a failed              *)
(* allocation (www_main, www_client_thread).                                   *)
AcceptedAreClosed ==
    \A c \in Clients : (unit = "www" /\ WW!Open(c)) ~> (unit = "www" /\ ~WW!Open(c))

(* A link state update on the queue is taken to be sent in the end, whatever         *)
(* signals were lost (broadcast_pwospf_lsu_packet, pwospf_lsu_bcast_thread).        *)
UpdatesAreSent == (unit = "lsu" /\ LB!Pending) ~> (unit = "lsu" /\ ~LB!Pending)
=============================================================================
