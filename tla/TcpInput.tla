------------------------------ MODULE TcpInput ------------------------------
(***************************************************************************)
(* The input side of lwtcp (tcp_input.c): what a segment from the network  *)
(* does to the pcb it is for.  mem says that the allocations the handler   *)
(* makes (a copy for ooseq, a netconn for accept) succeed.                 *)
(***************************************************************************)
EXTENDS Tcp

\* The number of leading segments of a queue that ackno acknowledges.
Acked(queue, ackno) ==
    CHOOSE k \in 0 .. Len(queue) :
        /\ \A i \in 1 .. k : TCP_SEQ_LEQ(SegEnd(queue[i]), ackno)
        /\ k < Len(queue) => ~TCP_SEQ_LEQ(SegEnd(queue[k + 1]), ackno)
Drop(queue, k) == SubSeq(queue, k + 1, Len(queue))
Pbufs(queue, k) == FoldLeftDomain(LAMBDA n, i : IF i <= k THEN n + queue[i].clen ELSE n, 0, queue)

UpdateWindow(p, s) ==
    IF \/ TCP_SEQ_LT(p.snd_wl1, s.seqno)
       \/ p.snd_wl1 = s.seqno /\ TCP_SEQ_LT(p.snd_wl2, s.ackno)
       \/ p.snd_wl2 = s.ackno /\ s.wnd > p.snd_wnd
    THEN [p EXCEPT !.snd_wnd = s.wnd, !.snd_wl1 = s.seqno, !.snd_wl2 = s.ackno]
    ELSE p

\* The congestion window grows unless that would overflow it.
Grow(cwnd, n) == IF cwnd + n < CWND_RANGE THEN cwnd + n ELSE cwnd

\* A duplicate ACK; the count matters up to 3 only.
DupAck(p) ==
    LET q == [p EXCEPT !.dupacks = MIN(@ + 1, 3)]
        ssthresh == UMAX(SeqSub(p.snd_max, p.lastack) \div 2, 2 * TCP_MSS)
    IN  CASE q.dupacks < 3 \/ q.unacked = <<>> -> q
          [] q.dupacks = 3 /\ q.unacked # <<>> /\ ~q.infr ->
                 [tcp_rexmit_seg(q, Head(q.unacked)) EXCEPT
                     !.ssthresh = ssthresh, !.cwnd = ssthresh + 3 * TCP_MSS, !.infr = TRUE]
          [] OTHER -> [q EXCEPT !.cwnd = Grow(@, TCP_MSS)]

\* Mutant of NewAck: the pbufs freed from unsent are not counted.
NewAck_uncounted(p, ackno) ==
    [p EXCEPT !.infr = FALSE, !.nrtx = 0, !.dupacks = 0, !.lastack = ackno,
              !.snd_buf = (@ + SeqSub(ackno, p.lastack)) % U16,
              !.unsent = Drop(@, Acked(@, ackno)),
              !.unacked = Drop(@, Acked(@, ackno)),
              !.snd_queuelen = @ - Pbufs(p.unacked, Acked(p.unacked, ackno))]

\* An ACK of new data.  unsent is searched first: a retransmission puts segments
\* that were sent once back there, and snd_nxt follows the head of what is left.
NewAck(p, ackno) ==
    LET cwnd == IF p.infr THEN p.ssthresh ELSE p.cwnd
        k == Acked(p.unsent, ackno)
        n == Acked(p.unacked, ackno)
        head == MIN(k + 1, Len(p.unsent))
    IN  [p EXCEPT !.infr = FALSE, !.nrtx = 0, !.dupacks = 0, !.lastack = ackno,
                  !.snd_buf = (@ + SeqSub(ackno, p.lastack)) % U16,
                  !.cwnd = IF cwnd < p.ssthresh THEN Grow(cwnd, TCP_MSS)
                           ELSE Grow(cwnd, (TCP_MSS * TCP_MSS) \div cwnd),
                  !.unsent = Drop(@, k),
                  !.unacked = Drop(@, n),
                  !.snd_queuelen = @ - Pbufs(p.unsent, k) - Pbufs(p.unacked, n),
                  !.snd_nxt = IF k > 0 /\ Len(p.unsent) > 1 THEN p.unsent[head].seqno ELSE @]

ReceiveAck(p, s) ==
    LET q == UpdateWindow(p, s)
    IN  CASE q.lastack = s.ackno -> DupAck(q)
          [] TCP_SEQ_LT(q.lastack, s.ackno) /\ TCP_SEQ_LEQ(s.ackno, q.snd_max) -> NewAck(q, s.ackno)
          [] OTHER -> q

\* Mutant of TrimFirst: the payload pointer is not moved.
TrimFirst_kept(p, t) ==
    IF TCP_SEQ_LT(t.seqno, p.rcv_nxt) /\ TCP_SEQ_LT(p.rcv_nxt, SeqAdd(t.seqno, t.len))
    THEN [t EXCEPT !.seqno = p.rcv_nxt, !.len = @ - SeqSub(p.rcv_nxt, t.seqno)]
    ELSE t

\* The first edge of a segment that starts below rcv_nxt is cut off.
TrimFirst(p, t) ==
    LET off == SeqSub(p.rcv_nxt, t.seqno)
    IN  IF TCP_SEQ_LT(t.seqno, p.rcv_nxt) /\ TCP_SEQ_LT(p.rcv_nxt, SeqAdd(t.seqno, t.len))
        THEN [t EXCEPT !.seqno = p.rcv_nxt, !.len = @ - off, !.data = Drop(@, off)]
        ELSE t

\* The segments at the head of ooseq that follow on from rcv_nxt.
NowInSequence(ooseq, rcv_nxt) ==
    LET start(i) == IF i = 1 THEN rcv_nxt ELSE SegEnd(ooseq[i - 1])
    IN  CHOOSE k \in 0 .. Len(ooseq) :
            /\ \A i \in 1 .. k : ooseq[i].seqno = start(i)
            /\ k < Len(ooseq) => ooseq[k + 1].seqno # start(k + 1)

InSequence(p, t) ==
    LET u == IF p.ooseq # <<>> /\ TCP_SEQ_LEQ(p.ooseq[1].seqno, SeqAdd(t.seqno, t.len))
             THEN Trim(t, SeqSub(p.ooseq[1].seqno, t.seqno)) ELSE t
        k == NowInSequence(p.ooseq, SegEnd(u))
        nxt == IF k = 0 THEN SegEnd(u) ELSE SegEnd(p.ooseq[k])
    IN  tcp_ack([p EXCEPT
            !.rcv_nxt = nxt,
            !.rcv_wnd = UMAX(0, @ - SeqSub(nxt, p.rcv_nxt)),
            !.recv_data = FoldLeftDomain(LAMBDA d, i : IF i <= k THEN d \o p.ooseq[i].data ELSE d,
                                         u.data, p.ooseq),
            !.got_fin = @ \/ "FIN" \in u.flags,
            !.ooseq = Drop(@, k)])

\* ooseq is ordered by sequence number; neighbours are trimmed, and of two segments
\* that start together the longer one is kept.
Insert(ooseq, t) ==
    LET same  == {i \in DOMAIN ooseq : ooseq[i].seqno = t.seqno}
        below == {i \in DOMAIN ooseq : TCP_SEQ_LT(ooseq[i].seqno, t.seqno)}
        k     == Cardinality(below)
        Cut(seg, seqno) == IF TCP_SEQ_LT(seqno, SeqAdd(seg.seqno, seg.len))
                           THEN Trim(seg, SeqSub(seqno, seg.seqno)) ELSE seg
        prev  == IF k = 0 THEN <<>>
                 ELSE Append(SubSeq(ooseq, 1, k - 1), Cut(ooseq[k], t.seqno))
        this  == IF k = Len(ooseq) THEN t ELSE Cut(t, ooseq[k + 1].seqno)
    IN  IF same # {}
        THEN [i \in DOMAIN ooseq |-> IF i \in same /\ t.len > ooseq[i].len THEN t ELSE ooseq[i]]
        ELSE prev \o <<this>> \o Drop(ooseq, k)

OutOfSequence(p, t, mem) ==
    [tcp_ack_now(p) EXCEPT !.ooseq = IF mem THEN Insert(@, t) ELSE @]

ReceiveData(p, s, mem) ==
    LET t == TrimFirst(p, Seg(s.seqno, s.data, s.flags))
        right == SeqAdd(p.rcv_nxt, p.rcv_wnd)
        inWindow == TCP_SEQ_LEQ(p.rcv_nxt, t.seqno) /\ TCP_SEQ_LT(t.seqno, right)
    IN  CASE TCP_TCPLEN(t) = 0 -> IF inWindow THEN p ELSE tcp_ack_now(p)
          [] TCP_TCPLEN(t) > 0 /\ inWindow ->
                 IF t.seqno = p.rcv_nxt THEN InSequence(p, t) ELSE OutOfSequence(p, t, mem)
          [] OTHER -> p

tcp_receive(p, s, mem) ==
    ReceiveData(IF "ACK" \in s.flags THEN ReceiveAck(p, s) ELSE p, s, mem)

(***************************************************************************)
(* tcp_process: the state machine                                          *)
(***************************************************************************)
TimeWait(p) == [tcp_pcb_purge(tcp_ack_now(p)) EXCEPT !.state = "TIME_WAIT"]

ResetAcceptable(p, s) ==
    IF p.state = "SYN_SENT" THEN s.ackno = p.snd_nxt
    ELSE /\ TCP_SEQ_LEQ(p.rcv_nxt, s.seqno)
         /\ TCP_SEQ_LEQ(s.seqno, SeqAdd(p.rcv_nxt, p.rcv_wnd))

ProcessSynSent(p, s) ==
    IF {"ACK", "SYN"} \subseteq s.flags /\ s.ackno = SeqAdd(p.unacked[1].seqno, 1)
    THEN tcp_ack([p EXCEPT !.rcv_nxt = SeqAdd(s.seqno, 1), !.lastack = s.ackno,
                           !.rcv_wnd = s.wnd, !.state = "ESTABLISHED", !.cwnd = TCP_MSS,
                           !.snd_queuelen = @ - 1, !.unacked = Tail(@)])
    ELSE p

\* The accept callback makes a netconn for the new connection, or fails: the pcb is
\* then freed, and tcp_input goes on with the freed block.  It still holds what
\* tcp_abort left there, for pcbs are allocated by this thread only: a closed pcb with
\* nothing to report and nothing to send.
ProcessSynRcvd(p, s, mem) ==
    CASE ~( /\ "ACK" \in s.flags
            /\ TCP_SEQ_LT(p.lastack, s.ackno)
            /\ TCP_SEQ_LEQ(s.ackno, p.snd_nxt) ) -> p
      [] OTHER -> IF mem
                  THEN [tcp_receive([p EXCEPT !.state = "ESTABLISHED", !.app = TRUE], s, mem)
                           EXCEPT !.cwnd = TCP_MSS]
                  ELSE tcp_abort([p EXCEPT !.state = "ESTABLISHED"])

\* What a segment does to the state, once tcp_receive has made q of the pcb p.
Transition(p, q, s) ==
    LET fin   == "FIN" \in s.flags
        acked == "ACK" \in s.flags /\ s.ackno = q.snd_nxt
    IN  CASE p.state \in {"ESTABLISHED", "CLOSE_WAIT"} ->
                 IF fin THEN [tcp_ack_now(q) EXCEPT !.state = "CLOSE_WAIT"] ELSE q
          [] p.state = "FIN_WAIT_1" ->
                 CASE fin /\ acked  -> TimeWait(q)
                   [] fin /\ ~acked -> [tcp_ack_now(q) EXCEPT !.state = "CLOSING"]
                   [] ~fin /\ acked -> [q EXCEPT !.state = "FIN_WAIT_2"]
                   [] OTHER         -> q
          [] p.state = "FIN_WAIT_2" -> IF fin THEN TimeWait(q) ELSE q
          [] p.state = "CLOSING"    -> IF acked THEN TimeWait(q) ELSE q
          [] p.state = "LAST_ACK"   -> IF acked THEN [q EXCEPT !.state = "CLOSED", !.closed = TRUE] ELSE q

ProcessTimeWait(p, s) ==
    LET right == SeqAdd(s.seqno, TCP_TCPLEN(Seg(s.seqno, s.data, s.flags)))
        q == IF TCP_SEQ_LT(p.rcv_nxt, right) THEN [p EXCEPT !.rcv_nxt = right] ELSE p
    IN  IF right # s.seqno THEN tcp_ack_now(q) ELSE q

tcp_process(p, s, mem) ==
    CASE "RST" \in s.flags -> IF ResetAcceptable(p, s)
                              THEN [p EXCEPT !.reset = TRUE, !.delay = FALSE] ELSE p
      [] OTHER ->
    CASE p.state = "SYN_SENT"  -> ProcessSynSent(p, s)
      [] p.state = "SYN_RCVD"  -> ProcessSynRcvd(p, s, mem)
      [] p.state = "TIME_WAIT" -> ProcessTimeWait(p, s)
      [] OTHER                 -> Transition(p, tcp_receive(p, s, mem), s)

(***************************************************************************)
(* tcp_input                                                               *)
(***************************************************************************)
\* A segment for a pcb on the active or the TIME-WAIT list.
Deliver(p, mem) ==
    LET q == [p EXCEPT !.taken = p.recv_data, !.up = IF p.got_fin THEN {"EOF"} ELSE {}]
    IN  CASE p.app              -> q
          [] ~p.app /\ p.got_fin -> tcp_close(p, mem)
          [] OTHER              -> p

Processed(p, mem) ==
    CASE p.reset -> tcp_pcb_remove(Tell(p, "RST"))
      [] ~p.reset /\ p.closed -> tcp_pcb_remove(p)
      [] p.state = "TIME_WAIT" -> tcp_output([p EXCEPT !.recv_data = <<>>])
      [] OTHER -> tcp_output([Deliver(p, mem) EXCEPT !.recv_data = <<>>])

InputConnection(p, s, mem) == Processed(tcp_process(p, s, mem), mem)

\* A segment for a listener: a SYN makes a new pcb that answers SYN|ACK.
InputListen(s, iss, mem) ==
    LET p == tcp_new(iss)
    IN  CASE "RST" \in s.flags -> p
          [] "ACK" \in s.flags /\ "RST" \notin s.flags ->
                 [p EXCEPT !.out = <<tcp_rst(SeqAdd(s.ackno, 1),
                              SeqAdd(s.seqno, TCP_TCPLEN(Seg(s.seqno, s.data, s.flags))))>>]
          [] s.flags = {"SYN"} /\ mem ->
                 tcp_output(tcp_enqueue([p EXCEPT !.state = "SYN_RCVD", !.rcv_nxt = SeqAdd(s.seqno, 1),
                                                  !.snd_wnd = s.wnd, !.ssthresh = s.wnd,
                                                  !.snd_wl1 = s.seqno], <<>>, {"SYN", "ACK"}))
          [] OTHER -> p

\* A segment no pcb matches.
InputNoMatch(p, s) ==
    IF "RST" \in s.flags THEN p
    ELSE [p EXCEPT !.out = <<tcp_rst(s.ackno,
                      SeqAdd(s.seqno, TCP_TCPLEN(Seg(s.seqno, s.data, s.flags))))>>]
============================================================================
