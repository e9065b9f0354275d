-------------------------------- MODULE Tcp --------------------------------
(***************************************************************************)
(* The TCP of SCONE's user-level stack (lwtcp/tcp.c, tcp_input.c,          *)
(* tcp_output.c), as operators on a protocol control block.  A pcb is a    *)
(* record; a handler maps a pcb to the pcb after it.  Three fields collect *)
(* what the handler does to the outside: out, the segments it sends;       *)
(* taken, the bytes it hands to the application; up, the EOF or the error  *)
(* it reports.  Sequence numbers are modulo SEQ_RANGE (2^32 in the code)   *)
(* and compared through their signed difference.  A data byte is its       *)
(* position in the written stream.  Clocks are abstracted: a timer that    *)
(* runs may be due at any slow tick.                                       *)
(***************************************************************************)
EXTENDS Integers, SequencesExt

CONSTANTS SEQ_RANGE,         \* size of the sequence space, a power of two
          TCP_WND,           \* receive window of a fresh pcb
          TCP_MSS,           \* maximum segment size
          TCP_SND_BUF,       \* send buffer, in bytes
          TCP_SND_QUEUELEN,  \* send queue, in pbufs
          TCP_MAXRTX, TCP_SYNMAXRTX,
          CWND_RANGE         \* the congestion window stays below it

U16 == 65536
SeqAdd(a, n) == (a + n) % SEQ_RANGE
SeqSub(a, b) == (a - b) % SEQ_RANGE
TCP_SEQ_LT(a, b) == SeqSub(a, b) >= SEQ_RANGE \div 2
TCP_SEQ_LEQ(a, b) == a = b \/ TCP_SEQ_LT(a, b)
UMAX(a, b) == IF a > b THEN a ELSE b
MIN(a, b) == IF a < b THEN a ELSE b

\* A segment in the pcb's queues; clen is the number of pbufs it is made of.
Seg(seqno, data, flags) ==
    [seqno |-> seqno, len |-> Len(data), data |-> data, flags |-> flags, clen |-> 1]
TCP_TCPLEN(seg) == seg.len + (IF seg.flags \cap {"SYN", "FIN"} # {} THEN 1 ELSE 0)
SegEnd(seg) == SeqAdd(seg.seqno, TCP_TCPLEN(seg))

\* pbuf_realloc: the chain is cut to len bytes, and never grows.
Trim(seg, len) == [seg EXCEPT !.len = len, !.data = SubSeq(@, 1, MIN(Len(@), len))]

ActiveStates == {"SYN_SENT", "SYN_RCVD", "ESTABLISHED", "FIN_WAIT_1", "FIN_WAIT_2",
                 "CLOSE_WAIT", "CLOSING", "LAST_ACK"}

\* tcp_new.  delay, infr, got_fin, reset and closed are the flags TF_ACK_DELAY, TF_INFR,
\* TF_GOT_FIN, TF_RESET and TF_CLOSED; app says that the netconn callbacks are set.
tcp_new(iss) ==
    [state |-> "CLOSED", snd_nxt |-> iss, snd_max |-> iss, lastack |-> iss, snd_lbb |-> iss,
     snd_wnd |-> 0, snd_wl1 |-> 0, snd_wl2 |-> iss, snd_buf |-> TCP_SND_BUF, snd_queuelen |-> 0,
     cwnd |-> 1, ssthresh |-> 0, dupacks |-> 0, nrtx |-> 0, rcv_nxt |-> 0, rcv_wnd |-> TCP_WND,
     unsent |-> <<>>, unacked |-> <<>>, ooseq |-> <<>>, recv_data |-> <<>>,
     delay |-> FALSE, infr |-> FALSE, got_fin |-> FALSE, reset |-> FALSE, closed |-> FALSE,
     app |-> FALSE,
     out |-> <<>>, taken |-> <<>>, up |-> {}]

(***************************************************************************)
(* Output                                                                  *)
(***************************************************************************)
Wire(seqno, data, flags, ackno, wnd) ==
    [seqno |-> seqno, data |-> data, flags |-> flags, ackno |-> ackno, wnd |-> wnd]

tcp_ack_now(p) ==
    [p EXCEPT !.delay = FALSE,
              !.out = Append(@, Wire(p.snd_nxt, <<>>, {"ACK"}, p.rcv_nxt, p.rcv_wnd))]

tcp_ack(p) == IF p.delay THEN tcp_ack_now(p) ELSE [p EXCEPT !.delay = TRUE]

tcp_rst(seqno, ackno) == Wire(seqno, <<>>, {"RST", "ACK"}, ackno, 0)

\* Mutant of Fits: only the congestion window limits the sender.
Fits_cwnd(p, seg) == SeqSub(seg.seqno, p.lastack) + seg.len <= p.cwnd

Fits(p, seg) == SeqSub(seg.seqno, p.lastack) + seg.len <= MIN(p.snd_wnd, p.cwnd)

\* tcp_output_segment hides a window smaller than a segment.
OutputSegment(p, seg) ==
    Wire(seg.seqno, seg.data, seg.flags, p.rcv_nxt, IF p.rcv_wnd < TCP_MSS THEN 0 ELSE p.rcv_wnd)

\* tcp_output with TF_ACK_NOW clear: the longest prefix of unsent that fits goes out.
tcp_output(p) ==
    LET n == CHOOSE k \in 0 .. Len(p.unsent) :
                 /\ \A i \in 1 .. k : Fits(p, p.unsent[i])
                 /\ k < Len(p.unsent) => ~Fits(p, p.unsent[k + 1])
        acks == p.state # "SYN_SENT"
        sent == [i \in 1 .. n |-> IF acks THEN [p.unsent[i] EXCEPT !.flags = @ \cup {"ACK"}]
                                          ELSE p.unsent[i]]
        nxt  == SegEnd(p.unsent[n])
    IN  IF n = 0 THEN p
        ELSE [p EXCEPT !.unsent = SubSeq(@, n + 1, Len(@)),
                       !.unacked = @ \o SelectSeq(sent, LAMBDA s : TCP_TCPLEN(s) > 0),
                       !.delay = @ /\ ~acks,
                       !.snd_nxt = nxt,
                       !.snd_max = IF TCP_SEQ_LT(@, nxt) THEN nxt ELSE @,
                       !.out = @ \o [i \in 1 .. n |-> OutputSegment(p, sent[i])]]

tcp_rexmit_seg(p, seg) ==
    IF Fits(p, seg)
    THEN [p EXCEPT !.nrtx = @ + 1,
                   !.out = Append(@, Wire(seg.seqno, seg.data, seg.flags, p.rcv_nxt, p.rcv_wnd))]
    ELSE p

\* tcp_enqueue: the segments a write of data (or a control flag) is cut into.
Pieces(p, data, flags) ==
    LET n == UMAX(1, (Len(data) + TCP_MSS - 1) \div TCP_MSS)
    IN  [i \in 1 .. n |-> Seg(SeqAdd(p.snd_lbb, (i - 1) * TCP_MSS),
                             SubSeq(data, (i - 1) * TCP_MSS + 1, MIN(i * TCP_MSS, Len(data))), flags)]

CanEnqueue(p, data, flags) ==
    /\ Len(data) <= p.snd_buf
    /\ p.snd_queuelen + Len(Pieces(p, data, flags)) <= TCP_SND_QUEUELEN

tcp_enqueue(p, data, flags) ==
    LET queue == Pieces(p, data, flags)
        u     == p.unsent[Len(p.unsent)]
        len   == Len(data) + (IF flags \cap {"SYN", "FIN"} # {} THEN 1 ELSE 0)
        chain == /\ p.unsent # <<>>
                 /\ TCP_TCPLEN(u) # 0
                 /\ (u.flags \cup flags) \cap {"SYN", "FIN"} = {}
                 /\ u.len + queue[1].len <= TCP_MSS
    IN  [p EXCEPT !.unsent = IF chain
                             THEN Front(@) \o <<[u EXCEPT !.data = @ \o queue[1].data,
                                                          !.len = @ + queue[1].len,
                                                          !.clen = @ + 1]>> \o Tail(queue)
                             ELSE @ \o queue,
                  !.snd_lbb = SeqAdd(@, len),
                  !.snd_buf = (@ - len) % U16,
                  !.snd_queuelen = @ + Len(queue)]

(***************************************************************************)
(* Opening, closing and removing a pcb                                     *)
(***************************************************************************)
tcp_connect(p, iss) ==
    tcp_output(tcp_enqueue([p EXCEPT !.rcv_nxt = 0, !.snd_nxt = iss, !.lastack = SeqSub(iss, 1),
                                     !.snd_lbb = SeqSub(iss, 1), !.rcv_wnd = TCP_WND,
                                     !.snd_wnd = TCP_WND, !.cwnd = 1, !.ssthresh = 10 * TCP_MSS,
                                     !.state = "SYN_SENT"], <<>>, {"SYN"}))

\* do_write: tcp_write, then tcp_output unless data is still unacknowledged (Nagle).
CanWrite(p, data) ==
    /\ p.state \in {"SYN_SENT", "SYN_RCVD", "ESTABLISHED", "CLOSE_WAIT"}
    /\ CanEnqueue(p, data, {})
do_write(p, data) ==
    LET q == tcp_enqueue(p, data, {})
    IN  IF q.unacked = <<>> THEN tcp_output(q) ELSE q

tcp_pcb_purge(p) ==
    IF p.state \in {"CLOSED", "TIME_WAIT", "LISTEN"} THEN p
    ELSE [p EXCEPT !.unsent = <<>>, !.unacked = <<>>, !.ooseq = <<>>]

\* tcp_pcb_remove and memp_free: a delayed ACK goes out, the pcb is gone.
tcp_pcb_remove(p) ==
    LET q == tcp_pcb_purge(p)
        r == IF q.delay /\ q.state # "TIME_WAIT" THEN tcp_ack_now(q) ELSE q
    IN  [tcp_new(0) EXCEPT !.out = r.out, !.taken = r.taken, !.up = r.up]

Tell(p, event) == IF p.app THEN [p EXCEPT !.up = @ \cup {event}] ELSE p

tcp_abort(p) ==
    LET q == tcp_pcb_remove(p)
    IN  IF p.state = "TIME_WAIT" THEN q
        ELSE [q EXCEPT !.up = Tell(p, "ABRT").up,
                       !.out = Append(@, tcp_rst(p.snd_nxt, p.rcv_nxt))]

\* tcp_close; mem says that the FIN could be allocated.
NeedsFin(p) == p.state \in {"SYN_RCVD", "ESTABLISHED", "CLOSE_WAIT"}
CloseFails(p, mem) == NeedsFin(p) /\ ~(mem /\ CanEnqueue(p, <<>>, {"FIN"}))
tcp_close(p, mem) ==
    CASE p.state = "SYN_SENT" -> tcp_pcb_remove(p)
      [] CloseFails(p, mem)   -> p
      [] NeedsFin(p) /\ ~CloseFails(p, mem) ->
             tcp_output([tcp_enqueue(p, <<>>, {"FIN"}) EXCEPT
                            !.state = IF @ = "CLOSE_WAIT" THEN "LAST_ACK" ELSE "FIN_WAIT_1"])
      [] OTHER -> p

\* do_delconn: the callbacks go, then tcp_close, and tcp_abort if that fails.
do_delconn(p, mem) ==
    LET q == [p EXCEPT !.app = FALSE]
    IN  IF CloseFails(q, mem) THEN tcp_abort(q) ELSE tcp_close(q, mem)

\* do_recv: tcp_recved.
tcp_recved(p, len) == tcp_ack([p EXCEPT !.rcv_wnd = MIN(@ + len, TCP_WND)])

(***************************************************************************)
(* Timers                                                                  *)
(***************************************************************************)
tcp_fasttmr(p) == IF p.state \in ActiveStates /\ p.delay THEN tcp_ack_now(p) ELSE p

\* Mutant of Retransmit: what had not been sent yet is cut off the list.
Retransmit_cut(p) ==
    [tcp_rexmit_seg(p, Head(p.unacked)) EXCEPT !.unacked = <<Head(@)>>, !.cwnd = TCP_MSS,
        !.unsent = IF Len(p.unacked) > 1 THEN Tail(p.unacked) ELSE @]

\* The retransmission timer: all but the first unacked segment return to unsent.
Retransmit(p) ==
    LET rest == Tail(p.unacked)
        q == [p EXCEPT !.unacked = <<Head(@)>>,
                       !.unsent = rest \o @,
                       !.snd_nxt = IF rest # <<>> THEN rest[1].seqno ELSE @]
        r == tcp_rexmit_seg(q, Head(p.unacked))
        half == MIN(p.cwnd, p.snd_wnd) \div 2
    IN  [r EXCEPT !.ssthresh = IF half < TCP_MSS THEN 2 * TCP_MSS ELSE half, !.cwnd = TCP_MSS]

\* tcp_slowtmr for one pcb; due names the timer that has run out at this tick.
Timers == {"rto", "wait", "ooseq", "poll"}
GivenUp(p) == \/ p.state = "SYN_SENT" /\ p.nrtx = TCP_SYNMAXRTX
              \/ p.nrtx = TCP_MAXRTX
tcp_slowtmr(p, due) ==
    LET q == IF due = "rto" /\ p.unacked # <<>> /\ ~GivenUp(p) THEN Retransmit(p) ELSE p
        r == IF due = "ooseq" THEN [q EXCEPT !.ooseq = <<>>] ELSE q
        gone == [tcp_new(0) EXCEPT !.out = r.out]
    IN  CASE p.state = "TIME_WAIT" -> IF due = "wait" THEN gone ELSE p
          [] p.state \in ActiveStates ->
                 IF GivenUp(p) \/ (due = "wait" /\ p.state \in {"FIN_WAIT_2", "SYN_RCVD"})
                 THEN [gone EXCEPT !.up = Tell(r, "ABRT").up]
                 ELSE IF due = "poll" /\ p.app THEN tcp_output(r) ELSE r
          [] OTHER -> p
============================================================================
