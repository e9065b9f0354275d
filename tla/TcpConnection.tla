--------------------------- MODULE TcpConnection ---------------------------
(***************************************************************************)
(* One TCP connection between two instances of SCONE's stack: a client     *)
(* that connects and a server that listens, over a network that loses,     *)
(* duplicates and reorders segments.  Each end runs the handlers of Tcp    *)
(* and TcpInput, one at a time, in its transport thread.                   *)
(***************************************************************************)
EXTENDS TcpInput

CONSTANTS ISS,       \* the initial sequence number of each end
          SCENARIOS  \* what a behaviour may contain, records of
                     \*   open    the behaviour starts with the connection established
                     \*   stream  the bytes each end has to write
                     \*   closes  the ends whose application closes, once it has written
                     \*   faults  bound on losses, duplications, overtakings, failed allocations
                     \*   rto     bound on retransmission timeouts

VARIABLES scenario,
          pcb,        \* the pcb of each end, CLOSED when there is none
          fresh,      \* the server has had no connection yet
          net,        \* the segments in flight to each end
          written,    \* bytes the application has written
          received,   \* bytes handed to the application, in order
          unread,     \* of these, the bytes it has not taken from its mailbox
          news,       \* the EOFs and errors the application was told
          faults, rtos
vars == <<scenario, pcb, fresh, net, written, received, unread, news, faults, rtos>>

Ends == {"client", "server"}
Other(e) == CHOOSE f \in Ends : f # e

\* What is left of a pcb when its segments, data and news have gone out.
Quiet(p) == [p EXCEPT !.out = <<>>, !.taken = <<>>, !.up = {}]

tcp_open == tcp_connect([tcp_new(ISS["client"]) EXCEPT !.app = TRUE], ISS["client"])

\* Both pcbs after a handshake without faults.
Established ==
    LET s == InputListen(tcp_open.out[1], ISS["server"], TRUE)
        c == tcp_fasttmr(Quiet(InputConnection(Quiet(tcp_open), s.out[1], TRUE)))
    IN  [client |-> Quiet(c), server |-> Quiet(InputConnection(Quiet(s), c.out[1], TRUE))]

Init == /\ scenario \in SCENARIOS
        /\ pcb = IF scenario.open THEN Established ELSE [e \in Ends |-> tcp_new(0)]
        /\ fresh = ~scenario.open
        /\ net = [e \in Ends |-> <<>>]
        /\ written = [e \in Ends |-> 0]
        /\ received = [e \in Ends |-> <<>>]
        /\ unread = [e \in Ends |-> 0]
        /\ news = [e \in Ends |-> {}]
        /\ faults = 0 /\ rtos = 0

\* A handler has turned the pcb of e into p, with in[e] left to come: its segments
\* go to the network, its data and its news to the application.
Became(e, p, in) ==
    /\ pcb' = [pcb EXCEPT ![e] = Quiet(p)]
    /\ net' = [net EXCEPT ![e] = in, ![Other(e)] = @ \o p.out]
    /\ received' = [received EXCEPT ![e] = @ \o p.taken]
    /\ unread' = [unread EXCEPT ![e] = @ + Len(p.taken)]
    /\ news' = [news EXCEPT ![e] = @ \cup p.up]

Fault(n) == faults + n <= scenario.faults /\ faults' = faults + n

Connect ==
    /\ pcb["client"].state = "CLOSED" /\ fresh /\ news["client"] = {}
    /\ net["server"] = <<>>
    /\ Became("client", tcp_open, net["client"])
    /\ UNCHANGED <<scenario, fresh, written, faults, rtos>>

Write(e, n) ==
    /\ pcb[e].app /\ pcb[e].state # "SYN_SENT"
    /\ written[e] + n <= scenario.stream[e]
    /\ LET data == [i \in 1 .. n |-> written[e] + i]
       IN  CanWrite(pcb[e], data) /\ Became(e, do_write(pcb[e], data), net[e])
    /\ written' = [written EXCEPT ![e] = @ + n]
    /\ UNCHANGED <<scenario, fresh, faults, rtos>>

Read(e) ==
    /\ unread[e] > 0 /\ pcb[e].app
    /\ LET p == tcp_recved(pcb[e], unread[e])
       IN  /\ pcb' = [pcb EXCEPT ![e] = Quiet(p)]
           /\ net' = [net EXCEPT ![Other(e)] = @ \o p.out]
    /\ unread' = [unread EXCEPT ![e] = 0]
    /\ UNCHANGED <<scenario, fresh, written, received, news, faults, rtos>>

Close(e, mem) ==
    /\ pcb[e].app /\ e \in scenario.closes /\ written[e] = scenario.stream[e]
    /\ Fault(IF mem THEN 0 ELSE 1)
    /\ Became(e, do_delconn(pcb[e], mem), net[e])
    /\ UNCHANGED <<scenario, fresh, written, rtos>>

FastTimer(e) ==
    /\ pcb[e].delay
    /\ Became(e, tcp_fasttmr(pcb[e]), net[e])
    /\ UNCHANGED <<scenario, fresh, written, faults, rtos>>

SlowTimer(e, due) ==
    /\ rtos' = IF due = "rto" THEN rtos + 1 ELSE rtos
    /\ rtos' <= scenario.rto
    /\ LET p == tcp_slowtmr(pcb[e], due)
       IN  p # pcb[e] /\ Became(e, p, net[e])
    /\ UNCHANGED <<scenario, fresh, written, faults>>

\* tcp_input.  The pcb pool holds one server pcb: a second SYN finds it empty.
tcp_input(e, s, mem) ==
    CASE pcb[e].state # "CLOSED" -> InputConnection(pcb[e], s, mem)
      [] pcb[e].state = "CLOSED" /\ e = "server" -> InputListen(s, ISS[e], mem /\ fresh)
      [] OTHER -> InputNoMatch(pcb[e], s)

\* The segment has turned the pcb of e into p.
Handled(e, p, in) == Became(e, p, in) /\ fresh' = (fresh /\ p.state # "SYN_RCVD")

\* The i-th segment in flight arrives, and stays in flight if it was duplicated.
Input(e, i, mem, dup) ==
    /\ Fault((IF i > 1 THEN 1 ELSE 0) + (IF mem THEN 0 ELSE 1) + (IF dup THEN 1 ELSE 0))
    /\ ~mem => tcp_input(e, net[e][i], FALSE) # tcp_input(e, net[e][i], TRUE)
    /\ Handled(e, tcp_input(e, net[e][i], mem), IF dup THEN net[e] ELSE RemoveAt(net[e], i))
    /\ UNCHANGED <<scenario, written, rtos>>

Lose(e, i) ==
    /\ Fault(1)
    /\ net' = [net EXCEPT ![e] = RemoveAt(@, i)]
    /\ UNCHANGED <<scenario, pcb, fresh, written, received, unread, news, rtos>>

Next == \/ Connect
        \/ \E e \in Ends : \/ \E n \in 1 .. 2 : Write(e, n)
                           \/ Read(e)
                           \/ \E mem \in BOOLEAN : Close(e, mem)
                           \/ FastTimer(e)
                           \/ \E due \in Timers : SlowTimer(e, due)
                           \/ \E i \in DOMAIN net[e], mem, dup \in BOOLEAN : Input(e, i, mem, dup)
                           \/ \E i \in DOMAIN net[e] : Lose(e, i)

Spec == Init /\ [][Next]_vars

----------------------------------------------------------------------------
Live(e) == pcb[e].state \in ActiveStates \ {"SYN_SENT"}
Queue(e) == pcb[e].unacked \o pcb[e].unsent

\* The application at each end has been handed a prefix of what the other end's
\* application wrote, byte for byte, and is told of the end of the stream only when
\* it has all of it, whatever the network loses, repeats or reorders and however
\* retransmissions cut the stream (tcp_receive: trimming, ooseq, TF_GOT_FIN).
StreamIntact == \A e \in Ends :
    /\ Len(received[e]) <= written[Other(e)]
    /\ \A i \in DOMAIN received[e] : received[e][i] = i
    /\ "EOF" \in news[e] => Len(received[e]) = written[Other(e)]

\* Everything that is not acknowledged can still be retransmitted: unacked and then
\* unsent hold one contiguous run of the sequence space that starts at or below lastack
\* and ends at snd_lbb, also after tcp_slowtmr has moved segments back to unsent and an
\* ACK has emptied part of either queue (tcp_receive, tcp_slowtmr, tcp_output).
UnackedIsKept == \A e \in Ends :
    LET q == Queue(e)
    IN  Live(e) =>
            IF q = <<>> THEN pcb[e].lastack = pcb[e].snd_lbb
            ELSE /\ TCP_SEQ_LEQ(q[1].seqno, pcb[e].lastack)
                 /\ \A i \in 1 .. Len(q) - 1 : SegEnd(q[i]) = q[i + 1].seqno
                 /\ SegEnd(q[Len(q)]) = pcb[e].snd_lbb

\* The two counters that throttle the application agree with the queues: snd_queuelen
\* is the number of pbufs in unsent and unacked, and snd_buf what TCP_SND_BUF leaves
\* beside the unacknowledged bytes.  A client is one byte short for ever: the ACK of
\* its SYN is processed without giving the byte back (tcp_process, SYN_SENT).
SendBufferAccounted == \A e \in Ends :
    LET q == Queue(e)
        syn == IF e = "client" THEN 1 ELSE 0
    IN  Live(e) =>
            /\ pcb[e].snd_queuelen = Pbufs(q, Len(q))
            /\ pcb[e].snd_buf =
                   (TCP_SND_BUF - syn - SeqSub(pcb[e].snd_lbb, pcb[e].lastack)) % U16

\* No end acknowledges, or is told that it may forget, a byte the other end does not
\* have; and no data in flight lies beyond the right edge of the receiver's window, so
\* that a segment is never dropped for want of room (snd_wnd, snd_wl1, snd_wl2, rcv_wnd).
WindowRespected == \A e \in Ends :
    LET p == pcb[e]
        s == pcb[Other(e)]
    IN  p.state \in ActiveStates \ {"SYN_SENT", "SYN_RCVD"} /\ Live(Other(e)) =>
            /\ TCP_SEQ_LEQ(s.lastack, p.rcv_nxt)
            /\ \A i \in DOMAIN net[e] :
                   net[e][i].data # <<>> =>
                       TCP_SEQ_LEQ(SeqAdd(net[e][i].seqno, Len(net[e][i].data)),
                                   SeqAdd(p.rcv_nxt, p.rcv_wnd))

\* The application learns of the end of the stream: once an end has acknowledged the
\* other end's FIN it has reported EOF.  tcp_receive says of TF_GOT_FIN that it "will be
\* used to indicate to the application that the remote side has closed its end"; a FIN
\* that waits on ooseq is acknowledged without it.
FinIsReported == \A e \in Ends :
    LET p == pcb[e]
        s == pcb[Other(e)]
    IN  /\ p.app /\ p.state \in {"ESTABLISHED", "CLOSE_WAIT"}
        /\ s.state \in {"FIN_WAIT_1", "FIN_WAIT_2", "CLOSING", "LAST_ACK"}
        /\ p.rcv_nxt = s.snd_lbb
        => "EOF" \in news[e]
============================================================================
