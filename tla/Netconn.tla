------------------------------ MODULE Netconn ------------------------------
(* One connection of the lwip sockets API as the CLI and web servers use    *)
(* it: a server thread that calls lwip_accept, lwip_recv, lwip_send and     *)
(* lwip_close (sockets.c, api_lib.c), and the transport thread that takes   *)
(* the calls and the segments from its mailbox (transport_subsys.c) and     *)
(* runs the handlers and callbacks of api_msg.c.  The two threads share the *)
(* netconn with no lock: a field that is tested in one step may have        *)
(* changed when the next one uses it.  Mailboxes are queues, which SysMbox  *)
(* shows of them; of the protocol control block (TcpConnection) only what   *)
(* the API looks at is kept.                                                *)
EXTENDS Integers, SequencesExt

CONSTANTS
    MEMP_NUM_API_MSG, MEMP_NUM_TCP_MSG,
    SND_BUF,        \* bytes of pcb->snd_buf
    PBUF_LEN,       \* bytes of a received pbuf
    SCENARIOS       \* what the peer, the server and the memory do

\* A scenario is a record of bounds: data segments, fin if the peer closes, late
\* segments after its FIN, rst if it resets, sends (the sizes of the sends), nomem
\* failures of tcp_write and of the allocation of a netbuf, netconn (one is made for
\* the connection, "none" is left in its pool, or it gets "part" of its mailboxes
\* and its semaphore), socket if one is left, busy api_msgs that other threads
\* hold, and crowd, the messages that segments of other connections hold.
VARIABLES
    plan,       \* what is left of the scenario
    conn,       \* the netconn
    pcb,        \* its protocol control block
    tq,         \* the mailbox of the transport thread
    apimsgs,    \* MEMP_API_MSG elements in use
    app,        \* the server thread
    trans,      \* what the transport thread still does for its message
    given, taken, \* history: pbufs handed to recv_tcp, bytes lwip_recv returned
    freed,      \* history: how often each pbuf was freed
    queued,     \* history: bytes tcp_write accepted
    bad,        \* history: accesses to memory that is freed or NULL
    rough       \* history: events the API does not survive

vars == <<plan, conn, pcb, tq, apimsgs, app, trans, given, taken, freed, queued, bad, rough>>

Null == [st |-> "null", q |-> <<>>]
Live == [st |-> "live", q |-> <<>>]
EOF == 0    \* the NULL that recv_tcp and err_tcp post

NoConn == [alloc |-> FALSE, err |-> "OK", writing |-> FALSE, mbox |-> Null,
           recvmbox |-> Null, sem |-> "null"]
NewConn == [alloc |-> TRUE, err |-> "OK", writing |-> FALSE, mbox |-> Live,
            recvmbox |-> Live, sem |-> "0"]

Idle == [pc |-> "idle", size |-> 0, len |-> 0, buf |-> EOF, offset |-> 0, done |-> 0]

Init ==
    /\ plan \in SCENARIOS
    /\ conn = NoConn
    /\ pcb = [open |-> TRUE, conn |-> FALSE, null |-> TRUE, used |-> 0, got_fin |-> FALSE]
    /\ tq = <<>> /\ apimsgs = plan.busy
    /\ app = [Idle EXCEPT !.pc = "accept"]
    /\ trans = <<[do |-> "accept", arg |-> 0]>>
    /\ given = 0 /\ taken = <<>> /\ queued = 0 /\ bad = {} /\ rough = {}
    /\ freed = [p \in 1 .. plan.data |-> 0]

-----------------------------------------------------------------------------
(* The server thread.  A call returns to "idle".                            *)

\* Messages of the pool MEMP_TCP_MSG: those queued and the one being handled.
TcpMsgs == plan.crowd + Len(tq) + (IF trans = <<>> THEN 0 ELSE 1)

\* The field of a netconn the server thread uses is there.
Uses(ok, what) == bad' = IF conn.alloc /\ ok THEN bad ELSE bad \cup {what}

\* api_msg_post, transport_apimsg: without a message for the transport
\* thread nothing is posted, and the caller waits all the same.
api_msg_post(op) ==
    IF TcpMsgs < MEMP_NUM_TCP_MSG
    THEN tq' = Append(tq, op) /\ UNCHANGED rough
    ELSE rough' = rough \cup {"call dropped"} /\ UNCHANGED tq

Goto(l) == app' = [app EXCEPT !.pc = l]

\* netconn_accept: the netconn accept_function posted.
Accept ==
    /\ app.pc = "accept" /\ conn.alloc
    /\ Goto("peer")
    /\ UNCHANGED <<plan, conn, pcb, tq, apimsgs, trans, given, taken, freed, queued, bad, rough>>

\* netconn_peer reads the pcb and sets conn->err; without a socket the
\* netconn is deleted.
AcceptPeer ==
    /\ app.pc = "peer"
    /\ Uses(~pcb.null, "NULL pcb")
    /\ conn' = [conn EXCEPT !.err = "OK"]
    /\ rough' = IF conn.err # "OK" THEN rough \cup {"error overwritten"} ELSE rough
    /\ Goto(IF plan.socket THEN "idle" ELSE "eof")
    /\ UNCHANGED <<plan, pcb, tq, apimsgs, trans, given, taken, freed, queued>>

\* lwip_recvfrom: data left over from the last call is used first;
\* otherwise netconn_recv tests recvmbox and err.
RecvStart ==
    /\ app.pc = "idle"
    /\ IF app.buf # EOF THEN Goto("copy") /\ UNCHANGED conn
       ELSE IF conn.recvmbox.st = "null"
            THEN /\ conn' = [conn EXCEPT !.err = "CONN"]
                 /\ Goto("eof")
       ELSE /\ Goto(IF conn.err # "OK" THEN "eof" ELSE "recv")
            /\ UNCHANGED conn
    /\ UNCHANGED <<plan, pcb, tq, apimsgs, trans, given, taken, freed, queued, bad, rough>>

\* conn->pcb.tcp->state is read, and a netbuf allocated, or not.
RecvState ==
    /\ app.pc = "recv"
    /\ Uses(~pcb.null, "NULL pcb")
    /\ \/ Goto("fetch") /\ UNCHANGED <<plan, conn>>
       \/ /\ plan.nomem > 0
          /\ plan' = [plan EXCEPT !.nomem = @ - 1]
          /\ conn' = [conn EXCEPT !.err = "MEM"]
          /\ Goto("eof")
    /\ UNCHANGED <<pcb, tq, apimsgs, trans, given, taken, freed, queued, rough>>

RecvFetch ==
    /\ app.pc = "fetch" /\ conn.recvmbox.q # <<>>
    /\ LET p == Head(conn.recvmbox.q)
       IN  app' = [app EXCEPT !.buf = p, !.pc = IF p = EOF THEN "rfree" ELSE "rpost"]
    /\ conn' = [conn EXCEPT !.recvmbox.q = Tail(@)]
    /\ UNCHANGED <<plan, pcb, tq, apimsgs, trans, given, taken, freed, queued, bad, rough>>

\* The end of the stream: the mailbox is freed, then the pointer cleared.
RecvFree ==
    /\ app.pc = "rfree"
    /\ conn' = [conn EXCEPT !.recvmbox = [st |-> "freed", q |-> <<>>]]
    /\ Goto("rnull")
    /\ UNCHANGED <<plan, pcb, tq, apimsgs, trans, given, taken, freed, queued, bad, rough>>

RecvNull ==
    /\ app.pc = "rnull"
    /\ conn' = [conn EXCEPT !.recvmbox = Null]
    /\ Goto("eof")
    /\ UNCHANGED <<plan, pcb, tq, apimsgs, trans, given, taken, freed, queued, bad, rough>>

\* The stack is told that the data was taken (API_MSG_RECV).
RecvPost ==
    /\ app.pc = "rpost"
    /\ IF apimsgs = MEMP_NUM_API_MSG
       THEN /\ conn' = [conn EXCEPT !.err = "MEM"]
            /\ Goto("copy")
            /\ UNCHANGED <<tq, apimsgs, rough>>
       ELSE /\ apimsgs' = apimsgs + 1
            /\ api_msg_post("recv")
            /\ Goto("rwait")
            /\ UNCHANGED conn
    /\ UNCHANGED <<plan, pcb, trans, given, taken, freed, queued, bad>>

\* sys_mbox_fetch(conn->mbox, NULL), then memp_freep(MEMP_API_MSG, msg): a
\* message the transport thread has not handled must not be freed.
Answered(next) ==
    /\ conn.mbox.q # <<>>
    /\ conn' = [conn EXCEPT !.mbox.q = Tail(@)]
    /\ apimsgs' = apimsgs - 1
    /\ Uses(Head(conn.mbox.q) # "stray", "api_msg still queued")
    /\ Goto(next)
    /\ UNCHANGED <<plan, pcb, tq, trans, given, taken, freed, queued, rough>>

RecvAnswered == app.pc = "rwait" /\ Answered("copy")

\* Mutated form: what is left of the buffer starts where the unread part is long.
Left_remainder(len) == PBUF_LEN - app.offset - len

\* Where the data left for the next call starts: sock->lastoffset.
Left(len) == app.offset + len

\* netbuf_copy_partial to the caller's len bytes; the netbuf is deleted when
\* nothing is left in it.
RecvCopy ==
    /\ app.pc = "copy"
    /\ \E room \in 1 .. PBUF_LEN :
        LET len  == Min({room, PBUF_LEN - app.offset})
            left == PBUF_LEN - app.offset - len > 0
        IN  /\ taken' = taken \o [i \in 1 .. len |-> <<app.buf, app.offset + i>>]
            /\ app' = IF left THEN [app EXCEPT !.pc = "idle", !.offset = Left(len)]
                              ELSE [app EXCEPT !.pc = "idle", !.buf = EOF, !.offset = 0]
            /\ freed' = IF left THEN freed ELSE [freed EXCEPT ![app.buf] = @ + 1]
    /\ UNCHANGED <<plan, conn, pcb, tq, apimsgs, trans, given, queued, bad, rough>>

\* netconn_write: one message serves every part of the data.
WriteStart ==
    /\ app.pc = "idle" /\ plan.sends # <<>>
    /\ plan' = [plan EXCEPT !.sends = Tail(@)]
    /\ IF conn.err # "OK" \/ apimsgs = MEMP_NUM_API_MSG
       THEN /\ conn' = [conn EXCEPT !.err = IF @ # "OK" THEN @ ELSE "MEM"]
            /\ Goto("idle")
            /\ UNCHANGED apimsgs
       ELSE /\ conn' = [conn EXCEPT !.writing = TRUE]
            /\ app' = [app EXCEPT !.pc = "wtest", !.size = Head(plan.sends)]
            /\ apimsgs' = apimsgs + 1
    /\ UNCHANGED <<pcb, tq, trans, given, taken, freed, queued, bad, rough>>

WriteTest ==
    /\ app.pc = "wtest"
    /\ Goto(IF conn.err = "OK" /\ app.size > 0 THEN "wbuf" ELSE "wret")
    /\ UNCHANGED <<plan, conn, pcb, tq, apimsgs, trans, given, taken, freed, queued, bad, rough>>

\* tcp_sndbuf(conn->pcb.tcp)
sndbuf == SND_BUF - pcb.used

WriteBuf ==
    /\ app.pc = "wbuf"
    /\ Uses(~pcb.null, "NULL pcb")
    /\ Goto(IF sndbuf = 0 THEN "wsem" ELSE "wpost")
    /\ UNCHANGED <<plan, conn, pcb, tq, apimsgs, trans, given, taken, freed, queued, rough>>

\* sys_sem_wait(conn->sem): for room, or after ERR_MEM.
WriteSem ==
    /\ app.pc \in {"wsem", "wmem"} /\ conn.sem = "1"
    /\ conn' = [conn EXCEPT !.sem = "0"]
    /\ Goto(IF app.pc = "wmem" THEN "wtest" ELSE IF conn.err = "OK" THEN "wpost" ELSE "wtrouble")
    /\ UNCHANGED <<plan, pcb, tq, apimsgs, trans, given, taken, freed, queued, bad, rough>>

WritePost ==
    /\ app.pc = "wpost"
    /\ Uses(~pcb.null, "NULL pcb")
    /\ api_msg_post("write")
    /\ app' = [app EXCEPT !.pc = "wwait", !.len = Min({app.size, sndbuf})]
    /\ UNCHANGED <<plan, conn, pcb, apimsgs, trans, given, taken, freed, queued>>

WriteAnswered ==
    /\ app.pc = "wwait" /\ conn.mbox.q # <<>>
    /\ conn' = [conn EXCEPT !.mbox.q = Tail(@)]
    /\ Uses(Head(conn.mbox.q) # "stray", "api_msg still queued")
    /\ Goto("werr")
    /\ UNCHANGED <<plan, pcb, tq, apimsgs, trans, given, taken, freed, queued, rough>>

\* The bytes a write that went well counts for.
Counted == app.len

\* conn->err says how the write went.
WriteErr ==
    /\ app.pc = "werr"
    /\ CASE conn.err = "OK"  -> /\ app' = [app EXCEPT !.pc = "wtest", !.size = @ - Counted,
                                                     !.done = @ + Counted]
                                /\ UNCHANGED conn
         [] conn.err = "MEM" -> /\ conn' = [conn EXCEPT !.err = "OK"]
                                /\ Goto("wmem")
         [] OTHER            -> Goto("wtrouble") /\ UNCHANGED conn
    /\ UNCHANGED <<plan, pcb, tq, apimsgs, trans, given, taken, freed, queued, bad, rough>>

WriteRet ==
    /\ app.pc \in {"wret", "wtrouble"}
    /\ apimsgs' = apimsgs - 1
    /\ conn' = IF app.pc = "wtrouble" THEN [conn EXCEPT !.writing = FALSE, !.sem = "null"]
                                      ELSE conn
    /\ app' = [app EXCEPT !.pc = "idle", !.size = 0, !.len = 0]
    /\ UNCHANGED <<plan, pcb, tq, trans, given, taken, freed, queued, bad, rough>>

\* lwip_close, netconn_delete: with no message left the netconn is forgotten.
CloseStart ==
    /\ app.pc \in {"idle", "eof"}
    /\ IF apimsgs = MEMP_NUM_API_MSG
       THEN Goto("done") /\ UNCHANGED <<tq, apimsgs, rough>>
       ELSE /\ apimsgs' = apimsgs + 1
            /\ api_msg_post("del")
            /\ Goto("dwait")
    /\ UNCHANGED <<plan, conn, pcb, trans, given, taken, freed, queued, bad>>

CloseAnswered == app.pc = "dwait" /\ Answered("drain")

\* Nothing is left in the mailbox: sys_arch_mbox_fetch timed out.
Drained(m) == m.q = <<>>

\* The pbufs left in recvmbox are freed, one at a time.
CloseDrain ==
    /\ app.pc = "drain" /\ ~Drained(conn.recvmbox)
    /\ LET p == Head(conn.recvmbox.q)
       IN  freed' = IF p = EOF THEN freed ELSE [freed EXCEPT ![p] = @ + 1]
    /\ conn' = [conn EXCEPT !.recvmbox.q = Tail(@)]
    /\ UNCHANGED <<plan, pcb, tq, apimsgs, app, trans, given, taken, queued, bad, rough>>

\* The mailboxes, the semaphore and the netconn are freed, then the netbuf
\* lwip_recvfrom kept.
CloseFree ==
    /\ app.pc = "drain" /\ Drained(conn.recvmbox)
    /\ conn' = NoConn
    /\ freed' = IF app.buf = EOF THEN freed ELSE [freed EXCEPT ![app.buf] = @ + 1]
    /\ app' = [Idle EXCEPT !.pc = "done", !.done = app.done]
    /\ UNCHANGED <<plan, pcb, tq, apimsgs, trans, given, taken, queued, bad, rough>>

Server ==
    \/ Accept \/ AcceptPeer
    \/ RecvStart \/ RecvState \/ RecvFetch \/ RecvFree \/ RecvNull \/ RecvPost
    \/ RecvAnswered \/ RecvCopy
    \/ WriteStart \/ WriteTest \/ WriteBuf \/ WriteSem \/ WritePost \/ WriteAnswered
    \/ WriteErr \/ WriteRet
    \/ CloseStart \/ CloseAnswered \/ CloseDrain \/ CloseFree

-----------------------------------------------------------------------------
(* The transport thread.  trans holds the steps left of the message it      *)
(* handles; a callback that tests a field of the netconn uses it in its     *)
(* next step.                                                               *)

Do(d, a) == [do |-> d, arg |-> a]

\* What tcp_input does with a segment: TF_GOT_FIN is never cleared, so every
\* segment after the FIN reports the end of the stream again.
Callbacks(seg) ==
    IF ~pcb.open \/ ~pcb.conn THEN <<>>
    ELSE (CASE seg = "rst"  -> <<Do("err", 0)>>
            [] seg = "data" -> <<Do("recv", given + 1)>>
            [] seg = "ack"  -> <<Do("sent", 0)>>
            [] OTHER        -> <<>>)
         \o (IF seg # "rst" /\ (seg = "fin" \/ pcb.got_fin) THEN <<Do("recv", EOF)>> ELSE <<>>)

\* transport_thread takes a message: an API call or a segment.
TransFetch ==
    /\ trans = <<>> /\ tq # <<>>
    /\ tq' = Tail(tq)
    /\ LET m == Head(tq)
       IN  IF m \in {"recv", "write", "del"}
           THEN /\ trans' = <<Do("do_" \o m, 0)>>
                /\ UNCHANGED <<pcb, given, freed>>
           ELSE /\ trans' = Callbacks(m)
                /\ pcb' = [pcb EXCEPT !.open = @ /\ m # "rst", !.got_fin = @ \/ m = "fin",
                                      !.used = IF m = "ack" THEN 0 ELSE @]
                /\ given' = IF m = "data" THEN given + 1 ELSE given
                /\ freed' = IF m = "data" /\ Callbacks(m) = <<>>
                            THEN [freed EXCEPT ![given + 1] = @ + 1] ELSE freed
    /\ rough' = IF trans' = <<>> \/ Head(tq) = "fin" \/ trans'[Len(trans')] # Do("recv", EOF)
                THEN rough ELSE rough \cup {"segment after FIN"}
    /\ UNCHANGED <<plan, conn, apimsgs, app, taken, queued, bad>>

\* The next step of the transport thread is d.
At(d) == trans # <<>> /\ Head(trans).do = d
Then(steps) == trans' = steps \o Tail(trans)

\* accept_function.  When it fails the pcb is freed; if that was after setup_tcp
\* err_tcp is called with the freed netconn.
DoAccept ==
    /\ At("accept")
    /\ CASE plan.netconn = "made" ->
               /\ conn' = NewConn
               /\ pcb' = [pcb EXCEPT !.conn = TRUE, !.null = FALSE]
               /\ Then(<<>>)
               /\ UNCHANGED rough
         [] OTHER ->
               /\ pcb' = [pcb EXCEPT !.open = FALSE]
               /\ Then((IF plan.netconn = "part" THEN <<Do("err", 0)>> ELSE <<>>)
                           \o <<Do("input", 0)>>)
               /\ rough' = rough \cup {"failed accept"}
               /\ UNCHANGED conn
    /\ UNCHANGED <<plan, tq, apimsgs, app, given, taken, freed, queued, bad>>

\* tcp_process returned ERR_OK: tcp_input goes on with the pcb, which is freed.
InputAfterAbort ==
    /\ At("input")
    /\ Uses(pcb.open, "freed pcb")
    /\ Then(<<>>)
    /\ UNCHANGED <<plan, conn, pcb, tq, apimsgs, app, given, taken, freed, queued, rough>>

\* recv_tcp: the test of recvmbox.  conn->err becomes ERR_OK.
RecvTcp ==
    /\ At("recv")
    /\ Uses(TRUE, "freed netconn")
    /\ IF conn.recvmbox.st = "null" THEN Then(<<>>) /\ UNCHANGED conn
       ELSE /\ conn' = [conn EXCEPT !.err = "OK"]
            /\ Then(<<Do("post", Head(trans).arg)>>)
    /\ rough' = IF conn'.err # conn.err THEN rough \cup {"error overwritten"} ELSE rough
    /\ UNCHANGED <<plan, pcb, tq, apimsgs, app, given, taken, freed, queued>>

\* sys_mbox_post(conn->recvmbox, p)
PostRecv ==
    /\ At("post")
    /\ Uses(conn.recvmbox.st = "live", "freed recvmbox")
    /\ conn' = [conn EXCEPT !.recvmbox.q = Append(@, Head(trans).arg)]
    /\ Then(<<>>)
    /\ UNCHANGED <<plan, pcb, tq, apimsgs, app, given, taken, freed, queued, rough>>

\* sent_tcp
SentTcp ==
    /\ At("sent")
    /\ Uses(TRUE, "freed netconn")
    /\ conn' = [conn EXCEPT !.sem = IF @ = "null" THEN @ ELSE "1"]
    /\ Then(<<>>)
    /\ UNCHANGED <<plan, pcb, tq, apimsgs, app, given, taken, freed, queued, rough>>

\* err_tcp: the pointer to the pcb is cleared before err is set; then a NULL
\* goes to recvmbox, one to mbox whether or not a call waits, and the
\* semaphore is signalled.
ErrTcp ==
    /\ At("err")
    /\ Uses(TRUE, "freed netconn")
    /\ pcb' = [pcb EXCEPT !.null = TRUE, !.conn = FALSE]
    /\ Then(<<Do("errset", 0), Do("errrecv", 0), Do("errmbox", 0)>>)
    /\ rough' = IF "failed accept" \in rough THEN rough ELSE rough \cup {"reset"}
    /\ UNCHANGED <<plan, conn, tq, apimsgs, app, given, taken, freed, queued>>

ErrSet ==
    /\ At("errset")
    /\ Uses(TRUE, "freed netconn")
    /\ conn' = [conn EXCEPT !.err = "RST"]
    /\ Then(<<>>)
    /\ UNCHANGED <<plan, pcb, tq, apimsgs, app, given, taken, freed, queued, rough>>

ErrRecv ==
    /\ At("errrecv")
    /\ Uses(TRUE, "freed netconn")
    /\ Then(IF conn.recvmbox.st = "null" THEN <<>> ELSE <<Do("post", EOF)>>)
    /\ UNCHANGED <<plan, conn, pcb, tq, apimsgs, app, given, taken, freed, queued, rough>>

ErrMbox ==
    /\ At("errmbox")
    /\ Uses(TRUE, "freed netconn")
    /\ conn' = [conn EXCEPT !.mbox.q = Append(@, "stray"),
                            !.sem = IF @ = "null" THEN @ ELSE "1"]
    /\ Then(<<>>)
    /\ UNCHANGED <<plan, pcb, tq, apimsgs, app, given, taken, freed, queued, rough>>

\* The handlers of api_msg.c end by posting the answer on conn->mbox.
Answer(d, c) == conn' = [c EXCEPT !.mbox.q = Append(@, d)]

\* do_recv: tcp_recved opens the window.
DoRecv ==
    /\ At("do_recv")
    /\ Uses(conn.mbox.st = "live", "freed netconn")
    /\ Answer("recv", conn)
    /\ Then(<<>>)
    /\ UNCHANGED <<plan, pcb, tq, apimsgs, app, given, taken, freed, queued, rough>>

\* do_write: tcp_write takes all of the data or, short of memory, nothing.
DoWrite ==
    /\ At("do_write")
    /\ Uses(conn.mbox.st = "live", "freed netconn")
    /\ IF pcb.null
       THEN Answer("write", conn) /\ UNCHANGED <<plan, pcb, queued, rough>>
       ELSE \/ /\ Answer("write", [conn EXCEPT !.err = "OK"])
               /\ pcb' = [pcb EXCEPT !.used = @ + app.len]
               /\ queued' = queued + app.len
               /\ UNCHANGED plan
            \/ /\ plan.nomem > 0
               /\ plan' = [plan EXCEPT !.nomem = @ - 1]
               /\ Answer("write", [conn EXCEPT !.err = "MEM"])
               /\ UNCHANGED <<pcb, queued>>
    /\ Then(<<>>)
    /\ UNCHANGED <<tq, apimsgs, app, given, taken, freed, rough>>

\* Mutated form: the callbacks of the pcb stay.
Detached_not(p) == p

\* The pcb after do_delconn: its callbacks are gone; it closes by itself.
Detached(p) == [p EXCEPT !.conn = FALSE]

\* do_delconn
DoDelconn ==
    /\ At("do_del")
    /\ Uses(conn.mbox.st = "live", "freed netconn")
    /\ pcb' = IF pcb.null THEN pcb ELSE Detached(pcb)
    /\ Answer("del", conn)
    /\ Then(<<>>)
    /\ UNCHANGED <<plan, tq, apimsgs, app, given, taken, freed, queued, rough>>

Transport ==
    \/ TransFetch \/ DoAccept \/ InputAfterAbort \/ RecvTcp \/ PostRecv \/ SentTcp
    \/ ErrTcp \/ ErrSet \/ ErrRecv \/ ErrMbox \/ DoRecv \/ DoWrite \/ DoDelconn

\* Mutated form: the semaphore is signalled while closing only.
PollSignals_close == FALSE

\* poll_tcp finds the netconn in NETCONN_WRITE.
PollSignals == conn.writing

\* poll_tcp, from the TCP timer of the transport thread.
Poll ==
    /\ trans = <<>> /\ pcb.open /\ pcb.conn /\ PollSignals /\ conn.sem = "0"
    /\ conn' = [conn EXCEPT !.sem = "1"]
    /\ UNCHANGED <<plan, pcb, tq, apimsgs, app, trans, given, taken, freed, queued, bad, rough>>

-----------------------------------------------------------------------------
(* The peer: tcp_msg_input posts a segment when a message is left for it.   *)

Arrives(seg) == TcpMsgs < MEMP_NUM_TCP_MSG /\ tq' = Append(tq, seg)

PeerData ==
    /\ plan.data > 0 /\ Arrives("data")
    /\ plan' = [plan EXCEPT !.data = @ - 1]
    /\ UNCHANGED <<conn, pcb, apimsgs, app, trans, given, taken, freed, queued, bad, rough>>

PeerFin ==
    /\ plan.data = 0 /\ plan.fin /\ Arrives("fin")
    /\ plan' = [plan EXCEPT !.fin = FALSE]
    /\ UNCHANGED <<conn, pcb, apimsgs, app, trans, given, taken, freed, queued, bad, rough>>

\* A segment after the FIN: the FIN again, or an empty one.
PeerLate ==
    /\ pcb.got_fin /\ plan.late > 0 /\ Arrives("late")
    /\ plan' = [plan EXCEPT !.late = @ - 1]
    /\ UNCHANGED <<conn, pcb, apimsgs, app, trans, given, taken, freed, queued, bad, rough>>

PeerReset ==
    /\ plan.rst /\ Arrives("rst")
    /\ plan' = [plan EXCEPT !.rst = FALSE]
    /\ UNCHANGED <<conn, pcb, apimsgs, app, trans, given, taken, freed, queued, bad, rough>>

PeerAck ==
    /\ pcb.used > 0 /\ pcb.open /\ "ack" \notin ToSet(tq) /\ Arrives("ack")
    /\ UNCHANGED <<plan, conn, pcb, apimsgs, app, trans, given, taken, freed, queued, bad, rough>>

-----------------------------------------------------------------------------
\* An access to freed memory may do anything: nothing is said of what follows.
Step(A) == bad = {} /\ A

Next ==
    \/ Step(Server) \/ Step(Transport) \/ Step(Poll) \/ Step(PeerData) \/ Step(PeerFin)
    \/ Step(PeerLate) \/ Step(PeerReset) \/ Step(PeerAck)

Spec == Init /\ [][Next]_vars

-----------------------------------------------------------------------------
(* Nothing but a reset of the connection (err_tcp), a segment after the     *)
(* peer's FIN (recv_tcp reports the end of the stream a second time) and an *)
(* accept that fails for want of memory (tcp_abort frees the pcb,           *)
(* tcp_input.c:265-306 goes on using it, and err_tcp may use the freed      *)
(* netconn) makes a thread use a netconn, a mailbox or a protocol control   *)
(* block that is freed or NULL: every other interleaving of the calls and   *)
(* callbacks is safe, those of netconn_delete with arriving data and those  *)
(* of calls that fail for want of memory included.                          *)
StaleOnlyWhenRough ==
    bad # {} => rough \cap {"reset", "segment after FIN", "failed accept"} # {}

(* lwip_recv returns the bytes of the stream in order, each once, however   *)
(* they are cut by the sizes of its calls, and when the connection is       *)
(* closed every pbuf handed to the API has been freed exactly once.  The    *)
(* bytes netconn_write counts as written are the bytes tcp_write took,      *)
(* although the result travels in conn->err, which err_tcp and recv_tcp     *)
(* write too: they differ only when one of them did so.                     *)
StreamsAgree ==
    /\ \A i \in DOMAIN taken : taken[i] = <<((i - 1) \div PBUF_LEN) + 1, ((i - 1) % PBUF_LEN) + 1>>
    /\ app.pc = "done" /\ ~conn.alloc /\ trans = <<>> => \A p \in 1 .. given : freed[p] = 1
    /\ app.pc \in {"idle", "eof", "done"} /\ app.done # queued
           => rough \cap {"reset", "error overwritten"} # {}

\* The server thread is in netconn_write; an access went wrong; the message of
\* a call was lost in transport_apimsg.
Writing == app.size > 0
Astray == bad # {}
Dropped == "call dropped" \in rough
=============================================================================
