------------------------------- MODULE MCLwip -------------------------------
(***************************************************************************)
(* The parts of the TCP stack SCONE carries (lwtcp): a TCP connection, the    *)
(* mailbox of the transport thread, a netconn shared by a server thread and   *)
(* the transport thread, the heap with its buffers, the pools of blocks and   *)
(* the list of threads.  The models share no state.  In a behaviour one of    *)
(* them, unit, is at work.  The variables of TcpConnection are its own, and   *)
(* nothing happens to the connection while another unit is at work; v1 to     *)
(* v13 are the variables of the others, and the ones not in use are 0.        *)
(***************************************************************************)
EXTENDS TcpConnection

CONSTANTS
    UNITS,          \* the models that are explored
    NoEntry,        \* no block, no thread
    API_SCENARIOS   \* what the peer, the server and the memory do to a netconn

VARIABLES unit, v1, v2, v3, v4, v5, v6, v7, v8, v9, v10, v11, v12, v13

Others == <<v1, v2, v3, v4, v5, v6, v7, v8, v9, v10, v11, v12, v13>>
mcVars == <<unit, vars, Others>>

(* Two threads post through a pool of two messages into a ring of three; the    *)
(* timer runs twice.                                                         *)
MB == INSTANCE SysMbox WITH
        Posters <- {"p1", "p2"}, SYS_MBOX_SIZE <- 3, MEMP_NUM <- 2, POSTS <- 3,
        INTERVAL <- 2, TICKS <- 2,
        first <- v1, last <- v2, msgs <- v3, mail <- v4, mutex <- v5, ppc <- v6, count <- v7,
        fpc <- v8, time <- v9, ticks <- v10, posted <- v11, fetched <- v12

NC == INSTANCE Netconn WITH
        MEMP_NUM_API_MSG <- 1, MEMP_NUM_TCP_MSG <- 6, SND_BUF <- 2, PBUF_LEN <- 3,
        SCENARIOS <- API_SCENARIOS,
        plan <- v1, conn <- v2, pcb <- v3, tq <- v4, apimsgs <- v5, app <- v6, trans <- v7,
        given <- v8, taken <- v9, freed <- v10, queued <- v11, bad <- v12, rough <- v13

(* Room for two small buffers; headers of two bytes, and addresses and        *)
(* sizes are rounded to two.                                                  *)
PB == INSTANCE Pbuf WITH
        MEM_SIZE <- 16, SIZEOF_STRUCT_MEM <- 2, MIN_SIZE <- 0, MEM_ALIGNMENT <- 2,
        SIZEOF_STRUCT_PBUF <- 2, HLEN <- 2, SIZES <- {2, 5}, NUM_ROM <- 1, REFS <- 2,
        ram <- v1, lfree <- v2, pbufs <- v3, held <- v4, shrunk <- v5, twice <- v6

(* Two connections, closed by two threads, that share one API message.         *)
MP == INSTANCE Memp WITH
        Workers <- {"w1", "w2"}, memp_num <- [NETCONN |-> 2, API_MSG |-> 1, TCP_MSG |-> 2],
        CONNECTIONS <- 2, NULL <- NoEntry,
        memp_tab <- v1, next <- v2, mutex <- v3, pc <- v4, call <- v5, mem <- v6, conn <- v7,
        apimsg <- v8, mbox <- v9, acceptmbox <- v10, opened <- v11, spoilt <- v12

(* One telnet client and one worker beside the threads that are always there.   *)
TH == INSTANCE SysThread WITH
        Clients <- <<"c1">>, WwwWorkers <- <<"w1">>, Ids <- 1 .. 7, NULL <- NoEntry,
        threads <- v1, next <- v2, pthread <- v3, id <- v4, status <- v5, step <- v6,
        child <- v7, overlapped <- v8

-----------------------------------------------------------------------------
(* What happens to a TCP connection.  The client's sequence numbers wrap       *)
(* around.                                                                   *)
Connection(open, c, s, closes, f, r) ==
    [open |-> open, stream |-> [client |-> c, server |-> s], closes |-> closes,
     faults |-> f, rto |-> r]

Numbers == [client |-> 15, server |-> 5]
Connections ==
    {Connection(FALSE, 1, 0, {"client"}, 1, 1),           \* opening
     Connection(TRUE, 3, 0, {}, 2, 1),                    \* data over a bad network
     Connection(TRUE, 5, 0, {}, 0, 1),                    \* a full window
     Connection(TRUE, 1, 1, {"client"}, 0, 1),            \* data both ways, one closes,
     Connection(TRUE, 1, 1, {"client"}, 1, 0),            \*   a timeout or a fault
     Connection(TRUE, 1, 0, {"client", "server"}, 1, 1),  \* data, and both close
     Connection(TRUE, 0, 0, {"client", "server"}, 2, 2)}  \* both close
LateFin == {Connection(TRUE, 1, 0, {"client"}, 1, 1)}

(* What the peer, the server and the memory do to a netconn.                   *)
Calm == [data |-> 0, fin |-> FALSE, late |-> 0, rst |-> FALSE, sends |-> <<>>,
         nomem |-> 0, netconn |-> "made", socket |-> TRUE, busy |-> 0, crowd |-> 0]

Calls ==
    {[Calm EXCEPT !.data = 2, !.fin = TRUE, !.late = 1, !.sends = <<3>>],
     [Calm EXCEPT !.data = 1, !.sends = <<3, 1>>, !.nomem = 2],
     [Calm EXCEPT !.data = 1, !.rst = TRUE, !.sends = <<3>>, !.nomem = 1],
     [Calm EXCEPT !.data = 1, !.sends = <<1>>, !.busy = 1],
     [Calm EXCEPT !.data = 1, !.fin = TRUE, !.sends = <<1>>, !.crowd = 5],
     [Calm EXCEPT !.data = 1, !.rst = TRUE, !.socket = FALSE],
     [Calm EXCEPT !.data = 1, !.netconn = "none"],
     [Calm EXCEPT !.data = 1, !.netconn = "part"]}

-----------------------------------------------------------------------------
After8 == <<v9, v10, v11, v12, v13>>
After6 == <<v7, v8, After8>>

MCInit ==
    /\ unit \in UNITS
    /\ Init /\ (unit # "tcp" => scenario = CHOOSE c \in SCENARIOS : ~c.open)
    /\ unit \in {"tcp", "pbuf"} =>
           /\ v7 = 0 /\ v8 = 0 /\ v9 = 0 /\ v10 = 0 /\ v11 = 0 /\ v12 = 0 /\ v13 = 0
    /\ \/ unit = "tcp" /\ v1 = 0 /\ v2 = 0 /\ v3 = 0 /\ v4 = 0 /\ v5 = 0 /\ v6 = 0
       \/ unit = "mbox" /\ MB!Init /\ v13 = 0
       \/ unit = "netconn" /\ NC!Init
       \/ unit = "pbuf" /\ PB!Init
       \/ unit = "memp" /\ MP!Init /\ v13 = 0
       \/ unit = "threads" /\ TH!Init /\ v9 = 0 /\ v10 = 0 /\ v11 = 0 /\ v12 = 0 /\ v13 = 0

MCNext ==
    \/ unit = "tcp" /\ Next /\ UNCHANGED <<unit, Others>>
    \/ unit = "mbox" /\ MB!Next /\ UNCHANGED <<unit, vars, v13>>
    \/ unit = "netconn" /\ NC!Next /\ UNCHANGED <<unit, vars>>
    \/ unit = "pbuf" /\ PB!Next /\ UNCHANGED <<unit, vars, After6>>
    \/ unit = "memp" /\ MP!Next /\ UNCHANGED <<unit, vars, v13>>
    \/ unit = "threads" /\ TH!Next /\ UNCHANGED <<unit, vars, After8>>

(* The threads run, the TCP timer too, and the peer acknowledges.              *)
Runs(A) == unit = "netconn" /\ A /\ UNCHANGED <<unit, vars>>

MCSpec ==
    /\ MCInit /\ [][MCNext]_mcVars
    /\ WF_mcVars(Runs(NC!Step(NC!Server))) /\ WF_mcVars(Runs(NC!Step(NC!Transport)))
    /\ WF_mcVars(Runs(NC!Step(NC!Poll))) /\ WF_mcVars(Runs(NC!Step(NC!PeerAck)))

-----------------------------------------------------------------------------
(* The ring holds what was posted and not yet fetched, in order, and the            *)
(* transport thread never sleeps over a message with no signal pending              *)
(* (sys_mbox_post, sys_arch_mbox_fetch).                                       *)
MailArrives == unit = "mbox" => MB!RingIsQueue /\ MB!NoLostMail

(* Only a reset, a segment after the peer's FIN and a failed accept make a thread    *)
(* use a netconn, a mailbox or a protocol control block that is freed or NULL        *)
(* (api_lib.c, api_msg.c, tcp_input.c).                                          *)
StaleOnlyWhenRough == unit = "netconn" => NC!StaleOnlyWhenRough

(* lwip_recv returns the stream in order, each byte once, every pbuf is freed       *)
(* exactly once, and netconn_write counts what tcp_write took (lwip_recv,          *)
(* netconn_recv, netconn_write, netconn_delete).                               *)
StreamsAgree == unit = "netconn" => NC!StreamsAgree

(* A server thread in netconn_write leaves it (sent_tcp, poll_tcp, err_tcp), unless  *)
(* the pool of messages to the transport thread ran out: transport_apimsg then drops   *)
(* the call, and its caller waits for an answer that nobody posts                     *)
(* (transport_subsys.c:173-176).                                                 *)
WritesEnd ==
    (unit = "netconn" /\ NC!Writing)
        ~> (unit = "netconn" /\ (~NC!Writing \/ NC!Astray \/ NC!Dropped))

(* The blocks tile the heap, the used ones are the buffers that exist and hold       *)
(* their data, the search for a free one starts at the first, and the lengths of     *)
(* chains add up (mem_malloc, mem_free, mem_realloc, pbuf_chain, pbuf_dechain).     *)
HeapIsSound == unit = "pbuf" => PB!HeapIsSound

(* No block of a pool is given to two owners or is free while it is in use, and every   *)
(* thread that runs finds itself in the list of threads, unless calls that take no       *)
(* lock meet: netconn_delete's memp_free another call of its pool, or sys_thread_new      *)
(* in the main thread sys_thread_new in www_main; or transport_apimsg gives a block to    *)
(* the wrong pool (memp_malloc, memp_free, sys_thread_new, current_thread).              *)
SharedListsAreSound ==
    /\ unit = "memp" => MP!PoolsAreSound
    /\ unit = "threads" => TH!ThreadsAreKnown
=============================================================================
