-------------------------------- MODULE Sping --------------------------------
(***************************************************************************)
(* The sping command: CLI threads that send an echo request and wait for its  *)
(* reply (or_sping.c), the packet thread that queues the replies (or_icmp.c)  *)
(* and the thread that clears the queue.  All three hold sping_mutex while     *)
(* they work on the queue, so a step below is one such section.  A thread      *)
(* takes less than a second between two waits.                               *)
(***************************************************************************)
EXTENDS Integers, Sequences, SequencesExt

CONSTANTS
    Clients,        \* CLI threads
    WAIT,           \* 5 seconds for a reply
    EXPIRE,         \* 30 seconds on the queue, and between two clearings
    PINGS,          \* bound: requests sent
    REPLIES,        \* bound: replies that arrive
    MAX_TIME        \* bound: seconds

VARIABLES
    now, next_clean,
    sping_queue,    \* the replies: id, arrival_time and, history, who was waiting
    client,         \* client -> [pc, id, wake_up, missed]; missed is history
    asked,          \* the ids of the requests that may be answered
    pings, replies

spingVars == <<now, next_clean, sping_queue, client, asked, pings, replies>>

SpingInit ==
    /\ now = 0 /\ next_clean = EXPIRE /\ sping_queue = <<>> /\ asked = {}
    /\ client = [c \in Clients |-> [pc |-> "idle", id |-> 0, wake_up |-> 0, missed |-> FALSE]]
    /\ pings = 0 /\ replies = 0

-----------------------------------------------------------------------------
(* rand() after srand(time(NULL)): a function of the second.                  *)
PingId == now

(* The request leaves.  Without a route the command ends here and nothing      *)
(* changes.                                                                  *)
send_icmp_echo_request_packet(id) == asked' = asked \cup {id}

cli_sping(c) ==
    /\ client[c].pc = "idle" /\ pings < PINGS
    /\ client' = [client EXCEPT ![c].pc = "sent", ![c].id = PingId, ![c].missed = FALSE]
    /\ send_icmp_echo_request_packet(PingId)
    /\ pings' = pings + 1
    /\ sping_queue' = [i \in DOMAIN sping_queue |->    \* a new ping heard nothing
                         [sping_queue[i] EXCEPT !.heard = @ \ {c}]]
    /\ UNCHANGED <<now, next_clean, replies>>

(* wait_for_reply up to its first wait: the queue is not looked at before.     *)
WaitStarts(c) ==
    /\ client[c].pc = "sent"
    /\ client' = [client EXCEPT ![c].pc = "waiting", ![c].wake_up = now + WAIT]
    /\ UNCHANGED <<now, next_clean, sping_queue, asked, pings, replies>>

Waiting == {c \in Clients : client[c].pc = "waiting"}

\* Mutant: pthread_cond_signal.
Woke_one ==
    IF Waiting = {} THEN client
    ELSE [client EXCEPT ![CHOOSE c \in Waiting : TRUE].pc = "woken"]

(* pthread_cond_broadcast: all who wait.                                     *)
Woke == [c \in Clients |-> IF c \in Waiting THEN [client[c] EXCEPT !.pc = "woken"]
                                            ELSE client[c]]

(* A reply, maybe one of several to a request.                               *)
process_icmp_echo_reply_packet(id) ==
    /\ id \in asked /\ replies < REPLIES
    /\ replies' = replies + 1
    /\ sping_queue' = Append(sping_queue,
                             [id |-> id, arrival_time |-> now, heard |-> Waiting])
    /\ client' = Woke
    /\ UNCHANGED <<now, next_clean, asked, pings>>

Mine(c) == SelectInSeq(sping_queue, LAMBDA e : e.id = client[c].id)

(* The search after a wake-up: take the reply, or wait again.                 *)
Woken(c) ==
    /\ client[c].pc = "woken"
    /\ IF Mine(c) # 0
       THEN /\ sping_queue' = RemoveAt(sping_queue, Mine(c))
            /\ client' = [client EXCEPT ![c].pc = "idle"]
       ELSE /\ client' = [client EXCEPT ![c].pc = "waiting"]
            /\ UNCHANGED sping_queue
    /\ UNCHANGED <<now, next_clean, asked, pings, replies>>

(* ETIMEDOUT: no reply, and no last look at the queue.                        *)
TimesOut(c) ==
    /\ client[c].pc = "waiting" /\ now >= client[c].wake_up
    /\ client' = [client EXCEPT ![c].pc = "idle", ![c].missed =
         \E i \in DOMAIN sping_queue :
            sping_queue[i].id = client[c].id /\ c \in sping_queue[i].heard]
    /\ UNCHANGED <<now, next_clean, sping_queue, asked, pings, replies>>

-----------------------------------------------------------------------------
Old(e) == now - e.arrival_time > EXPIRE

Swept(queue) == SelectSeq(queue, LAMBDA e : ~Old(e))

sping_queue_cleanup_thread ==
    /\ now >= next_clean
    /\ sping_queue' = Swept(sping_queue)
    /\ next_clean' = now + EXPIRE
    /\ UNCHANGED <<now, client, asked, pings, replies>>

Tick ==
    /\ now < MAX_TIME /\ now < next_clean
    /\ \A c \in Clients : /\ client[c].pc \notin {"sent", "woken"}
                          /\ client[c].pc = "waiting" => now < client[c].wake_up
    /\ now' = now + 1
    /\ UNCHANGED <<next_clean, sping_queue, client, asked, pings, replies>>

SpingNext ==
    \/ \E c \in Clients : cli_sping(c) \/ WaitStarts(c) \/ Woken(c) \/ TimesOut(c)
    \/ \E id \in asked : process_icmp_echo_reply_packet(id)
    \/ sping_queue_cleanup_thread \/ Tick

SpingSpec == SpingInit /\ [][SpingNext]_spingVars

-----------------------------------------------------------------------------
(* A ping that is told "no reply" leaves no reply of its own on the queue that   *)
(* came while it waited, with several pings waiting on one condition variable,   *)
(* even pings with the same id (or_sping.c:113-150, or_icmp.c:252-260).  One      *)
(* that came between the request and the wait may be left: wait_for_reply does    *)
(* not look before its first wait, nor when the time is up.                    *)
WaitersHearReplies == \A c \in Clients : ~client[c].missed
=============================================================================
