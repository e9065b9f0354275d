------------------------------ MODULE LsuBcast ------------------------------
(***************************************************************************)
(* The queue of link state updates and the thread that sends them            *)
(* (or_pwospf.c).  Other threads put packets on the queue and then signal the  *)
(* thread without its mutex; the thread waits without testing the queue, so a *)
(* signal that finds it at work is lost and the packets stay until the next.  *)
(***************************************************************************)
EXTENDS Integers

CONSTANTS
    Senders,        \* threads that change the topology: packets, hellos, commands
    MAX_QUEUE       \* bound: packets on the queue

VARIABLES
    lsu_queue,      \* how many packets are on rs->pwospf_lsu_queue
    sending,        \* how many the thread has taken and not sent yet
    bcast,          \* where pwospf_lsu_bcast_thread is
    sender          \* thread -> "idle", or "signal": it has queued its packets

lsuVars == <<lsu_queue, sending, bcast, sender>>

Lsu == "lsu_thread"

LsuInit ==
    /\ lsu_queue = 0 /\ sending = 0 /\ bcast = "start"
    /\ sender = [t \in Senders \cup {Lsu} |-> "idle"]

(* broadcast_pwospf_lsu_packet: one packet for each neighbour, if any.        *)
Queue(t) ==
    /\ sender[t] = "idle"
    /\ \E n \in 0 .. 2 :
         lsu_queue' = IF lsu_queue + n > MAX_QUEUE THEN MAX_QUEUE ELSE lsu_queue + n
    /\ sender' = [sender EXCEPT ![t] = "signal"]
    /\ UNCHANGED <<sending, bcast>>

\* Mutant: the periodic flood waits for somebody else's signal.
Signals_others(t) == t # Lsu

(* Who signals pwospf_lsu_bcast_cond after queueing: everyone.                *)
Signals(t) == t \in Senders \cup {Lsu}

Signal(t) ==
    /\ sender[t] = "signal"
    /\ sender' = [sender EXCEPT ![t] = "idle"]
    /\ bcast' = IF bcast = "wait" /\ Signals(t) THEN "woken" ELSE bcast
    /\ UNCHANGED <<lsu_queue, sending>>

Waits ==
    /\ bcast = "start"
    /\ bcast' = "wait"
    /\ UNCHANGED <<lsu_queue, sending, sender>>

Takes ==
    /\ bcast = "woken"
    /\ sending' = lsu_queue /\ lsu_queue' = 0
    /\ bcast' = "send"
    /\ UNCHANGED sender

(* send_ip, or free if there is no route; then back to the wait.              *)
Sends ==
    /\ bcast = "send"
    /\ IF sending = 0 THEN bcast' = "start" /\ UNCHANGED sending
                      ELSE sending' = sending - 1 /\ UNCHANGED bcast
    /\ UNCHANGED <<lsu_queue, sender>>

pwospf_lsu_bcast_thread == Waits \/ Takes \/ Sends

(* Every pwospf_lsu_interval the router floods its own links, unless          *)
(* pwospf_lsu_broadcast was set to 0.                                         *)
pwospf_lsu_thread == Queue(Lsu)

LsuNext ==
    \/ \E t \in Senders : Queue(t)
    \/ pwospf_lsu_thread \/ \E t \in Senders \cup {Lsu} : Signal(t)
    \/ pwospf_lsu_bcast_thread

(* A packet waits on the queue.                                               *)
Pending == lsu_queue > 0
=============================================================================
