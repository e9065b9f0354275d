---------------------------- MODULE InputArbiter ----------------------------
(***************************************************************************)
(* input_arbiter.v: one FIFO per input, and a state machine that forwards  *)
(* whole packets from them in turn.  A step is a clock cycle; the senders' *)
(* tvalid and the receiver's tready are its inputs.                        *)
(*                                                                         *)
(* A word of a packet is its position in the packet and tlast.             *)
(***************************************************************************)
EXTENDS FifoOps, FiniteSets

CONSTANTS
    NUM_QUEUES,
    MAX_DEPTH,      \* of the input FIFOs
    MAX_WORDS       \* words of the longest packet

Inputs == 0 .. NUM_QUEUES - 1
Word == [pos : 1 .. MAX_WORDS, last : BOOLEAN]
NoWord == [pos |-> 1, last |-> FALSE]       \* the FIFO output after reset

VARIABLES
    in_fifo,    \* the input FIFOs
    state,      \* "IDLE" or "WR_PKT"
    cur_queue,
    sent,       \* words of its current packet each sender has delivered
    received,   \* the last word received, and the queue it came from
    passed      \* packets of others begun while a queue had a packet to send

vars == <<in_fifo, state, cur_queue, sent, received, passed>>

Init ==
    /\ in_fifo = [i \in Inputs |-> NewFifo(NoWord)]
    /\ state = "IDLE" /\ cur_queue = 0
    /\ sent = [i \in Inputs |-> 0]
    /\ received = [queue |-> 0, pos |-> 0, last |-> TRUE]
    /\ passed = [i \in Inputs |-> 0]

\* Mutant: the lowest non-empty queue is taken.
NextQueueLowest ==
    LET ready == {i \in Inputs : ~Empty(in_fifo[i])}
    IN  IF ready = {} THEN (cur_queue + 1) % NUM_QUEUES
        ELSE CHOOSE i \in ready : \A j \in ready : i <= j

\* The first non-empty queue after the current one, or just the next one.
next_queue ==
    LET After(k) == (cur_queue + k) % NUM_QUEUES
        ready    == {k \in 1 .. NUM_QUEUES : ~Empty(in_fifo[After(k)])}
    IN  IF ready = {} THEN After(1)
        ELSE After(CHOOSE k \in ready : \A j \in ready : k <= j)

\* The word on m_axis, valid or not.
Out == in_fifo[cur_queue].dout
tvalid == ~Empty(in_fifo[cur_queue])

\* The state machine: whether a word is read, and the next state and queue.
\* In WR_PKT the end of the packet is taken from tlast without a look at
\* tvalid.
Arbitrate(tready) ==
    LET eop == tready /\ Out.last
    IN  IF state = "IDLE"
        THEN [rd    |-> tvalid /\ tready,
              state |-> IF tvalid /\ tready /\ ~Out.last THEN "WR_PKT" ELSE "IDLE",
              queue |-> IF ~tvalid \/ eop THEN next_queue ELSE cur_queue]
        ELSE [rd    |-> eop \/ (tready /\ tvalid),
              state |-> IF eop THEN "IDLE" ELSE "WR_PKT",
              queue |-> IF eop THEN next_queue ELSE cur_queue]

\* ~nearly_full: s_axis_i_tready.
Ready(i) == Depth(in_fifo[i]) < MAX_DEPTH - 1

\* One cycle: the senders in valid offer their next word, with tlast as in
\* last.
Clock(valid, last, tready) ==
    LET step == Arbitrate(tready)
        accepted(i) == i \in valid /\ Ready(i)
    IN  /\ \A i \in Inputs : sent[i] + 1 = MAX_WORDS => last[i]
        /\ in_fifo' = [i \in Inputs |->
                      FifoClock(in_fifo[i], accepted(i), [pos |-> sent[i] + 1, last |-> last[i]],
                                step.rd /\ i = cur_queue)]
        /\ sent' = [i \in Inputs |-> IF ~accepted(i) THEN sent[i]
                                     ELSE IF last[i] THEN 0 ELSE sent[i] + 1]
        /\ state' = step.state /\ cur_queue' = step.queue
        /\ received' = IF tvalid /\ tready THEN [queue |-> cur_queue, pos |-> Out.pos, last |-> Out.last]
                        ELSE received
        /\ passed' = [i \in Inputs |->
             IF Empty(in_fifo[i]) \/ i = cur_queue THEN 0
             ELSE IF state = "IDLE" /\ step.rd THEN passed[i] + 1 ELSE passed[i]]

Next ==
    \E valid \in SUBSET Inputs, lasts \in SUBSET Inputs, tready \in BOOLEAN :
        Clock(valid, [i \in Inputs |-> i \in lasts], tready)

Spec == Init /\ [][Next]_vars

-----------------------------------------------------------------------------
\* The types of the variables.
TypeOK ==
    /\ \A i \in Inputs : Depth(in_fifo[i]) <= MAX_DEPTH /\ sent[i] \in 0 .. MAX_WORDS - 1
    /\ state \in {"IDLE", "WR_PKT"} /\ cur_queue \in Inputs
    /\ received.queue \in Inputs /\ received.pos \in 0 .. MAX_WORDS

(* The output is a sequence of whole packets: a word offered to the        *)
(* receiver is the first of a packet after a complete one, or continues    *)
(* the packet of the same input ("wait until eop", input_arbiter.v).       *)
PacketsAreWhole ==
    tvalid => IF received.last THEN Out.pos = 1
              ELSE received.queue = cur_queue /\ Out.pos = received.pos + 1

(* An input with a packet to send waits for at most one packet of every    *)
(* other input ("cycle between input queues until one is not empty").      *)
BoundedBypass == \A i \in Inputs : passed[i] <= NUM_QUEUES - 1
=============================================================================
