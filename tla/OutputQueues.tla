---------------------------- MODULE OutputQueues ----------------------------
(***************************************************************************)
(* output_queues.v: a packet is copied to the output queues its metadata   *)
(* names when all of them can take a packet of maximum size, and dropped   *)
(* otherwise.  Each queue keeps the words of its packets in one FIFO and   *)
(* the metadata (tuser), once per packet, in another.  A step is a clock   *)
(* cycle; the offered word and each output's tready are its inputs.        *)
(***************************************************************************)
EXTENDS FifoOps, Integers

CONSTANTS
    Queues,
    BUFFER_SIZE,        \* words of a data FIFO
    MAX_PACKET_SIZE,    \* words of a packet
    METADATA_SIZE,      \* words of a metadata FIFO
    COUNTER_RANGE,      \* 2^31: the counters wrap there
    Tags,               \* metadata values
    NoTag               \* the metadata output after reset

ASSUME OutputQueuesAssumption ==
    /\ BUFFER_SIZE \in Nat /\ METADATA_SIZE \in Nat \ {0, 1}
    /\ MAX_PACKET_SIZE \in 1 .. BUFFER_SIZE /\ COUNTER_RANGE \in Nat \ {0} /\ NoTag \notin Tags

BUFFER_THRESHOLD == BUFFER_SIZE - MAX_PACKET_SIZE

Word == [tag : Tags \cup {NoTag}, pos : 1 .. MAX_PACKET_SIZE, last : BOOLEAN]

VARIABLES
    data, meta,     \* the FIFOs of each queue
    state,          \* "IDLE", "WR_PKT" or "DROP"
    cur_queue,      \* the queues the current packet goes to
    mstate,         \* metadata_state of each queue
    pkt_stored,     \* registered: queues that stored a packet in the last cycle
    pktinqueue,     \* the PKTINQUEUE counters
    offered,        \* the sender's place in its packet: tag and position
    base            \* history: what the queues held when their counter was cleared

vars == <<data, meta, state, cur_queue, mstate, pkt_stored, pktinqueue, offered, base>>

Init ==
    /\ data = [i \in Queues |-> NewFifo([tag |-> NoTag, pos |-> 1, last |-> FALSE])]
    /\ meta = [i \in Queues |-> NewFifo(NoTag)]
    /\ state = "IDLE" /\ cur_queue = {}
    /\ mstate = [i \in Queues |-> "WAIT_HEADER"]
    /\ pkt_stored = {} /\ pktinqueue = [i \in Queues |-> 0]
    /\ offered = [tag |-> NoTag, pos |-> 0]
    /\ base = [i \in Queues |-> 0]

\* Mutant: room for one word is enough.
NearlyFullOneWord(i) ==
    Depth(data[i]) >= BUFFER_SIZE \/ Depth(meta[i]) >= METADATA_SIZE - 1

NearlyFull(i) ==
    Depth(data[i]) >= BUFFER_THRESHOLD \/ Depth(meta[i]) >= METADATA_SIZE - 1

Fits(oq) == \A i \in oq : ~NearlyFull(i)

\* The input state machine on a valid word.
InputState(oq, last) ==
    CASE state = "IDLE" /\ last  -> "IDLE"
      [] state = "IDLE" /\ ~last -> IF Fits(oq) THEN "WR_PKT" ELSE "DROP"
      [] OTHER -> IF last THEN "IDLE" ELSE state

\* Mutant: in the middle of a packet, queues that have filled up are left out.
WrEnWhileRoom(oq) == CASE state = "IDLE"   -> IF Fits(oq) THEN oq ELSE {}
                       [] state = "WR_PKT" -> {i \in cur_queue : ~NearlyFull(i)}
                       [] OTHER            -> {}

\* The queues a valid word is written to.
WrEn(oq) == CASE state = "IDLE"   -> IF Fits(oq) THEN oq ELSE {}
              [] state = "WR_PKT" -> cur_queue
              [] OTHER            -> {}

\* The output state machine of queue i: the metadata goes with the first word.
MetadataRdEn(i, rd_en) == mstate[i] = "WAIT_HEADER" /\ rd_en
MetadataState(i, rd_en) ==
    IF ~rd_en THEN mstate[i]
    ELSE IF data[i].dout.last THEN "WAIT_HEADER" ELSE "WAIT_EOP"

\* The packet count without its overflow bit, which the sum, as wide as what
\* it is compared with, never sets.
CountInQueue(i, removed) ==
    (pktinqueue[i] + (IF i \in pkt_stored THEN 1 ELSE 0) - (IF removed THEN 1 ELSE 0))
        % COUNTER_RANGE

\* Packets in queue i that its counter has had the time to count.
Counted(i) == Len(Words(meta[i])) - (IF i \in pkt_stored THEN 1 ELSE 0)

\* One cycle: the word w for the queues oq is offered if tvalid, the outputs in
\* tready take a word, and the counters in clear are cleared (by a read).
Clock(tvalid, w, oq, tready, clear) ==
    LET wr       == IF tvalid THEN WrEn(oq) ELSE {}
        metawr   == IF state = "IDLE" THEN wr ELSE {}
        rd(i)    == i \in tready /\ ~Empty(data[i])
    IN  /\ data' = [i \in Queues |-> FifoClock(data[i], i \in wr, w, rd(i))]
        /\ meta' = [i \in Queues |->
                      FifoClock(meta[i], i \in metawr, w.tag, MetadataRdEn(i, rd(i)))]
        /\ mstate' = [i \in Queues |-> MetadataState(i, rd(i))]
        /\ state' = IF tvalid THEN InputState(oq, w.last) ELSE state
        /\ cur_queue' = IF state = "IDLE" THEN oq ELSE cur_queue
        /\ pkt_stored' = metawr
        /\ pktinqueue' = [i \in Queues |-> IF i \in clear THEN 0
                             ELSE CountInQueue(i, MetadataRdEn(i, rd(i)))]
        /\ base' = [i \in Queues |-> IF i \in clear THEN Counted(i)' % COUNTER_RANGE ELSE base[i]]

\* The sender sends whole packets of at most MAX_PACKET_SIZE words, with the
\* destination and the metadata on the first; what is not looked at (a word that
\* is not valid, the destination of a later word) has one value.
Next ==
    \E tvalid, last \in BOOLEAN, tag \in Tags \cup {NoTag}, oq, tready, clear \in SUBSET Queues :
        LET pos == offered.pos + 1
        IN  /\ IF tvalid /\ pos = 1 THEN tag # NoTag ELSE tag = offered.tag
            /\ ~tvalid \/ pos = MAX_PACKET_SIZE => last
            /\ pos > 1 => oq = {}
            /\ Clock(tvalid, [tag |-> tag, pos |-> pos, last |-> last], oq, tready, clear)
            /\ offered' = IF ~tvalid THEN offered
                          ELSE IF last THEN [tag |-> NoTag, pos |-> 0]
                          ELSE [tag |-> tag, pos |-> pos]

Spec == Init /\ [][Next]_vars

-----------------------------------------------------------------------------
\* The types of the variables.
TypeOK ==
    /\ data \in [Queues -> Fifo(Word)] /\ meta \in [Queues -> Fifo(Tags \cup {NoTag})]
    /\ state \in {"IDLE", "WR_PKT", "DROP"} /\ cur_queue \subseteq Queues
    /\ mstate \in [Queues -> {"WAIT_HEADER", "WAIT_EOP"}]
    /\ pkt_stored \subseteq Queues /\ pktinqueue \in [Queues -> 0 .. COUNTER_RANGE - 1]
    /\ offered \in [tag : Tags \cup {NoTag}, pos : 0 .. MAX_PACKET_SIZE - 1]

(* No FIFO is ever written when it is full, although s_axis_tready is      *)
(* always high and the room is only looked at with a packet's first word   *)
(* ("able to fit in the maximum pacekt", output_queues.v).                 *)
NoOverflow ==
    \A i \in Queues : Depth(data[i]) <= BUFFER_SIZE /\ Depth(meta[i]) <= METADATA_SIZE

(* A queue holds whole packets: no word of a dropped packet, no missing    *)
(* word of a stored one, wherever in the packet space ran out.             *)
PacketsAreWhole ==
    \A i \in Queues : LET ws == Words(data[i]) IN
        \A k \in 1 .. Len(ws) - 1 :
            IF ws[k].last THEN ws[k + 1].pos = 1
            ELSE ws[k + 1].pos = ws[k].pos + 1 /\ ws[k + 1].tag = ws[k].tag

(* The two FIFOs of a queue stay aligned: when the first word of a packet  *)
(* is on the output, tuser is that packet's metadata.                      *)
HeaderMatches ==
    \A i \in Queues : ~Empty(data[i]) =>
        /\ mstate[i] = "WAIT_HEADER" <=> data[i].dout.pos = 1
        /\ data[i].dout.pos = 1 => ~Empty(meta[i]) /\ meta[i].dout = data[i].dout.tag

(* Since it was last cleared, which a read of it does, the PKTINQUEUE      *)
(* counter has gained every packet stored and lost every packet removed,   *)
(* though it sees a store one cycle after it sees a removal: it is the     *)
(* number of packets in the queue minus the number at the clear.           *)
CounterMatches ==
    \A i \in Queues : pktinqueue[i] = (Counted(i) - base[i]) % COUNTER_RANGE

(* Packets stay whole in the queues, with their own metadata and counted:  *)
(* no word of a dropped packet is stored and none of a stored one is       *)
(* missing, the metadata on the output are those of the packet that starts *)
(* there, and the counter of a queue follows its packets.                  *)
PacketsStayWhole == TypeOK /\ PacketsAreWhole /\ HeaderMatches /\ CounterMatches
=============================================================================
