------------------------- MODULE OutputQueues_proofs -------------------------
(***************************************************************************)
(* For any number of queues, buffer and packet sizes: output_queues.v      *)
(* never overruns a FIFO, keeps packets whole and with their metadata, and *)
(* counts them.                                                            *)
(***************************************************************************)
EXTENDS OutputQueues, TLAPS

Tag == Tags \cup {NoTag}

(* The inductive invariant: between the first and the last word of a       *)
(* packet that is being stored, every queue it goes to has room for the    *)
(* words that may still come.                                              *)
Room ==
    /\ state = "IDLE" <=> offered.pos = 0
    /\ state = "WR_PKT" => \A i \in cur_queue :
         Depth(data[i]) + (MAX_PACKET_SIZE - offered.pos) <= BUFFER_SIZE

IInv == TypeOK /\ NoOverflow /\ Room

\* A condition as a number of words.
Bit(b) == IF b THEN 1 ELSE 0

\* The words of a FIFO that are in its registers.
Regs(f) == Bit(f.dout_valid) + Bit(f.middle_valid) + Bit(f.fifo_valid)

\* The lemmas about FifoOps; they say nothing of a circuit, so none is given.
Fifos == INSTANCE Fifo_proofs WITH
            Values <- {0}, MAX_DEPTH <- 1,
            queue <- 0, rd_ptr <- 0, wr_ptr <- 0, depth <- 0, dout <- 0, fifo_valid <- 0,
            middle_valid <- 0, dout_valid <- 0, middle_dout <- 0, out <- 0, hidden <- 0

(* The FIFOs there are the ones of output_queues.v.                        *)
LEMMA SameFifos ==
    /\ \A S : Fifos!Fifo(S) = Fifo(S)
    /\ \A f : /\ Fifos!Depth(f) = Depth(f) /\ Fifos!Words(f) = Words(f)
              /\ Fifos!Regs(f) = Regs(f)
    /\ \A b : Fifos!Bit(b) = Bit(b)
    /\ \A f, wr_en, din, rd_en :
          Fifos!FifoClock(f, wr_en, din, rd_en) = FifoClock(f, wr_en, din, rd_en)
<1>1. \A S : Fifos!Fifo(S) = Fifo(S)
  BY Zenon DEF Fifos!Fifo, Fifo
<1>2. \A b : Fifos!Bit(b) = Bit(b)
  BY Zenon DEF Fifos!Bit, Bit
<1>3. \A f : /\ Fifos!Depth(f) = Depth(f) /\ Fifos!Words(f) = Words(f)
            /\ Fifos!Regs(f) = Regs(f)
  BY <1>2, Zenon DEF Fifos!Depth, Depth, Fifos!Words, Words, Fifos!Regs, Regs
<1>4. \A f, rd_en : Fifos!WillUpdateDout(f, rd_en) = WillUpdateDout(f, rd_en)
  BY Zenon DEF Fifos!WillUpdateDout, WillUpdateDout
<1>5. \A f, rd_en : Fifos!WillUpdateMiddle(f, rd_en) = WillUpdateMiddle(f, rd_en)
  BY <1>4, Zenon DEF Fifos!WillUpdateMiddle, WillUpdateMiddle
<1>6. \A f : Fifos!FifoRdEn(f) = FifoRdEn(f)
  BY Zenon DEF Fifos!FifoRdEn, FifoRdEn
<1>7. ASSUME NEW f, NEW wr_en, NEW din, NEW rd_en
      PROVE  Fifos!FifoClock(f, wr_en, din, rd_en) = FifoClock(f, wr_en, din, rd_en)
  <2>1. /\ Fifos!WillUpdateDout(f, rd_en) = WillUpdateDout(f, rd_en)
        /\ Fifos!WillUpdateMiddle(f, rd_en) = WillUpdateMiddle(f, rd_en)
        /\ Fifos!FifoRdEn(f) = FifoRdEn(f)
    BY <1>4, <1>5, <1>6, Zenon
  <2> QED BY <2>1 DEF Fifos!FifoClock, FifoClock
<1> QED BY <1>1, <1>2, <1>3, <1>7, Zenon

(* The assumption of the FIFO's module, whose constants play no part here. *)
LEMMA AnyDepth == {0} # {} /\ 1 \in Nat \ {0}
OBVIOUS

(* A cycle of a FIFO keeps its type and adds at most the word written.     *)
LEMMA FifoClockDepth ==
    ASSUME NEW S, NEW f \in Fifo(S), NEW wr_en \in BOOLEAN, NEW din \in S, NEW rd_en \in BOOLEAN
    PROVE  /\ FifoClock(f, wr_en, din, rd_en) \in Fifo(S)
           /\ Depth(FifoClock(f, wr_en, din, rd_en)) \in Nat
           /\ Depth(f) \in Nat
           /\ Depth(FifoClock(f, wr_en, din, rd_en)) <= Depth(f) + 1
           /\ ~wr_en => Depth(FifoClock(f, wr_en, din, rd_en)) <= Depth(f)
BY Fifos!FifoClockDepth, SameFifos, AnyDepth

(* A cycle in which the sender keeps to its rules.                         *)
Cycle(tvalid, w, oq, tready, clear) ==
    /\ w \in Word /\ w.pos = offered.pos + 1
    /\ w.pos = MAX_PACKET_SIZE /\ tvalid => w.last
    /\ tvalid /\ w.pos # 1 => w.tag = offered.tag
    /\ Clock(tvalid, w, oq, tready, clear)
    /\ offered' = IF ~tvalid THEN offered
                  ELSE IF w.last THEN [tag |-> NoTag, pos |-> 0]
                  ELSE [tag |-> w.tag, pos |-> w.pos]

(* Every step is such a cycle.                                             *)
LEMMA NextIsCycle ==
    ASSUME TypeOK, Next
    PROVE  \E tvalid \in BOOLEAN, w \in Word, oq \in SUBSET Queues,
              tready \in SUBSET Queues, clear \in SUBSET Queues :
              Cycle(tvalid, w, oq, tready, clear)
<1>1. PICK tvalid \in BOOLEAN, last \in BOOLEAN, tag \in Tags \cup {NoTag},
           oq \in SUBSET Queues, tready \in SUBSET Queues, clear \in SUBSET Queues :
        /\ ~tvalid \/ offered.pos + 1 = MAX_PACKET_SIZE => last
        /\ tvalid /\ offered.pos + 1 # 1 => tag = offered.tag
        /\ Clock(tvalid, [tag |-> tag, pos |-> offered.pos + 1, last |-> last], oq, tready, clear)
        /\ offered' = IF ~tvalid THEN offered
                      ELSE IF last THEN [tag |-> NoTag, pos |-> 0]
                      ELSE [tag |-> tag, pos |-> offered.pos + 1]
  <2>1. PICK tvalid \in BOOLEAN, last \in BOOLEAN, tag \in Tags \cup {NoTag},
             oq \in SUBSET Queues, tready \in SUBSET Queues, clear \in SUBSET Queues :
          LET pos == offered.pos + 1
          IN  /\ IF tvalid /\ pos = 1 THEN tag # NoTag ELSE tag = offered.tag
              /\ ~tvalid \/ pos = MAX_PACKET_SIZE => last
              /\ pos > 1 => oq = {}
              /\ Clock(tvalid, [tag |-> tag, pos |-> pos, last |-> last], oq, tready, clear)
              /\ offered' = IF ~tvalid THEN offered
                            ELSE IF last THEN [tag |-> NoTag, pos |-> 0]
                            ELSE [tag |-> tag, pos |-> pos]
    BY Zenon DEF Next
  <2> QED
    BY <2>1, Zenon
<1> DEFINE w == [tag |-> tag, pos |-> offered.pos + 1, last |-> last]
<1>2. offered.pos \in 0 .. MAX_PACKET_SIZE - 1
  BY DEF TypeOK
<1>3. offered.pos + 1 \in 1 .. MAX_PACKET_SIZE
  BY <1>2, OutputQueuesAssumption
<1>4. w \in Word /\ w.pos = offered.pos + 1 /\ w.tag = tag /\ (w.last <=> last)
  BY <1>3 DEF Word
<1>5. Cycle(tvalid, w, oq, tready, clear)
  BY <1>1, <1>4 DEF Cycle
<1> HIDE DEF w
<1> QED
  BY <1>4, <1>5

(* The cycle on one queue: it grows only when it is written.               *)
LEMMA QueueStep ==
    ASSUME TypeOK, NEW tvalid \in BOOLEAN, NEW w \in Word, NEW oq \in SUBSET Queues,
           NEW tready \in SUBSET Queues, NEW clear \in SUBSET Queues,
           Clock(tvalid, w, oq, tready, clear), NEW i \in Queues
    PROVE  /\ data'[i] \in Fifo(Word) /\ meta'[i] \in Fifo(Tag)
           /\ Depth(data[i]) \in Nat /\ Depth(data'[i]) \in Nat
           /\ Depth(meta[i]) \in Nat /\ Depth(meta'[i]) \in Nat
           /\ Depth(data'[i]) <= Depth(data[i]) + 1 /\ Depth(meta'[i]) <= Depth(meta[i]) + 1
           /\ ~(tvalid /\ i \in WrEn(oq)) => Depth(data'[i]) <= Depth(data[i])
           /\ ~(tvalid /\ i \in WrEn(oq) /\ state = "IDLE") => Depth(meta'[i]) <= Depth(meta[i])
<1> DEFINE rd     == i \in tready /\ ~Empty(data[i])
           wr     == tvalid /\ i \in WrEn(oq)
           metawr == wr /\ state = "IDLE"
           metard == MetadataRdEn(i, rd)
<1>1. /\ data'[i] = FifoClock(data[i], i \in (IF tvalid THEN WrEn(oq) ELSE {}), w, rd)
      /\ meta'[i] = FifoClock(meta[i], i \in (IF state = "IDLE" THEN IF tvalid THEN WrEn(oq) ELSE {}
                                               ELSE {}), w.tag, metard)
  BY Zenon DEF Clock
<1>2. /\ (i \in (IF tvalid THEN WrEn(oq) ELSE {})) = wr
      /\ (i \in (IF state = "IDLE" THEN IF tvalid THEN WrEn(oq) ELSE {} ELSE {})) = metawr
  OBVIOUS
<1>3. data'[i] = FifoClock(data[i], wr, w, rd) /\ meta'[i] = FifoClock(meta[i], metawr, w.tag, metard)
  BY <1>1, <1>2
<1>4. data[i] \in Fifo(Word) /\ meta[i] \in Fifo(Tag) /\ w.tag \in Tag
  BY Zenon DEF TypeOK, Word, Tag
<1>5. wr \in BOOLEAN /\ metawr \in BOOLEAN /\ rd \in BOOLEAN /\ metard \in BOOLEAN
  BY Zenon DEF MetadataRdEn
<1> HIDE DEF wr, metawr, rd, metard
<1>6. /\ data'[i] \in Fifo(Word) /\ Depth(data'[i]) \in Nat /\ Depth(data[i]) \in Nat
      /\ Depth(data'[i]) <= Depth(data[i]) + 1 /\ (~wr => Depth(data'[i]) <= Depth(data[i]))
  BY <1>3, <1>4, <1>5, FifoClockDepth
<1>7. /\ meta'[i] \in Fifo(Tag) /\ Depth(meta'[i]) \in Nat /\ Depth(meta[i]) \in Nat
      /\ Depth(meta'[i]) <= Depth(meta[i]) + 1 /\ (~metawr => Depth(meta'[i]) <= Depth(meta[i]))
  BY <1>3, <1>4, <1>5, FifoClockDepth
<1> QED
  BY <1>6, <1>7 DEF wr, metawr

(* A queue is written with a first word only when it has room for a packet,*)
(* and later only when it is one of the packet's queues.                   *)
LEMMA WrittenHasRoom ==
    ASSUME TypeOK, NEW oq \in SUBSET Queues, NEW i \in WrEn(oq)
    PROVE  /\ i \in Queues
           /\ state = "IDLE" => /\ i \in oq /\ Fits(oq)
                               /\ ~(Depth(data[i]) >= BUFFER_THRESHOLD)
                               /\ ~(Depth(meta[i]) >= METADATA_SIZE - 1)
           /\ state # "IDLE" => state = "WR_PKT" /\ i \in cur_queue
BY DEF WrEn, Fits, NearlyFull, TypeOK

(* Room for the longest packet at its first word is room for all of it: a  *)
(* cycle preserves the invariant.                                          *)
LEMMA CyclePreserves ==
    ASSUME IInv, NEW tvalid \in BOOLEAN, NEW w \in Word, NEW oq \in SUBSET Queues,
           NEW tready \in SUBSET Queues, NEW clear \in SUBSET Queues,
           Cycle(tvalid, w, oq, tready, clear)
    PROVE  IInv'
<1>0. /\ TypeOK /\ NoOverflow /\ Room /\ Clock(tvalid, w, oq, tready, clear)
      /\ BUFFER_SIZE \in Nat /\ METADATA_SIZE \in Nat /\ MAX_PACKET_SIZE \in 1 .. BUFFER_SIZE
      /\ BUFFER_THRESHOLD = BUFFER_SIZE - MAX_PACKET_SIZE
      /\ offered.pos \in 0 .. MAX_PACKET_SIZE - 1 /\ w.pos = offered.pos + 1
      /\ state \in {"IDLE", "WR_PKT", "DROP"} /\ cur_queue \subseteq Queues
  BY OutputQueuesAssumption, Zenon DEF IInv, Cycle, TypeOK, BUFFER_THRESHOLD
<1>1. \A i \in Queues :
        /\ data'[i] \in Fifo(Word) /\ meta'[i] \in Fifo(Tag)
        /\ Depth(data[i]) \in Nat /\ Depth(data'[i]) \in Nat
        /\ Depth(meta[i]) \in Nat /\ Depth(meta'[i]) \in Nat
        /\ Depth(data'[i]) <= Depth(data[i]) + 1 /\ Depth(meta'[i]) <= Depth(meta[i]) + 1
        /\ ~(tvalid /\ i \in WrEn(oq)) => Depth(data'[i]) <= Depth(data[i])
        /\ ~(tvalid /\ i \in WrEn(oq) /\ state = "IDLE") => Depth(meta'[i]) <= Depth(meta[i])
  BY <1>0, QueueStep, Zenon
<1>2. \A i \in WrEn(oq) :
        /\ i \in Queues
        /\ state = "IDLE" => /\ i \in oq
                            /\ ~(Depth(data[i]) >= BUFFER_THRESHOLD)
                            /\ ~(Depth(meta[i]) >= METADATA_SIZE - 1)
        /\ state # "IDLE" => state = "WR_PKT" /\ i \in cur_queue
  BY <1>0, WrittenHasRoom
<1>3. /\ state' = IF tvalid THEN InputState(oq, w.last) ELSE state
      /\ cur_queue' = IF state = "IDLE" THEN oq ELSE cur_queue
  BY <1>0 DEF Clock
<1>4. /\ offered' = IF ~tvalid THEN offered
                    ELSE IF w.last THEN [tag |-> NoTag, pos |-> 0]
                    ELSE [tag |-> w.tag, pos |-> w.pos]
      /\ w.pos = MAX_PACKET_SIZE /\ tvalid => w.last
      /\ w.last \in BOOLEAN /\ w.tag \in Tag
  BY DEF Cycle, Word, Tag
<1>5. /\ tvalid /\ w.last => state' = "IDLE" /\ offered'.pos = 0
      /\ tvalid /\ ~w.last => /\ offered'.pos = offered.pos + 1
                              /\ state' = IF state = "IDLE" THEN IF Fits(oq) THEN "WR_PKT" ELSE "DROP"
                                          ELSE state
      /\ ~tvalid => state' = state /\ offered' = offered
  BY <1>0, <1>3, <1>4 DEF InputState
<1>6. offered' \in [tag : Tag, pos : 0 .. MAX_PACKET_SIZE - 1]
  <2>1. offered \in [tag : Tag, pos : 0 .. MAX_PACKET_SIZE - 1]
    BY <1>0 DEF TypeOK, Tag
  <2>2. NoTag \in Tag /\ 0 \in 0 .. MAX_PACKET_SIZE - 1
    BY <1>0 DEF Tag
  <2>3. tvalid /\ ~w.last => w.pos \in 0 .. MAX_PACKET_SIZE - 1
    BY <1>0, <1>4
  <2> QED
    BY <1>4, <2>1, <2>2, <2>3
<1>7. TypeOK'
  <2>1. data' \in [Queues -> Fifo(Word)] /\ meta' \in [Queues -> Fifo(Tag)]
    <3>1. /\ data' = [i \in Queues |-> data'[i]]
          /\ meta' = [i \in Queues |-> meta'[i]]
      BY <1>0 DEF Clock
    <3> QED
      BY <1>1, <3>1
  <2>2. state' \in {"IDLE", "WR_PKT", "DROP"} /\ cur_queue' \subseteq Queues
    BY <1>0, <1>3, <1>4, <1>5
  <2>3. mstate' \in [Queues -> {"WAIT_HEADER", "WAIT_EOP"}]
    <3>1. \A i \in Queues, b \in BOOLEAN : MetadataState(i, b) \in {"WAIT_HEADER", "WAIT_EOP"}
      BY <1>0 DEF TypeOK, MetadataState
    <3>2. mstate' = [i \in Queues |-> MetadataState(i, i \in tready /\ ~Empty(data[i]))]
      BY <1>0, Zenon DEF Clock
    <3>3. \A i \in Queues : (i \in tready /\ ~Empty(data[i])) \in BOOLEAN
      OBVIOUS
    <3> QED
      BY <3>1, <3>2, <3>3, Zenon
  <2>4. pkt_stored' \subseteq Queues
    <3>1. pkt_stored' \subseteq WrEn(oq)
      BY <1>0 DEF Clock
    <3> QED
      BY <1>2, <3>1
  <2>5. pktinqueue' \in [Queues -> 0 .. COUNTER_RANGE - 1]
    <3>0. COUNTER_RANGE \in Nat \ {0}
      BY OutputQueuesAssumption
    <3>1. \A i \in Queues, b \in BOOLEAN : CountInQueue(i, b) \in 0 .. COUNTER_RANGE - 1
      <4> SUFFICES ASSUME NEW i \in Queues, NEW b \in BOOLEAN
                   PROVE  CountInQueue(i, b) \in 0 .. COUNTER_RANGE - 1
        OBVIOUS
      <4>1. pktinqueue[i] \in Int
        BY <1>0, <3>0 DEF TypeOK
      <4>2. PICK n \in Int :
              n = pktinqueue[i] + (IF i \in pkt_stored THEN 1 ELSE 0) - (IF b THEN 1 ELSE 0)
        BY <4>1
      <4>3. n % COUNTER_RANGE \in 0 .. COUNTER_RANGE - 1
        BY <3>0, <4>2
      <4> QED
        BY <4>2, <4>3 DEF CountInQueue
    <3>2. pktinqueue' = [i \in Queues |-> IF i \in clear THEN 0
             ELSE CountInQueue(i, MetadataRdEn(i, i \in tready /\ ~Empty(data[i])))]
      BY <1>0, Zenon DEF Clock
    <3>3. \A i \in Queues : MetadataRdEn(i, i \in tready /\ ~Empty(data[i])) \in BOOLEAN
      BY DEF MetadataRdEn
    <3> QED
      BY <3>0, <3>1, <3>2, <3>3
  <2> QED
    BY <1>6, <2>1, <2>2, <2>3, <2>4, <2>5, Zenon DEF TypeOK, Tag
<1>8. NoOverflow'
  <2> SUFFICES ASSUME NEW i \in Queues
               PROVE  Depth(data'[i]) <= BUFFER_SIZE /\ Depth(meta'[i]) <= METADATA_SIZE
    BY DEF NoOverflow, Depth
  <2>1. Depth(data[i]) <= BUFFER_SIZE /\ Depth(meta[i]) <= METADATA_SIZE
    BY <1>0 DEF NoOverflow
  <2>2. i \in WrEn(oq) => Depth(data[i]) + 1 <= BUFFER_SIZE
    <3>1. CASE state = "IDLE"
      BY <1>0, <1>1, <1>2, <3>1
    <3>2. CASE state # "IDLE"
      BY <1>0, <1>1, <1>2, <3>2 DEF Room
    <3> QED
      BY <3>1, <3>2
  <2>3. i \in WrEn(oq) /\ state = "IDLE" => Depth(meta[i]) + 1 <= METADATA_SIZE
    BY <1>0, <1>1, <1>2
  <2> QED
    BY <1>0, <1>1, <2>1, <2>2, <2>3
<1>9. Room'
  <2>1. state' = "IDLE" <=> offered'.pos = 0
    BY <1>0, <1>5 DEF Room
  <2>2. ASSUME state' = "WR_PKT", NEW i \in cur_queue'
        PROVE  Depth(data'[i]) + (MAX_PACKET_SIZE - offered'.pos) <= BUFFER_SIZE
    <3>0. i \in Queues
      BY <1>0, <1>3, <2>2
    <3>1. CASE state = "IDLE"
      <4>1. tvalid /\ ~w.last /\ Fits(oq) /\ i \in oq /\ offered'.pos = offered.pos + 1
        BY <1>3, <1>4, <1>5, <2>2, <3>1
      <4>2. ~(Depth(data[i]) >= BUFFER_THRESHOLD)
        BY <4>1 DEF Fits, NearlyFull
      <4> QED
        BY <1>0, <1>1, <3>0, <4>1, <4>2
    <3>2. CASE state # "IDLE"
      <4>1. state = "WR_PKT" /\ i \in cur_queue
        BY <1>0, <1>3, <1>4, <1>5, <2>2, <3>2
      <4>2. Depth(data[i]) + (MAX_PACKET_SIZE - offered.pos) <= BUFFER_SIZE
        BY <1>0, <4>1 DEF Room
      <4>3. CASE tvalid
        <5>1. offered'.pos = offered.pos + 1
          BY <1>4, <1>5, <2>2, <4>3
        <5> QED
          BY <1>0, <1>1, <3>0, <4>2, <5>1
      <4>4. CASE ~tvalid
        BY <1>0, <1>1, <1>5, <3>0, <4>2, <4>4
      <4> QED
        BY <4>3, <4>4
    <3> QED
      BY <3>1, <3>2
  <2> QED
    BY <2>1, <2>2 DEF Room, Depth
<1> QED
  BY <1>7, <1>8, <1>9 DEF IInv

(* At reset the queues are empty and no packet is on its way.              *)
LEMMA IInvInit == Init => IInv
<1> SUFFICES ASSUME Init PROVE IInv
  OBVIOUS
<1>0. /\ BUFFER_SIZE \in Nat /\ METADATA_SIZE \in Nat /\ MAX_PACKET_SIZE \in 1 .. BUFFER_SIZE
      /\ COUNTER_RANGE \in Nat \ {0}
  BY OutputQueuesAssumption
<1>1. \A S : \A d \in S : NewFifo(d) \in Fifo(S) /\ Depth(NewFifo(d)) = 0
  BY DEF NewFifo, Fifo, Depth
<1>2. [tag |-> NoTag, pos |-> 1, last |-> FALSE] \in Word /\ NoTag \in Tags \cup {NoTag}
  BY <1>0 DEF Word
<1>3. /\ \A i \in Queues : Depth(data[i]) = 0 /\ Depth(meta[i]) = 0
      /\ data \in [Queues -> Fifo(Word)] /\ meta \in [Queues -> Fifo(Tags \cup {NoTag})]
  BY <1>1, <1>2, Zenon DEF Init
<1>4. offered \in [tag : Tags \cup {NoTag}, pos : 0 .. MAX_PACKET_SIZE - 1] /\ offered.pos = 0
  <2>1. 0 \in 0 .. MAX_PACKET_SIZE - 1 /\ offered = [tag |-> NoTag, pos |-> 0]
    BY <1>0 DEF Init
  <2> QED
    BY <1>2, <2>1
<1>5. /\ state = "IDLE" /\ cur_queue \subseteq Queues /\ pkt_stored \subseteq Queues
      /\ mstate \in [Queues -> {"WAIT_HEADER", "WAIT_EOP"}]
      /\ pktinqueue \in [Queues -> 0 .. COUNTER_RANGE - 1]
  BY <1>0 DEF Init
<1>6. TypeOK
  BY <1>3, <1>4, <1>5 DEF TypeOK
<1>7. NoOverflow /\ Room
  BY <1>0, <1>3, <1>4, <1>5 DEF NoOverflow, Room
<1> QED
  BY <1>6, <1>7 DEF IInv

(* Every step preserves the invariant.                                     *)
LEMMA IInvStep == IInv /\ [Next]_vars => IInv'
<1>1. ASSUME IInv, UNCHANGED vars PROVE IInv'
  BY <1>1, Zenon DEF IInv, TypeOK, NoOverflow, Room, Depth, vars
<1>2. ASSUME IInv, Next PROVE IInv'
  <2>1. TypeOK
    BY <1>2 DEF IInv
  <2> QED
    BY <1>2, <2>1, NextIsCycle, CyclePreserves
<1> QED
  BY <1>1, <1>2

(* Whatever the number of queues and the sizes of buffers and packets, and *)
(* whatever the receivers do, no FIFO of output_queues.v is written when   *)
(* it is full.                                                             *)
THEOREM QueuesNeverOverflow == Spec => [](TypeOK /\ NoOverflow)
BY IInvInit, IInvStep, PTL DEF Spec, IInv

-----------------------------------------------------------------------------
(* Where the words of a FIFO are: on the output, in the two registers      *)
(* behind it, then in the buffer.                                          *)
LEMMA WordsAt ==
    ASSUME NEW S, NEW f \in Fifo(S)
    PROVE  /\ Words(f) \in Seq(S) /\ Len(Words(f)) = Regs(f) + Len(f.fifo)
           /\ Len(f.fifo) \in Nat
           /\ \A k \in 1 .. Len(f.fifo) : Words(f)[Regs(f) + k] = f.fifo[k]
           /\ f.dout_valid => Words(f)[1] = f.dout
           /\ f.middle_valid => Words(f)[Bit(f.dout_valid) + 1] = f.middle
           /\ f.fifo_valid => Words(f)[Bit(f.dout_valid) + Bit(f.middle_valid) + 1] = f.fifo_dout
BY Fifos!WordsAt, SameFifos, AnyDepth

(* A cycle of a FIFO removes its oldest word if it is read and adds the    *)
(* word that is written; a word shows on the output if one is left in the  *)
(* registers, and one moves into them if there is room.                    *)
LEMMA FifoClockWords ==
    ASSUME NEW S, NEW f \in Fifo(S), NEW wr \in BOOLEAN, NEW din \in S, NEW rd \in BOOLEAN,
           rd => f.dout_valid
    PROVE  LET g == FifoClock(f, wr, din, rd)
           IN  /\ Len(Words(g)) = Len(Words(f)) - Bit(rd) + Bit(wr)
               /\ \A k \in 1 .. Len(Words(f)) - Bit(rd) : Words(g)[k] = Words(f)[k + Bit(rd)]
               /\ wr => Words(g)[Len(Words(f)) - Bit(rd) + 1] = din
               /\ Regs(g) = Regs(f) - Bit(rd) +
                     (IF Regs(f) < 3 /\ Regs(f) < Len(Words(f)) THEN 1 ELSE 0)
               /\ g.dout_valid <=> Regs(f) - Bit(rd) >= 1
BY Fifos!FifoClockWords, SameFifos, AnyDepth

-----------------------------------------------------------------------------
(* The words b are left of the words a when the oldest is removed if rd,   *)
(* and w is added if wr.                                                   *)
Moved(a, b, rd, wr, w) ==
    /\ Len(b) = Len(a) - Bit(rd) + Bit(wr)
    /\ \A k \in 1 .. Len(a) - Bit(rd) : b[k] = a[k + Bit(rd)]
    /\ wr => b[Len(a) - Bit(rd) + 1] = w

(* The first words of packets among the words ws of a data FIFO are at p,  *)
(* and the words ms of the metadata FIFO are their tags.  Of ws and ms the *)
(* first x and y are in the registers: the metadata of a packet is there   *)
(* first.                                                                  *)
Headers(ws, ms, x, y, p) ==
    /\ p \in [1 .. Len(ms) -> 1 .. Len(ws)]
    /\ \A j, k \in 1 .. Len(ms) : j < k => p[j] < p[k]
    /\ \A j \in 1 .. Len(ms) : ws[p[j]].pos = 1 /\ ms[j] = ws[p[j]].tag
    /\ \A k \in 1 .. Len(ws) : ws[k].pos = 1 => \E j \in 1 .. Len(ms) : p[j] = k
    /\ \A j \in 1 .. Len(ms) : y < j => x < p[j]

\* The words in the registers after a cycle.
RegsAfter(x, len, rd) == x - Bit(rd) + (IF x < 3 /\ x < len THEN 1 ELSE 0)

\* Some p shows that the two FIFOs of a queue are aligned.
Aligned(ws, ms, x, y) == \E p : Headers(ws, ms, x, y, p)

(* If the oldest word is the first of a packet, the oldest metadata is     *)
(* that packet's.                                                          *)
LEMMA FirstHeader ==
    ASSUME NEW ws, NEW ms, Len(ws) \in Nat, Len(ms) \in Nat, NEW x, NEW y, NEW p,
           Headers(ws, ms, x, y, p), Len(ws) > 0, ws[1].pos = 1
    PROVE  Len(ms) > 0 /\ p[1] = 1
<1>1. PICK j \in 1 .. Len(ms) : p[j] = 1
  BY DEF Headers
<1>2. p[1] \in 1 .. Len(ws) /\ 1 \in 1 .. Len(ms)
  BY <1>1 DEF Headers
<1>3. 1 < j => p[1] < p[j]
  BY <1>1, <1>2 DEF Headers
<1> QED BY <1>1, <1>2, <1>3

(* A cycle in which a first word is read and written together with its     *)
(* metadata.                                                               *)
Together(ws, us, ms, ns, x, y, rd, mr, wr, mw, w) ==
    /\ Len(ws) \in Nat /\ Len(ms) \in Nat /\ Len(us) \in Nat /\ Len(ns) \in Nat
    /\ x \in 0 .. 3 /\ y \in 0 .. 3 /\ x <= Len(ws) /\ y <= Len(ms)
    /\ rd \in BOOLEAN /\ mr \in BOOLEAN /\ wr \in BOOLEAN /\ mw \in BOOLEAN
    /\ (rd => x > 0) /\ (mr => y > 0)
    /\ (mr <=> rd /\ ws[1].pos = 1) /\ (mw <=> wr /\ w.pos = 1)
    /\ Moved(ws, us, rd, wr, w) /\ Moved(ms, ns, mr, mw, w.tag)

(* Such a cycle keeps the FIFOs aligned: what is removed is the first of   *)
(* p, what is added comes behind the others, and the metadata moves into   *)
(* the registers no later than its word.                                   *)
LEMMA HeadersStep ==
    ASSUME NEW ws, NEW us, NEW ms, NEW ns, NEW x, NEW y, NEW rd, NEW mr, NEW wr, NEW mw, NEW w,
           Together(ws, us, ms, ns, x, y, rd, mr, wr, mw, w), Aligned(ws, ms, x, y)
    PROVE  Aligned(us, ns, RegsAfter(x, Len(ws), rd), RegsAfter(y, Len(ms), mr))
<1>0. PICK p : Headers(ws, ms, x, y, p)
  BY DEF Aligned
<1> SUFFICES
      ASSUME Len(ws) \in Nat, Len(ms) \in Nat, Len(us) \in Nat, Len(ns) \in Nat,
             x \in 0 .. 3, y \in 0 .. 3, x <= Len(ws), y <= Len(ms),
             rd \in BOOLEAN, mr \in BOOLEAN, wr \in BOOLEAN, mw \in BOOLEAN,
             rd => x > 0, mr => y > 0, mr <=> rd /\ ws[1].pos = 1, mw <=> wr /\ w.pos = 1,
             Moved(ws, us, rd, wr, w), Moved(ms, ns, mr, mw, w.tag)
      PROVE  Aligned(us, ns, RegsAfter(x, Len(ws), rd), RegsAfter(y, Len(ms), mr))
  BY DEF Together
<1> DEFINE b == Bit(rd)
           c == Bit(mr)
           m == Len(ms) - c
           n == Len(ws) - b
           q == [j \in 1 .. Len(ns) |-> IF j <= m THEN p[j + c] - b ELSE n + 1]
           x1 == RegsAfter(x, Len(ws), rd)
           y1 == RegsAfter(y, Len(ms), mr)
<1>1. /\ b \in {0, 1} /\ c \in {0, 1} /\ (rd <=> b = 1) /\ (mr <=> c = 1) /\ c <= b
      /\ Bit(wr) \in {0, 1} /\ Bit(mw) \in {0, 1} /\ (wr <=> Bit(wr) = 1) /\ (mw <=> Bit(mw) = 1)
  BY DEF Bit
<1>2. m \in Nat /\ n \in Nat /\ Len(ns) = m + Bit(mw) /\ Len(us) = n + Bit(wr)
  BY <1>1 DEF Moved
<1>x. /\ x1 \in Int /\ b \in Int /\ x1 <= n
      /\ (x < 3 => x1 <= x - b + 1) /\ (x = 3 => x1 = 3 - b)
  BY <1>1 DEF RegsAfter
<1>y. /\ y1 \in Int /\ c \in Int /\ y - c <= y1
      /\ (y < 3 => (y < Len(ms) => y1 = y - c + 1))
  BY <1>1 DEF RegsAfter
<1>3. /\ \A k \in 1 .. n : us[k] = ws[k + b]
      /\ \A j \in 1 .. m : ns[j] = ms[j + c]
      /\ wr => us[n + 1] = w
      /\ mw => ns[m + 1] = w.tag
  BY DEF Moved
<1>4. \A j \in 1 .. Len(ms) : p[j] \in 1 .. Len(ws) /\ ws[p[j]].pos = 1 /\ ms[j] = ws[p[j]].tag
  BY <1>0 DEF Headers
<1>5. mr => p[1] = 1
  BY <1>0, FirstHeader
<1> HIDE DEF b, c, m, n, x1, y1
<1>6. \A j \in 1 .. m : j + c \in 1 .. Len(ms) /\ p[j + c] - b \in 1 .. n
  <2> SUFFICES ASSUME NEW j \in 1 .. m PROVE j + c \in 1 .. Len(ms) /\ p[j + c] - b \in 1 .. n
    OBVIOUS
  <2>1. j + c \in 1 .. Len(ms)
    BY <1>1, <1>2 DEF m
  <2>2. p[j + c] \in 1 .. Len(ws) /\ ws[p[j + c]].pos = 1
    BY <1>4, <2>1
  <2>3. b = 1 => p[j + c] > 1
    <3>1. CASE c = 1
      <4>1. 1 \in 1 .. Len(ms) /\ 1 < j + c
        BY <2>1, <3>1
      <4>2. p[1] < p[j + c]
        BY <1>0, <2>1, <4>1 DEF Headers
      <4> QED BY <1>1, <1>5, <2>2, <3>1, <4>2
    <3>2. CASE c = 0
      BY <1>1, <2>2, <3>2
    <3> QED BY <1>1, <3>1, <3>2
  <2> QED BY <1>1, <2>1, <2>2, <2>3 DEF n
<1>a. /\ m \in Int /\ n \in Int /\ 0 <= m /\ 0 <= n
      /\ (mw => Len(ns) = m + 1 /\ Len(us) = n + 1) /\ (~mw => Len(ns) = m)
      /\ (wr => Len(us) = n + 1) /\ (~wr => Len(us) = n) /\ n <= Len(us)
  BY <1>1, <1>2
<1>b. \A j \in 1 .. Len(ns) : j \in 1 .. m \/ (mw /\ j = m + 1)
  BY <1>a
<1>10. \A j \in 1 .. m : j \in 1 .. Len(ns)
  BY <1>a
<1>7. q \in [1 .. Len(ns) -> 1 .. Len(us)]
  <2> SUFFICES ASSUME NEW j \in 1 .. Len(ns)
               PROVE  (IF j <= m THEN p[j + c] - b ELSE n + 1) \in 1 .. Len(us)
    OBVIOUS
  <2>1. CASE j \in 1 .. m
    BY <1>a, <1>6, <2>1
  <2>2. CASE mw /\ j = m + 1
    BY <1>a, <2>2
  <2> QED BY <1>b, <2>1, <2>2
<1>8. \A j \in 1 .. m : q[j] = p[j + c] - b
  BY <1>a, <1>10
<1>9. mw => q[m + 1] = n + 1
  BY <1>a
<1> HIDE DEF q
<1>11. \A j, k \in 1 .. Len(ns) : j < k => q[j] < q[k]
  <2> SUFFICES ASSUME NEW j \in 1 .. Len(ns), NEW k \in 1 .. Len(ns), j < k PROVE q[j] < q[k]
    OBVIOUS
  <2>1. j \in 1 .. m
    BY <1>a, <1>b
  <2>2. CASE k \in 1 .. m
    <3>1. p[j + c] < p[k + c]
      <4>1. j + c \in 1 .. Len(ms) /\ k + c \in 1 .. Len(ms)
        BY <1>6, <2>1, <2>2, Zenon
      <4>2. j + c < k + c
        BY <1>1, <2>1, <2>2
      <4>3. \A h, l \in 1 .. Len(ms) : h < l => p[h] < p[l]
        BY <1>0, Zenon DEF Headers
      <4> QED BY <4>1, <4>2, <4>3, Zenon
    <3>2. p[j + c] \in Int /\ p[k + c] \in Int
      BY <1>4, <1>6, <2>1, <2>2
    <3> QED BY <1>1, <1>8, <2>1, <2>2, <3>1, <3>2
  <2>3. CASE mw /\ k = m + 1
    <3>1. q[j] \in 1 .. n /\ q[k] = n + 1
      BY <1>6, <1>8, <1>9, <2>1, <2>3, Zenon
    <3> QED BY <1>a, <3>1
  <2> QED BY <1>b, <2>2, <2>3
<1>12. \A j \in 1 .. Len(ns) : us[q[j]].pos = 1 /\ ns[j] = us[q[j]].tag
  <2> SUFFICES ASSUME NEW j \in 1 .. Len(ns) PROVE us[q[j]].pos = 1 /\ ns[j] = us[q[j]].tag
    OBVIOUS
  <2>1. CASE j \in 1 .. m
    <3>1. p[j + c] \in Int /\ (p[j + c] - b) + b = p[j + c]
      BY <1>1, <1>4, <1>6, <2>1
    <3>2. us[p[j + c] - b] = ws[p[j + c]] /\ ns[j] = ms[j + c]
      BY <1>3, <1>6, <2>1, <3>1
    <3> QED BY <1>4, <1>6, <1>8, <2>1, <3>2
  <2>2. CASE mw /\ j = m + 1
    BY <1>a, <1>3, <1>9, <2>2
  <2> QED BY <1>b, <2>1, <2>2
<1>13. \A k \in 1 .. Len(us) : us[k].pos = 1 => \E j \in 1 .. Len(ns) : q[j] = k
  <2> SUFFICES ASSUME NEW k \in 1 .. Len(us), us[k].pos = 1 PROVE \E j \in 1 .. Len(ns) : q[j] = k
    OBVIOUS
  <2>1. CASE k \in 1 .. n
    <3>1. k + b \in 1 .. Len(ws) /\ ws[k + b].pos = 1
      BY <1>1, <1>2, <1>3, <2>1 DEF n
    <3>2. PICK i \in 1 .. Len(ms) : p[i] = k + b
      BY <1>0, <3>1 DEF Headers
    <3>3. c = 1 => i # 1
      BY <1>1, <1>5, <2>1, <3>2
    <3>4. i - c \in 1 .. m /\ (i - c) + c = i
      BY <1>1, <3>2, <3>3 DEF m
    <3>5. q[i - c] = k
      BY <1>1, <1>8, <2>1, <3>2, <3>4
    <3> QED BY <1>10, <3>4, <3>5
  <2>2. CASE ~(k \in 1 .. n)
    <3>1. wr /\ k = n + 1
      BY <1>a, <2>2
    <3>2. mw
      BY <1>3, <3>1
    <3> QED BY <1>a, <1>9, <3>1, <3>2
  <2> QED BY <2>1, <2>2
<1>14. \A j \in 1 .. Len(ns) : y1 < j => x1 < q[j]
  <2> SUFFICES ASSUME NEW j \in 1 .. Len(ns), y1 < j PROVE x1 < q[j]
    OBVIOUS
  <2>1. CASE j \in 1 .. m
    <3> DEFINE i == j + c
    <3>1. i \in 1 .. Len(ms) /\ p[i] \in 1 .. Len(ws) /\ q[j] = p[i] - b /\ i = j + c
      BY <1>4, <1>6, <1>8, <2>1
    <3> HIDE DEF i
    <3>2. y < i /\ (y < 3 => y + 1 < i)
      <4>1. i \in Int /\ j \in Int /\ j = i - c /\ i <= Len(ms)
        BY <1>y, <3>1
      <4>2. y < i
        BY <1>y, <4>1
      <4>3. y < 3 => y < Len(ms)
        BY <4>1, <4>2
      <4>4. y < 3 => y1 = y - c + 1
        BY <1>y, <4>3, Zenon
      <4> QED BY <1>y, <4>1, <4>2, <4>4, SMTT(30)
    <3>3. x < p[i]
      BY <1>0, <3>1, <3>2 DEF Headers
    <3>4. p[i] \in Int
      BY <3>1
    <3>5. x < 3 => x + 1 < p[i]
      <4>1. CASE y < 3
        <5>1. i - 1 \in 1 .. Len(ms) /\ y < i - 1 /\ i - 1 < i
          BY <3>1, <3>2, <4>1
        <5>2. x < p[i - 1] /\ p[i - 1] < p[i] /\ p[i - 1] \in Int
          BY <1>0, <1>4, <3>1, <5>1 DEF Headers
        <5> QED BY <3>4, <5>2
      <4>2. CASE y = 3
        <5>1. 1 \in 1 .. Len(ms) /\ 2 \in 1 .. Len(ms) /\ 3 \in 1 .. Len(ms) /\ 3 < i
          BY <3>1, <3>2, <4>2
        <5>2. p[1] < p[2] /\ p[2] < p[3] /\ p[3] < p[i]
          <6>1. \A k, l \in 1 .. Len(ms) : k < l => p[k] < p[l]
            BY <1>0, Zenon DEF Headers
          <6>2. 1 < 2 /\ 2 < 3
            OBVIOUS
          <6> QED BY <3>1, <5>1, <6>1, <6>2, Zenon
        <5>3. p[1] \in 1 .. Len(ws) /\ p[2] \in 1 .. Len(ws) /\ p[3] \in 1 .. Len(ws)
          BY <1>4, <5>1
        <5>4. p[i] >= 4
          <6>1. p[1] \in Int /\ p[2] \in Int /\ p[3] \in Int /\ p[1] >= 1
            BY <5>3
          <6> QED BY <3>4, <5>2, <6>1
        <5> QED BY <3>4, <5>4
      <4> QED BY <4>1, <4>2
    <3>6. x1 < p[i] - b
      <4>1. CASE x < 3
        <5>1. x1 <= x - b + 1 /\ x + 1 < p[i] /\ x1 \in Int /\ b \in Int
          BY <1>x, <3>5, <4>1, Zenon
        <5> QED BY <3>4, <5>1, SMTT(30)
      <4>2. CASE x = 3
        BY <1>x, <3>3, <3>4, <4>2, SMTT(30)
      <4> QED BY <4>1, <4>2
    <3> QED BY <3>1, <3>6
  <2>2. CASE mw /\ j = m + 1
    BY <1>a, <1>x, <1>9, <2>2
  <2> QED BY <1>b, <2>1, <2>2
<1>15. Headers(us, ns, x1, y1, q)
  BY <1>7, <1>11, <1>12, <1>13, <1>14 DEF Headers
<1> QED BY <1>15, Zenon DEF Aligned, x1, y1

(* Arithmetic of the counters, modulo their range.                         *)
LEMMA ModUnique ==
    ASSUME NEW C \in Nat \ {0}, NEW q \in Int, NEW r \in 0 .. C - 1
    PROVE  (q * C + r) % C = r
OBVIOUS

LEMMA DivMod ==
    ASSUME NEW C \in Nat \ {0}, NEW a \in Int
    PROVE  a \div C \in Int /\ a % C \in 0 .. C - 1 /\ a = (a \div C) * C + (a % C)
OBVIOUS

LEMMA ModShift ==
    ASSUME NEW C \in Nat \ {0}, NEW a \in Int, NEW d \in -1 .. 1
    PROVE  ((a % C) + d) % C = (a + d) % C
<1> DEFINE x == a % C
           q == a \div C
<1>1. q \in Int /\ x \in 0 .. C - 1 /\ a = q * C + x
  BY DivMod
<1> HIDE DEF x, q
<1>2. CASE x + d = -1
  <2>1. a + d = (q - 1) * C + (C - 1) /\ x + d = (-1) * C + (C - 1)
    BY <1>1, <1>2
  <2>2. C - 1 \in 0 .. C - 1 /\ q - 1 \in Int /\ -1 \in Int
    BY <1>1
  <2>3. ((q - 1) * C + (C - 1)) % C = C - 1 /\ ((-1) * C + (C - 1)) % C = C - 1
    BY <2>2, ModUnique, Zenon
  <2> QED BY <2>1, <2>3 DEF x
<1>3. CASE x + d = C
  <2>1. a + d = (q + 1) * C + 0 /\ x + d = 1 * C + 0
    BY <1>1, <1>3
  <2>2. 0 \in 0 .. C - 1 /\ q + 1 \in Int /\ 1 \in Int
    BY <1>1
  <2>3. ((q + 1) * C + 0) % C = 0 /\ (1 * C + 0) % C = 0
    BY <2>2, ModUnique
  <2> QED BY <2>1, <2>3 DEF x
<1>4. CASE x + d \in 0 .. C - 1
  <2>1. a + d = q * C + (x + d) /\ x + d = 0 * C + (x + d)
    BY <1>1
  <2>2. (q * C + (x + d)) % C = x + d /\ (0 * C + (x + d)) % C = x + d
    BY <1>1, <1>4, ModUnique
  <2> QED BY <2>1, <2>2 DEF x
<1> QED BY <1>1, <1>2, <1>3, <1>4

LEMMA ModOwn ==
    ASSUME NEW C \in Nat \ {0}, NEW a \in Int
    PROVE  (a - (a % C)) % C = 0
<1> DEFINE x == a % C
           q == a \div C
<1>1. q \in Int /\ x \in 0 .. C - 1 /\ a = q * C + x
  BY DivMod
<1> HIDE DEF x, q
<1>2. a - x = q * C + 0
  BY <1>1
<1>3. (q * C + 0) % C = 0
  BY <1>1, ModUnique
<1> QED BY <1>2, <1>3 DEF x

-----------------------------------------------------------------------------
\* Word w may come after word v.
Follows(v, w) == IF v.last THEN w.pos = 1 ELSE w.pos = v.pos + 1 /\ w.tag = v.tag

(* The words of a queue are whole packets: the last packet is complete     *)
(* unless its words are still being written, of which the sender is at o,  *)
(* and the first begins with its first word if a header is waited for.     *)
Whole(ws, writing, o, header) ==
    /\ \A k \in 1 .. Len(ws) - 1 : Follows(ws[k], ws[k + 1])
    /\ Len(ws) > 0 => LET v == ws[Len(ws)]
                      IN  IF writing THEN ~v.last /\ v.pos = o.pos /\ v.tag = o.tag ELSE v.last
    /\ header <=> IF Len(ws) > 0 THEN ws[1].pos = 1 ELSE ~writing

(* The word w written, if any, is the next of the packet that is being     *)
(* written, or begins one; with it the packet is complete or goes on, and  *)
(* the sender is at o1.                                                    *)
Sends(wr, w, writing, o, writing1, o1) ==
    /\ wr \in BOOLEAN /\ writing \in BOOLEAN /\ writing1 \in BOOLEAN /\ w.last \in BOOLEAN
    /\ w.pos \in Nat \ {0} /\ o.pos \in Nat /\ (writing => o.pos > 0)
    /\ wr => IF writing THEN w.pos = o.pos + 1 /\ w.tag = o.tag ELSE w.pos = 1
    /\ writing1 <=> IF wr THEN ~w.last ELSE writing
    /\ writing1 => IF wr THEN o1.pos = w.pos /\ o1.tag = w.tag ELSE o1 = o

(* The oldest word is read, if rd, and a header is waited for after the    *)
(* last word of a packet.                                                  *)
Takes(ws, rd, header, header1) ==
    /\ rd \in BOOLEAN /\ header \in BOOLEAN /\ header1 \in BOOLEAN
    /\ Len(ws) \in Nat /\ (rd => Len(ws) > 0)
    /\ \A k \in 1 .. Len(ws) : ws[k].pos \in Nat \ {0} /\ ws[k].last \in BOOLEAN
    /\ header1 <=> IF rd THEN ws[1].last ELSE header

(* Such a cycle keeps packets whole.                                       *)
LEMMA WholeStep ==
    ASSUME NEW ws, NEW us, NEW rd, NEW wr, NEW w, NEW writing, NEW o, NEW writing1, NEW o1,
           NEW header, NEW header1, Moved(ws, us, rd, wr, w), Len(us) \in Nat,
           Whole(ws, writing, o, header),
           Sends(wr, w, writing, o, writing1, o1), Takes(ws, rd, header, header1)
    PROVE  Whole(us, writing1, o1, header1)
<1>s. /\ wr \in BOOLEAN /\ writing \in BOOLEAN /\ writing1 \in BOOLEAN /\ w.last \in BOOLEAN
      /\ w.pos \in Nat \ {0} /\ o.pos \in Nat /\ (writing => o.pos > 0)
      /\ wr => IF writing THEN w.pos = o.pos + 1 /\ w.tag = o.tag ELSE w.pos = 1
      /\ writing1 <=> IF wr THEN ~w.last ELSE writing
      /\ writing1 => IF wr THEN o1.pos = w.pos /\ o1.tag = w.tag ELSE o1 = o
  BY DEF Sends
<1>t. /\ rd \in BOOLEAN /\ header \in BOOLEAN /\ header1 \in BOOLEAN
      /\ Len(ws) \in Nat /\ (rd => Len(ws) > 0)
      /\ \A k \in 1 .. Len(ws) : ws[k].pos \in Nat \ {0} /\ ws[k].last \in BOOLEAN
      /\ header1 <=> IF rd THEN ws[1].last ELSE header
  BY DEF Takes
<1> DEFINE b == Bit(rd)
           n == Len(ws) - b
<1>1. /\ b \in {0, 1} /\ (rd <=> b = 1) /\ n \in Nat /\ n + b = Len(ws)
      /\ (wr => Len(us) = n + 1) /\ (~wr => Len(us) = n)
  BY <1>s, <1>t DEF Bit, Moved
<1>2. (\A k \in 1 .. n : us[k] = ws[k + b]) /\ (wr => us[n + 1] = w)
  BY DEF Moved
<1> HIDE DEF b, n
<1>3. n > 0 => us[n] = ws[Len(ws)] /\ Len(ws) > 0
  BY <1>s, <1>t, <1>1, <1>2
<1>4. \A k \in 1 .. Len(us) - 1 : Follows(us[k], us[k + 1])
  <2> SUFFICES ASSUME NEW k \in 1 .. Len(us) - 1 PROVE Follows(us[k], us[k + 1])
    OBVIOUS
  <2>1. CASE k < n
    <3>1. us[k] = ws[k + b] /\ us[k + 1] = ws[(k + b) + 1] /\ k + b \in 1 .. Len(ws) - 1
      <4>1. k \in 1 .. n /\ k + 1 \in 1 .. n /\ (k + 1) + b = (k + b) + 1
            /\ k + b \in 1 .. Len(ws) - 1
        BY <1>s, <1>t, <1>1, <2>1
      <4> QED BY <1>s, <1>t, <1>2, <4>1
    <3> QED BY <1>t, <3>1, Zenon DEF Whole
  <2>2. CASE k = n /\ wr
    <3>1. us[k] = ws[Len(ws)] /\ Len(ws) > 0 /\ us[k + 1] = w
      BY <1>s, <1>t, <1>1, <1>2, <1>3, <2>2
    <3> QED BY <1>s, <1>t, <2>2, <3>1, SMTT(30) DEF Whole, Follows
  <2> QED BY <1>s, <1>t, <1>1, <2>1, <2>2
<1>5. Len(us) > 0 => LET v == us[Len(us)]
                     IN  IF writing1 THEN ~v.last /\ v.pos = o1.pos /\ v.tag = o1.tag ELSE v.last
  <2>1. CASE wr
    BY <1>s, <1>t, <1>1, <1>2, <2>1, SMTT(30)
  <2>2. CASE ~wr
    BY <1>s, <1>t, <1>1, <1>3, <2>2, Zenon DEF Whole
  <2> QED BY <1>s, <1>t, <2>1, <2>2, Zenon
<1>6. header1 <=> IF Len(us) > 0 THEN us[1].pos = 1 ELSE ~writing1
  <2>1. CASE rd
    <3>1. Len(ws) > 0 /\ n + 1 = Len(ws) /\ (header1 <=> ws[1].last)
      BY <1>s, <1>t, <1>1, <2>1, Zenon
    <3>2. CASE n > 0
      <4>1. us[1] = ws[2] /\ Follows(ws[1], ws[1 + 1]) /\ Len(us) > 0
            /\ ws[1].pos \in Nat \ {0} /\ ws[1].last \in BOOLEAN
        BY <1>s, <1>t, <1>1, <1>2, <2>1, <3>1, <3>2 DEF Whole
      <4> QED BY <1>s, <1>t, <3>1, <4>1 DEF Follows
    <3>3. CASE n = 0
      <4>1. Len(ws) = 1 /\ ws[1].last \in BOOLEAN
            /\ IF writing THEN ~ws[1].last ELSE ws[1].last
        <5>1. Len(ws) = 1 /\ ws[1].last \in BOOLEAN
          BY <1>s, <1>t, <3>1, <3>3
        <5>2. IF writing THEN ~ws[Len(ws)].last ELSE ws[Len(ws)].last
          BY <1>t, <3>1, SMTT(30) DEF Whole
        <5> QED BY <1>s, <1>t, <5>1, <5>2
      <4>2. CASE wr
        <5>1. us[1] = w /\ Len(us) = 1
          BY <1>s, <1>t, <1>1, <1>2, <3>3, <4>2, SMTT(30)
        <5> QED BY <1>s, <1>t, <3>1, <4>1, <4>2, <5>1
      <4>3. CASE ~wr
        BY <1>s, <1>t, <1>1, <3>1, <3>3, <4>1, <4>3
      <4> QED BY <1>s, <1>t, <4>2, <4>3, Zenon
    <3> QED BY <1>s, <1>t, <1>1, <3>2, <3>3
  <2>2. CASE ~rd
    <3>1. n = Len(ws) /\ (header1 <=> header)
      BY <1>s, <1>t, <1>1, <2>2
    <3>2. CASE n > 0
      <4>1. us[1] = ws[1] /\ Len(us) > 0 /\ Len(ws) > 0
        BY <1>s, <1>t, <1>1, <1>2, <2>2, <3>1, <3>2
      <4> QED BY <1>s, <1>t, <3>1, <4>1 DEF Whole
    <3>3. CASE n = 0
      <4>1. header <=> ~writing
        BY <1>s, <1>t, <3>1, <3>3 DEF Whole
      <4>2. CASE wr
        <5>1. us[1] = w /\ Len(us) = 1
          BY <1>s, <1>t, <1>1, <1>2, <3>3, <4>2
        <5> QED BY <1>s, <1>t, <3>1, <4>1, <4>2, <5>1, SMTT(30)
      <4>3. CASE ~wr
        BY <1>s, <1>t, <1>1, <3>1, <3>3, <4>1, <4>3
      <4> QED BY <1>s, <1>t, <4>2, <4>3
    <3> QED BY <1>s, <1>t, <1>1, <3>2, <3>3
  <2> QED BY <1>s, <1>t, <2>1, <2>2, Zenon
<1> QED BY <1>4, <1>5, <1>6, Zenon DEF Whole

-----------------------------------------------------------------------------
\* Queue i is being written a packet.
Writing(i) == state = "WR_PKT" /\ i \in cur_queue

(* The invariant of a queue: whole packets, aligned with their metadata,   *)
(* and the metadata of a packet on the output before its first word.       *)
StreamOf(d, m, writing, o, header) ==
    /\ Whole(Words(d), writing, o, header)
    /\ Aligned(Words(d), Words(m), Regs(d), Regs(m))
    /\ ~Empty(d) /\ Words(d)[1].pos = 1 => ~Empty(m)

Stream(i) == StreamOf(data[i], meta[i], Writing(i), offered, mstate[i] = "WAIT_HEADER")

(* A cycle of the two FIFOs of a queue.                                    *)
Ticks(f, g, rd, wr, din) ==
    /\ Moved(Words(f), Words(g), rd, wr, din)
    /\ Regs(g) = RegsAfter(Regs(f), Len(Words(f)), rd)
    /\ ~Empty(g) <=> Regs(f) - Bit(rd) >= 1
    /\ Len(Words(f)) \in Nat /\ Len(Words(g)) \in Nat
    /\ Regs(f) \in 0 .. 3 /\ Regs(f) <= Len(Words(f)) /\ (rd => Regs(f) > 0)

(* What FifoClockWords says, by these names.                               *)
LEMMA FifosStep ==
    ASSUME NEW S, NEW f \in Fifo(S), NEW wr \in BOOLEAN, NEW din \in S, NEW rd \in BOOLEAN,
           rd => ~Empty(f)
    PROVE  Ticks(f, FifoClock(f, wr, din, rd), rd, wr, din) /\ Words(f) \in Seq(S)
<1> DEFINE g == FifoClock(f, wr, din, rd)
<1>1. /\ Len(Words(g)) = Len(Words(f)) - Bit(rd) + Bit(wr)
      /\ \A k \in 1 .. Len(Words(f)) - Bit(rd) : Words(g)[k] = Words(f)[k + Bit(rd)]
      /\ wr => Words(g)[Len(Words(f)) - Bit(rd) + 1] = din
      /\ Regs(g) = Regs(f) - Bit(rd) + (IF Regs(f) < 3 /\ Regs(f) < Len(Words(f)) THEN 1 ELSE 0)
      /\ g.dout_valid <=> Regs(f) - Bit(rd) >= 1
  BY FifoClockWords DEF Empty
<1>2. g \in Fifo(S)
  BY FifoClockDepth
<1>3. Words(f) \in Seq(S) /\ Len(Words(f)) = Regs(f) + Len(f.fifo) /\ Len(f.fifo) \in Nat
  BY WordsAt
<1> HIDE DEF g
<1>4. Words(g) \in Seq(S)
  BY <1>2, WordsAt
<1>5. Regs(f) \in 0 .. 3 /\ (rd => Regs(f) > 0)
  BY DEF Regs, Bit, Empty
<1>6. Len(Words(f)) \in Nat /\ Len(Words(g)) \in Nat /\ Regs(f) <= Len(Words(f))
  BY <1>3, <1>4, <1>5
<1> QED BY <1>1, <1>3, <1>5, <1>6 DEF Ticks, g, Moved, RegsAfter, Empty

(* The metadata is written with the first word of a packet, and read with  *)
(* the word on the output when a header is waited for.                     *)
Serves(d, m, w, wr, rd, mw, mr, header, header1) ==
    /\ d \in Fifo(Word) /\ m \in Fifo(Tag) /\ w \in Word
    /\ rd \in BOOLEAN /\ mw \in BOOLEAN /\ mr \in BOOLEAN
    /\ header \in BOOLEAN /\ header1 \in BOOLEAN
    /\ (rd => ~Empty(d)) /\ (mr <=> header /\ rd) /\ (mw <=> wr /\ w.pos = 1)
    /\ header1 <=> IF rd THEN d.dout.last ELSE header

\* A cycle of a queue for which the invariant holds.
Works(d, m, w, wr, rd, mw, mr, header, header1, writing, o, writing1, o1) ==
    /\ Serves(d, m, w, wr, rd, mw, mr, header, header1)
    /\ Sends(wr, w, writing, o, writing1, o1)
    /\ StreamOf(d, m, writing, o, header)

(* A cycle preserves the invariant of a queue.                             *)
LEMMA StreamOfStep ==
    ASSUME NEW d, NEW m, NEW w, NEW wr, NEW rd, NEW mw, NEW mr, NEW header, NEW header1,
           NEW writing, NEW o, NEW writing1, NEW o1,
           Works(d, m, w, wr, rd, mw, mr, header, header1, writing, o, writing1, o1)
    PROVE  StreamOf(FifoClock(d, wr, w, rd), FifoClock(m, mw, w.tag, mr), writing1, o1, header1)
<1> SUFFICES
      ASSUME d \in Fifo(Word), m \in Fifo(Tag), w \in Word,
             rd \in BOOLEAN, mw \in BOOLEAN, mr \in BOOLEAN, header \in BOOLEAN, header1 \in BOOLEAN,
             rd => ~Empty(d), mr <=> header /\ rd, mw <=> wr /\ w.pos = 1,
             header1 <=> IF rd THEN d.dout.last ELSE header,
             Sends(wr, w, writing, o, writing1, o1), StreamOf(d, m, writing, o, header)
      PROVE  StreamOf(FifoClock(d, wr, w, rd), FifoClock(m, mw, w.tag, mr), writing1, o1, header1)
  BY DEF Works, Serves
<1> DEFINE e == FifoClock(d, wr, w, rd)
           n == FifoClock(m, mw, w.tag, mr)
           ws == Words(d)
           us == Words(e)
           ms == Words(m)
           ns == Words(n)
           x == Regs(d)
           y == Regs(m)
<1>1. w.tag \in Tag /\ wr \in BOOLEAN
  BY DEF Word, Tag, Sends
<1>2. /\ Moved(ws, us, rd, wr, w) /\ Regs(e) = RegsAfter(x, Len(ws), rd)
      /\ ~Empty(e) <=> x - Bit(rd) >= 1
      /\ ws \in Seq(Word) /\ Len(ws) \in Nat /\ Len(us) \in Nat
      /\ x \in 0 .. 3 /\ x <= Len(ws) /\ (rd => x > 0)
  <2>1. Ticks(d, e, rd, wr, w) /\ ws \in Seq(Word)
    BY <1>1, FifosStep
  <2> QED BY <2>1, Zenon DEF Ticks
<1>3. \A k \in 1 .. Len(ws) : ws[k].pos \in Nat \ {0} /\ ws[k].last \in BOOLEAN
  <2> HIDE DEF ws
  <2> SUFFICES ASSUME NEW k \in 1 .. Len(ws)
               PROVE  ws[k].pos \in Nat \ {0} /\ ws[k].last \in BOOLEAN
    OBVIOUS
  <2>1. ws[k] \in Word
    <3>1. ws \in Seq(Word)
      BY <1>2, Zenon
    <3>2. \A S : \A s \in Seq(S) : \A j \in 1 .. Len(s) : s[j] \in S
      OBVIOUS
    <3> QED BY <3>1, <3>2, Zenon
  <2> QED BY <2>1, OutputQueuesAssumption DEF Word
<1>4. rd => Len(ws) > 0 /\ d.dout = ws[1]
  <2>1. rd => d.dout = ws[1]
    BY WordsAt DEF Empty
  <2> HIDE DEF ws, x
  <2>2. rd => Len(ws) > 0
    BY <1>2, SMTT(30)
  <2> QED BY <2>1, <2>2, Zenon
<1>5. Whole(ws, writing, o, header)
  BY Zenon DEF StreamOf
<1>6. mr <=> rd /\ ws[1].pos = 1
  BY <1>4, <1>5, Zenon DEF Whole
<1>7. mr => ~Empty(m)
  BY <1>6 DEF StreamOf
<1>8. /\ Moved(ms, ns, mr, mw, w.tag) /\ Regs(n) = RegsAfter(y, Len(ms), mr)
      /\ ~Empty(n) <=> y - Bit(mr) >= 1
      /\ Len(ms) \in Nat /\ Len(ns) \in Nat
      /\ y \in 0 .. 3 /\ y <= Len(ms) /\ (mr => y > 0)
  <2>1. Ticks(m, n, mr, mw, w.tag)
    BY <1>1, <1>7, FifosStep, Zenon
  <2> QED BY <2>1, Zenon DEF Ticks
<1>9. Aligned(ws, ms, x, y)
  BY DEF StreamOf
<1> HIDE DEF e, n, ws, us, ms, ns, x, y
<1>10. Whole(us, writing1, o1, header1)
  <2>1. Takes(ws, rd, header, header1)
    BY <1>2, <1>3, <1>4 DEF Takes
  <2> QED BY <1>2, <1>5, <2>1, WholeStep, SMTT(30)
<1>11. Aligned(us, ns, RegsAfter(x, Len(ws), rd), RegsAfter(y, Len(ms), mr))
  <2>1. Together(ws, us, ms, ns, x, y, rd, mr, wr, mw, w)
    BY <1>1, <1>2, <1>6, <1>8, Zenon DEF Together
  <2> QED BY <1>9, <2>1, HeadersStep, Zenon
<1>12. ASSUME ~Empty(e), us[1].pos = 1 PROVE ~Empty(n)
  <2>0. PICK p : Headers(ws, ms, x, y, p)
    BY <1>9 DEF Aligned
  <2>1. Bit(rd) \in {0, 1} /\ Bit(mr) \in {0, 1} /\ (rd <=> Bit(rd) = 1) /\ (mr <=> Bit(mr) = 1)
    BY DEF Bit
  <2> DEFINE k == 1 + Bit(rd)
  <2>2. k \in 1 .. Len(ws) /\ k <= x /\ us[1] = ws[k]
    <3>1. x - Bit(rd) >= 1
      BY <1>2, <1>12
    <3>2. 1 \in 1 .. Len(ws) - Bit(rd)
      BY <1>2, <2>1, <3>1, SMTT(30)
    <3>3. us[1] = ws[1 + Bit(rd)]
      BY <1>2, <3>2 DEF Moved
    <3>4. 1 + Bit(rd) \in 1 .. Len(ws) /\ 1 + Bit(rd) <= x
      <4>1. x \in Int /\ x <= Len(ws) /\ Len(ws) \in Int /\ Bit(rd) \in 0 .. 1
        BY <1>2, <2>1, SMTT(30)
      <4> QED BY <3>1, <4>1
    <3> QED BY <3>3, <3>4, Zenon
  <2> HIDE DEF k
  <2>3. PICK j \in 1 .. Len(ms) : p[j] = k
    BY <1>12, <2>0, <2>2 DEF Headers
  <2>4. j <= y
    <3>1. ~(x < p[j])
      BY <1>2, <2>2, <2>3
    <3>2. ~(y < j)
      BY <2>0, <3>1 DEF Headers
    <3> QED BY <1>8, <2>3, <3>2, SMTT(30)
  <2>5. mr => j # 1
    <3>1. mr => Len(ws) > 0 /\ ws[1].pos = 1 /\ k = 1 + 1
      <4>1. mr => rd /\ Bit(rd) = 1 /\ Len(ws) > 0 /\ ws[1].pos = 1
        BY <1>4, <1>6, <2>1, Zenon
      <4> QED BY <4>1, Zenon DEF k
    <3>2. mr => p[1] = 1
      BY <1>2, <1>8, <2>0, <3>1, FirstHeader
    <3> QED BY <2>3, <3>1, <3>2
  <2> QED BY <1>8, <2>1, <2>3, <2>4, <2>5
<1> QED BY <1>2, <1>8, <1>10, <1>11, <1>12, Zenon DEF StreamOf, e, n, us, ns

-----------------------------------------------------------------------------
\* Queue i is written, and read, in a cycle.
Stores(i, tvalid, oq) == tvalid /\ i \in WrEn(oq)
Reads(i, tready) == i \in tready /\ ~Empty(data[i])

(* A cycle of output_queues.v, for one queue.                              *)
QueueCycle(i, tvalid, w, oq, tready, clear) ==
    LET wr == Stores(i, tvalid, oq)
        rd == Reads(i, tready)
    IN  /\ data[i] \in Fifo(Word) /\ meta[i] \in Fifo(Tag)
        /\ data'[i] = FifoClock(data[i], wr, w, rd)
        /\ meta'[i] = FifoClock(meta[i], wr /\ state = "IDLE", w.tag, MetadataRdEn(i, rd))
        /\ mstate'[i] = MetadataState(i, rd)
        /\ i \in pkt_stored' <=> wr /\ state = "IDLE"
        /\ pktinqueue'[i] = IF i \in clear THEN 0 ELSE CountInQueue(i, MetadataRdEn(i, rd))
        /\ base'[i] = IF i \in clear THEN Counted(i)' % COUNTER_RANGE ELSE base[i]

(* What Clock does to one queue.                                           *)
LEMMA QueueClock ==
    ASSUME TypeOK, NEW tvalid \in BOOLEAN, NEW w \in Word, NEW oq \in SUBSET Queues,
           NEW tready \in SUBSET Queues, NEW clear \in SUBSET Queues,
           Cycle(tvalid, w, oq, tready, clear), NEW i \in Queues
    PROVE  QueueCycle(i, tvalid, w, oq, tready, clear)
<1> DEFINE wr == Stores(i, tvalid, oq)
           rd == Reads(i, tready)
<1>1. /\ (i \in (IF tvalid THEN WrEn(oq) ELSE {})) = wr
      /\ (i \in (IF state = "IDLE" THEN IF tvalid THEN WrEn(oq) ELSE {} ELSE {}))
            = (wr /\ state = "IDLE")
  BY DEF Stores
<1>2. /\ data'[i] = FifoClock(data[i], i \in (IF tvalid THEN WrEn(oq) ELSE {}), w, rd)
      /\ meta'[i] = FifoClock(meta[i], i \in (IF state = "IDLE" THEN IF tvalid THEN WrEn(oq) ELSE {}
                                               ELSE {}), w.tag, MetadataRdEn(i, rd))
      /\ mstate'[i] = MetadataState(i, rd)
      /\ pkt_stored' = IF state = "IDLE" THEN IF tvalid THEN WrEn(oq) ELSE {} ELSE {}
      /\ pktinqueue'[i] = IF i \in clear THEN 0 ELSE CountInQueue(i, MetadataRdEn(i, rd))
      /\ base'[i] = IF i \in clear THEN Counted(i)' % COUNTER_RANGE ELSE base[i]
  BY Zenon DEF Cycle, Clock, Reads
<1>3. data[i] \in Fifo(Word) /\ meta[i] \in Fifo(Tag)
  BY Zenon DEF TypeOK, Tag
<1> HIDE DEF wr, rd
<1> QED BY <1>1, <1>2, <1>3, Zenon DEF QueueCycle, wr, rd

(* The words written to one queue are those of whole packets: the queues   *)
(* are chosen with a packet's first word and kept until its last.          *)
LEMMA QueueSends ==
    ASSUME TypeOK, Room, NEW tvalid \in BOOLEAN, NEW w \in Word, NEW oq \in SUBSET Queues,
           NEW tready \in SUBSET Queues, NEW clear \in SUBSET Queues,
           Cycle(tvalid, w, oq, tready, clear), NEW i \in Queues
    PROVE  /\ Sends(Stores(i, tvalid, oq), w, Writing(i), offered, Writing(i)', offered')
           /\ Stores(i, tvalid, oq) => (state = "IDLE" <=> w.pos = 1)
<1>1. /\ w.pos \in Nat \ {0} /\ w.last \in BOOLEAN /\ w.pos = offered.pos + 1
      /\ offered.pos \in Nat /\ state \in {"IDLE", "WR_PKT", "DROP"}
      /\ (state = "IDLE" <=> offered.pos = 0)
      /\ (tvalid => (w.pos # 1 => w.tag = offered.tag))
      /\ offered' = IF ~tvalid THEN offered
                    ELSE IF w.last THEN [tag |-> NoTag, pos |-> 0]
                    ELSE [tag |-> w.tag, pos |-> w.pos]
  BY OutputQueuesAssumption DEF Cycle, TypeOK, Word, Room
<1>2. /\ state' = IF tvalid THEN InputState(oq, w.last) ELSE state
      /\ cur_queue' = IF state = "IDLE" THEN oq ELSE cur_queue
  BY Zenon DEF Cycle, Clock
<1> DEFINE wr == Stores(i, tvalid, oq)
<1>3. CASE state = "IDLE"
  <2>1. ~Writing(i) /\ w.pos = 1 /\ (wr <=> tvalid /\ i \in oq /\ Fits(oq))
    BY <1>1, <1>3 DEF Writing, Stores, WrEn
  <2>2. Writing(i)' <=> wr /\ ~w.last
    BY <1>1, <1>2, <1>3, <2>1 DEF Writing, InputState
  <2>3. wr \in BOOLEAN /\ Writing(i) \in BOOLEAN /\ Writing(i)' \in BOOLEAN
    BY DEF Stores, Writing
  <2>4. Writing(i)' => offered'.pos = w.pos /\ offered'.tag = w.tag
    BY <1>1, <2>1, <2>2, Zenon
  <2> HIDE DEF wr
  <2> QED BY <1>1, <1>3, <2>1, <2>2, <2>3, <2>4 DEF Sends, wr
<1>4. CASE state = "WR_PKT"
  <2>1. (Writing(i) <=> i \in cur_queue) /\ w.pos # 1 /\ offered.pos > 0
        /\ (wr <=> tvalid /\ Writing(i))
    BY <1>1, <1>4 DEF Writing, Stores, WrEn
  <2>2. Writing(i)' <=> Writing(i) /\ ~(tvalid /\ w.last)
    BY <1>1, <1>2, <1>4, <2>1 DEF Writing, InputState
  <2>3. wr \in BOOLEAN /\ Writing(i) \in BOOLEAN /\ Writing(i)' \in BOOLEAN
    BY DEF Stores, Writing
  <2>4. Writing(i)' => IF wr THEN offered'.pos = w.pos /\ offered'.tag = w.tag
                       ELSE offered' = offered
    BY <1>1, <2>1, <2>2, Zenon
  <2> HIDE DEF wr
  <2> QED BY <1>1, <1>4, <2>1, <2>2, <2>3, <2>4 DEF Sends, wr
<1>5. CASE state = "DROP"
  <2>1. ~Writing(i) /\ ~wr
    BY <1>5 DEF Writing, Stores, WrEn
  <2>2. ~Writing(i)'
    BY <1>1, <1>2, <1>5 DEF Writing, InputState
  <2>3. wr \in BOOLEAN /\ Writing(i) \in BOOLEAN /\ Writing(i)' \in BOOLEAN
    BY DEF Stores, Writing
  <2> HIDE DEF wr
  <2> QED BY <1>1, <1>5, <2>1, <2>2, <2>3 DEF Sends, wr
<1> QED BY <1>1, <1>3, <1>4, <1>5, Zenon

(* A cycle of output_queues.v preserves the invariant of every queue.      *)
LEMMA StreamStep ==
    ASSUME TypeOK, Room, NEW tvalid \in BOOLEAN, NEW w \in Word, NEW oq \in SUBSET Queues,
           NEW tready \in SUBSET Queues, NEW clear \in SUBSET Queues,
           Cycle(tvalid, w, oq, tready, clear), NEW i \in Queues, Stream(i)
    PROVE  Stream(i)'
<1> DEFINE wr == Stores(i, tvalid, oq)
           rd == Reads(i, tready)
           mw == wr /\ state = "IDLE"
           mr == MetadataRdEn(i, rd)
           header == mstate[i] = "WAIT_HEADER"
           header1 == mstate'[i] = "WAIT_HEADER"
<1>1. /\ data[i] \in Fifo(Word) /\ meta[i] \in Fifo(Tag)
      /\ data'[i] = FifoClock(data[i], wr, w, rd)
      /\ meta'[i] = FifoClock(meta[i], mw, w.tag, mr)
      /\ mstate'[i] = MetadataState(i, rd)
  <2>1. QueueCycle(i, tvalid, w, oq, tready, clear)
    BY QueueClock
  <2> QED BY <2>1, Zenon DEF QueueCycle
<1>2. Sends(wr, w, Writing(i), offered, Writing(i)', offered') /\ (wr => (state = "IDLE" <=> w.pos = 1))
  BY QueueSends, Zenon
<1>3. /\ rd \in BOOLEAN /\ mw \in BOOLEAN /\ mr \in BOOLEAN /\ header \in BOOLEAN /\ header1 \in BOOLEAN
      /\ (rd => ~Empty(data[i])) /\ (mr <=> header /\ rd) /\ (mw <=> wr /\ w.pos = 1)
  BY <1>2 DEF Reads, MetadataRdEn
<1>4. header1 <=> IF rd THEN data[i].dout.last ELSE header
  BY <1>1 DEF MetadataState
<1>5. StreamOf(data[i], meta[i], Writing(i), offered, header)
  BY DEF Stream
<1> HIDE DEF wr, rd, mw, mr, header, header1
<1>6. StreamOf(FifoClock(data[i], wr, w, rd), FifoClock(meta[i], mw, w.tag, mr),
               Writing(i)', offered', header1)
  <2> DEFINE b == Writing(i)
             b1 == Writing(i)'
             o1 == offered'
             d == data[i]
             m == meta[i]
  <2>1. Serves(d, m, w, wr, rd, mw, mr, header, header1)
    BY <1>1, <1>3, <1>4 DEF Serves
  <2>2. Sends(wr, w, b, offered, b1, o1) /\ StreamOf(d, m, b, offered, header)
    BY <1>2, <1>5, Zenon
  <2> HIDE DEF b, b1, o1, d, m
  <2>3. StreamOf(FifoClock(d, wr, w, rd), FifoClock(m, mw, w.tag, mr), b1, o1, header1)
    <3>1. Works(d, m, w, wr, rd, mw, mr, header, header1, b, offered, b1, o1)
      BY <2>1, <2>2 DEF Works
    <3> QED BY <3>1, StreamOfStep
  <2> QED BY <2>3 DEF b1, o1, d, m
<1> QED BY <1>1, <1>6, Zenon DEF Stream, header1

-----------------------------------------------------------------------------
\* The base of a counter is a number, and the counter what CounterMatches says.
Count(i) == base[i] \in Int /\ pktinqueue[i] = (Counted(i) - base[i]) % COUNTER_RANGE

(* A cycle preserves the meaning of a counter: it adds what was stored one *)
(* cycle earlier, subtracts what is removed now, and a clear makes what    *)
(* the queue holds the new base.                                           *)
LEMMA CountStep ==
    ASSUME TypeOK, Room, NEW tvalid \in BOOLEAN, NEW w \in Word, NEW oq \in SUBSET Queues,
           NEW tready \in SUBSET Queues, NEW clear \in SUBSET Queues,
           Cycle(tvalid, w, oq, tready, clear), NEW i \in Queues, Stream(i), Count(i)
    PROVE  Count(i)'
<1> DEFINE C == COUNTER_RANGE
           rd == Reads(i, tready)
           mw == Stores(i, tvalid, oq) /\ state = "IDLE"
           mr == MetadataRdEn(i, rd)
           l == Len(Words(meta[i]))
           l1 == Len(Words(meta'[i]))
           stored == IF i \in pkt_stored THEN 1 ELSE 0
           removed == IF mr THEN 1 ELSE 0
<1>1. QueueCycle(i, tvalid, w, oq, tready, clear)
  BY QueueClock
<1>2. /\ meta[i] \in Fifo(Tag) /\ data[i] \in Fifo(Word) /\ w.tag \in Tag
      /\ meta'[i] = FifoClock(meta[i], mw, w.tag, mr)
      /\ (i \in pkt_stored') <=> mw
      /\ pktinqueue'[i] = IF i \in clear THEN 0 ELSE CountInQueue(i, mr)
      /\ base'[i] = IF i \in clear THEN Counted(i)' % C ELSE base[i]
  <2>1. w.tag \in Tag
    BY DEF Word, Tag
  <2> QED BY <1>1, <2>1, Zenon DEF QueueCycle
<1>3. mr => ~Empty(meta[i])
  <2> SUFFICES ASSUME mr PROVE ~Empty(meta[i])
    OBVIOUS
  <2>1. mstate[i] = "WAIT_HEADER" /\ data[i].dout_valid /\ ~Empty(data[i])
    BY DEF MetadataRdEn, Reads, Empty
  <2>2. Len(Words(data[i])) > 0
    <3>1. Len(Words(data[i])) = Regs(data[i]) + Len(data[i].fifo) /\ Len(data[i].fifo) \in Nat
      BY <1>2, WordsAt
    <3>2. Regs(data[i]) \in Int /\ Regs(data[i]) >= 1
      BY <2>1 DEF Regs, Bit
    <3> QED BY <3>1, <3>2
  <2>3. Words(data[i])[1].pos = 1
    BY <2>1, <2>2, Zenon DEF Stream, StreamOf, Whole
  <2> QED BY <2>1, <2>3, Zenon DEF Stream, StreamOf
<1>4. mr \in BOOLEAN /\ mw \in BOOLEAN
  BY DEF MetadataRdEn, Reads
<1> HIDE DEF C, rd, mw, mr
<1>5. Ticks(meta[i], FifoClock(meta[i], mw, w.tag, mr), mr, mw, w.tag)
  BY <1>2, <1>3, <1>4, FifosStep
<1>6. l \in Nat /\ l1 = l - removed + (IF mw THEN 1 ELSE 0)
  BY <1>2, <1>5, Zenon DEF Ticks, Moved, Bit
<1>7. Counted(i) = l - stored /\ Counted(i)' = l1 - (IF mw THEN 1 ELSE 0)
  BY <1>2 DEF Counted
<1> HIDE DEF l, l1
<1>8. stored \in {0, 1} /\ removed \in {0, 1} /\ C \in Nat \ {0} /\ base[i] \in Int
  BY OutputQueuesAssumption DEF Count, C
<1> HIDE DEF stored, removed
<1>9. Counted(i)' = l - removed /\ Counted(i) \in Int /\ Counted(i)' \in Int
  BY <1>4, <1>6, <1>7, <1>8
<1>10. CASE i \in clear
  <2>1. pktinqueue'[i] = 0 /\ base'[i] = Counted(i)' % C
    BY <1>2, <1>10
  <2> DEFINE n == Counted(i)'
  <2>2. n \in Int
    BY <1>9
  <2> HIDE DEF n
  <2>3. (n - (n % C)) % C = 0
    BY <1>8, <2>2, ModOwn
  <2>5. n % C \in Int
    BY <1>8, <2>2
  <2>4. base'[i] \in Int /\ pktinqueue'[i] = (Counted(i)' - base'[i]) % C
    BY <2>1, <2>3, <2>5, Zenon DEF n
  <2> QED BY <2>4 DEF Count, C
<1>11. CASE i \notin clear
  <2>1. base'[i] = base[i] /\ pktinqueue'[i] = (pktinqueue[i] + (stored - removed)) % C
    BY <1>2, <1>11, Zenon DEF CountInQueue, stored, removed, C
  <2>2. pktinqueue[i] = (Counted(i) - base[i]) % C
    BY DEF Count, C
  <2> DEFINE a == Counted(i) - base[i]
             d == stored - removed
  <2>3. a \in Int /\ d \in -1 .. 1
    BY <1>8, <1>9
  <2>4. a + d = Counted(i)' - base[i]
    BY <1>6, <1>7, <1>8, <1>9
  <2> HIDE DEF a, d
  <2>6. ((a % C) + d) % C = (a + d) % C
    BY <1>8, <2>3, ModShift, Zenon
  <2>7. pktinqueue'[i] = (Counted(i)' - base'[i]) % C
    BY <2>1, <2>2, <2>4, <2>6, Zenon DEF a, d
  <2> QED BY <1>8, <2>1, <2>7 DEF Count, C
<1> QED BY <1>10, <1>11

-----------------------------------------------------------------------------
(* The strengthened invariant: besides the room for what may still come,   *)
(* every queue holds whole packets with their metadata, and is counted.    *)
PInv == IInv /\ \A i \in Queues : Stream(i) /\ Count(i)

(* At reset the queues are empty and the counters zero.                    *)
LEMMA PInvInit == Init => PInv
<1> SUFFICES ASSUME Init PROVE PInv
  OBVIOUS
<1>1. IInv
  BY IInvInit
<1> SUFFICES ASSUME NEW i \in Queues PROVE Stream(i) /\ Count(i)
  BY <1>1 DEF PInv
<1>2. \A d : Words(NewFifo(d)) = <<>> /\ Empty(NewFifo(d))
  BY SMTT(30) DEF Words, NewFifo, Empty
<1>3. /\ Words(data[i]) = <<>> /\ Words(meta[i]) = <<>> /\ Empty(data[i])
      /\ mstate[i] = "WAIT_HEADER" /\ state = "IDLE" /\ cur_queue = {}
      /\ pkt_stored = {} /\ pktinqueue[i] = 0 /\ base[i] = 0
  BY <1>2 DEF Init
<1>4. Whole(<<>>, Writing(i), offered, TRUE)
  BY <1>3 DEF Whole, Writing
<1>5. Aligned(<<>>, <<>>, Regs(data[i]), Regs(meta[i]))
  <2> DEFINE p == [j \in 1 .. Len(<<>>) |-> 1]
  <2>1. Headers(<<>>, <<>>, Regs(data[i]), Regs(meta[i]), p)
    BY DEF Headers
  <2> QED BY <2>1, Zenon DEF Aligned
<1>6. Stream(i)
  <2>1. (mstate[i] = "WAIT_HEADER") = TRUE
    BY <1>3
  <2> QED BY <1>3, <1>4, <1>5, <2>1, Zenon DEF Stream, StreamOf
<1>7. Count(i)
  <2>1. Counted(i) - base[i] = 0
    BY <1>3 DEF Counted
  <2> QED BY <1>3, <2>1, OutputQueuesAssumption DEF Count
<1> QED BY <1>6, <1>7

(* Every step preserves the strengthened invariant.                        *)
LEMMA PInvStep == PInv /\ [Next]_vars => PInv'
<1> SUFFICES ASSUME PInv, [Next]_vars PROVE PInv'
  OBVIOUS
<1>1. TypeOK /\ Room /\ IInv'
  BY IInvStep DEF PInv, IInv
<1>2. CASE UNCHANGED vars
  <2> SUFFICES ASSUME NEW i \in Queues PROVE Stream(i)' /\ Count(i)'
    BY <1>1 DEF PInv
  <2>1. Stream(i) /\ Count(i)
    BY DEF PInv
  <2>2. /\ data' = data /\ meta' = meta /\ state' = state /\ cur_queue' = cur_queue
        /\ mstate' = mstate /\ pkt_stored' = pkt_stored /\ pktinqueue' = pktinqueue
        /\ offered' = offered /\ base' = base
    BY <1>2 DEF vars
  <2>3. Stream(i)'
    BY <2>1, <2>2, Zenon DEF Stream, Writing
  <2>4. Count(i)'
    BY <2>1, <2>2, Zenon DEF Count, Counted
  <2> QED BY <2>3, <2>4
<1>3. CASE Next
  <2>1. PICK tvalid \in BOOLEAN, w \in Word, oq \in SUBSET Queues,
             tready \in SUBSET Queues, clear \in SUBSET Queues :
             Cycle(tvalid, w, oq, tready, clear)
    BY <1>1, <1>3, NextIsCycle
  <2>2. ASSUME NEW i \in Queues PROVE Stream(i)' /\ Count(i)'
    <3>1. Stream(i) /\ Count(i)
      BY DEF PInv
    <3>2. Stream(i)'
      BY <1>1, <2>1, <3>1, StreamStep, Zenon
    <3>3. Count(i)'
      BY <1>1, <2>1, <3>1, CountStep, Zenon
    <3> QED BY <3>2, <3>3
  <2> QED BY <1>1, <2>2 DEF PInv
<1> QED BY <1>2, <1>3

(* The strengthened invariant implies the three properties.                *)
LEMMA PInvImplies == PInv => PacketsAreWhole /\ HeaderMatches /\ CounterMatches
<1> SUFFICES ASSUME PInv PROVE PacketsAreWhole /\ HeaderMatches /\ CounterMatches
  OBVIOUS
<1>1. ASSUME NEW i \in Queues
      PROVE  /\ data[i] \in Fifo(Word) /\ meta[i] \in Fifo(Tag)
             /\ Whole(Words(data[i]), Writing(i), offered, mstate[i] = "WAIT_HEADER")
             /\ Aligned(Words(data[i]), Words(meta[i]), Regs(data[i]), Regs(meta[i]))
             /\ ~Empty(data[i]) /\ Words(data[i])[1].pos = 1 => ~Empty(meta[i])
  BY Zenon DEF PInv, IInv, TypeOK, Tag, Stream, StreamOf
<1>2. PacketsAreWhole
  BY <1>1, Zenon DEF PacketsAreWhole, Whole, Follows
<1>3. HeaderMatches
  <2> SUFFICES ASSUME NEW i \in Queues, ~Empty(data[i])
               PROVE  /\ mstate[i] = "WAIT_HEADER" <=> data[i].dout.pos = 1
                      /\ data[i].dout.pos = 1 => ~Empty(meta[i]) /\ meta[i].dout = data[i].dout.tag
    BY DEF HeaderMatches
  <2> DEFINE ws == Words(data[i])
             ms == Words(meta[i])
  <2>1. data[i] \in Fifo(Word) /\ meta[i] \in Fifo(Tag) /\ data[i].dout_valid
    BY <1>1, Zenon DEF Empty
  <2>2. ws[1] = data[i].dout /\ Len(ws) \in Nat /\ Len(ms) \in Nat /\ Len(ws) > 0
    <3>1. /\ ws \in Seq(Word) /\ Len(ws) = Regs(data[i]) + Len(data[i].fifo)
          /\ Len(data[i].fifo) \in Nat /\ ws[1] = data[i].dout /\ ms \in Seq(Tag)
      BY <2>1, WordsAt, Zenon
    <3>2. Regs(data[i]) \in Int /\ Regs(data[i]) >= 1
      BY <2>1 DEF Regs, Bit
    <3> HIDE DEF ws, ms
    <3> QED BY <3>1, <3>2, SMTT(30)
  <2>3. mstate[i] = "WAIT_HEADER" <=> data[i].dout.pos = 1
    BY <1>1, <2>2, Zenon DEF Whole
  <2>4. ASSUME data[i].dout.pos = 1 PROVE ~Empty(meta[i]) /\ meta[i].dout = data[i].dout.tag
    <3>1. ~Empty(meta[i])
      BY <1>1, <2>2, <2>4, Zenon
    <3>2. ms[1] = meta[i].dout
      BY <2>1, <3>1, WordsAt, SMTT(30) DEF Empty
    <3>3. PICK p : Headers(ws, ms, Regs(data[i]), Regs(meta[i]), p)
      BY <1>1 DEF Aligned
    <3>4. Len(ms) > 0 /\ p[1] = 1
      BY <2>2, <2>4, <3>3, FirstHeader
    <3>5. 1 \in 1 .. Len(ms)
      BY <2>2, <3>4
    <3>6. ms[1] = ws[p[1]].tag
      BY <3>3, <3>5, Zenon DEF Headers
    <3> QED BY <2>2, <3>1, <3>2, <3>4, <3>6
  <2> QED BY <2>3, <2>4, Zenon
<1>4. CounterMatches
  BY DEF PInv, Count, CounterMatches
<1> QED BY <1>2, <1>3, <1>4

(* Whatever the number of queues, the sizes and the width of the counters, *)
(* and however the receivers take words and the software reads counters:   *)
(* a queue of output_queues.v holds whole packets and nothing of a dropped *)
(* one, the metadata that comes out with a packet's first word is that     *)
(* packet's, and PKTINQUEUE is off by exactly what the queue held when it  *)
(* was last cleared.                                                       *)
THEOREM PacketsStayAligned == Spec => []PacketsStayWhole
<1>1. TypeOK /\ PacketsAreWhole /\ HeaderMatches /\ CounterMatches => PacketsStayWhole
  BY Zenon DEF PacketsStayWhole
<1>2. Spec => []TypeOK
  BY QueuesNeverOverflow, PTL
<1> QED BY <1>1, <1>2, PInvInit, PInvStep, PInvImplies, PTL DEF Spec
=============================================================================
