---------------------------- MODULE Stages_proofs ----------------------------
(***************************************************************************)
(* Two stages of the datapath.  The table of the output port lookup, of any   *)
(* size and speed: the CAM and its LUT hold one table, and lookups and reads   *)
(* answer from it (CamLut).  The input arbiter, for any number of             *)
(* inputs, depth of their FIFOs and length of the packets: it sends whole     *)
(* packets, and an input with a packet to send waits for at most one packet   *)
(* of every other input (InputArbiter).                                       *)
(***************************************************************************)
EXTENDS CamLut, Integers, Sequences, WellFoundedInduction, TLAPS

Write == [row : Rows, val : Row]
Reset(r) == [row |-> r, val |-> ResetRow]

(* What is known of the writes under way and of the records.                  *)
WritesOK ==
    /\ wr = None \/ wr \in Write
    /\ writing = None \/ writing \in Write
    /\ {"stage", "rows", "expected"} \subseteq DOMAIN lookup
    /\ {"stage", "row", "expected"} \subseteq DOMAIN rd

(* During reset the rows up to the one that is being written are empty, but    *)
(* for the one the CAM is at work on.                                        *)
Resetting ==
    state = "RESET" =>
        /\ lookup = NoLookup /\ rd.stage = 0 /\ ack = None
        /\ IF reset_count = 0 THEN wr = None /\ writing = None
                              ELSE wr = Reset(reset_count - 1)
        /\ writing # None => writing.val = ResetRow
        /\ \A r \in Rows : r < reset_count - 1 =>
             lut[r] = ResetRow /\ (cam[r] = NoKey \/ writing = Reset(r))

(* Afterwards every row is the same in both memories, waits to be written, or    *)
(* is written to the LUT and not yet to the CAM.  A write is only asked of a     *)
(* CAM that is not busy.                                                      *)
InStep(r) ==
    \/ cam[r] = lut[r].key
    \/ wr # None /\ wr.row = r
    \/ writing # None /\ writing.row = r
Ready ==
    state = "READY" =>
        /\ \A r \in Rows : InStep(r)
        /\ wr # None => busy = 0
        /\ writing # None => writing.val = lut[writing.row]

(* The data that row r has when a write on its way has reached the LUT.           *)
Coming(r) == IF wr # None /\ wr.row = r THEN wr.val ELSE lut[r]

(* The lookup in flight: what it has found, with the data it is going to read, is  *)
(* one of the right answers.  Once it is past its first stage nothing is written   *)
(* before it has read.                                                          *)
InFlight ==
    lookup.stage # 0 =>
        /\ lookup.rows = {} => \E a \in lookup.expected : a.hit = FALSE
        /\ lookup.rows # {} =>
             /\ lookup.stage # 1 => wr = None
             /\ lookup.stage = 3 => lut_rd_addr = Min(lookup.rows)
             /\ \E a \in lookup.expected :
                   a.hit = TRUE /\ a.data = Coming(Min(lookup.rows)).data

(* The register read in flight.                                              *)
Reading ==
    /\ rd.stage = 1 => rd.row = lut_rd_addr
    /\ ReadReturnsRow

(* The inductive invariant.                                                  *)
IInv ==
    /\ TypeOK /\ WritesOK /\ Resetting /\ Ready /\ InFlight /\ Reading /\ LookupIsExact

-----------------------------------------------------------------------------
(* The encoder gives the lowest row of a match.                               *)
LEMMA LowestRow ==
    ASSUME NEW S \in SUBSET Rows, S # {}
    PROVE  Min(S) \in S
<1>1. S \subseteq Nat
  BY DEF Rows
<1>2. PICK m \in S : \A y \in S : ~(<<y, m>> \in OpToRel(<, Nat))
  BY <1>1, NatLessThanWellFounded, WFMin, Zenon
<1>3. \A y \in S : ~(y < m)
  BY <1>1, <1>2, Zenon DEF OpToRel
<1>4. \A y \in S : m <= y
  BY <1>1, <1>3
<1> QED BY <1>4 DEF Min

(* What a cycle does to the memories: the CAM starts a write, ends one, goes on   *)
(* with it or rests; the LUT is written at once.                              *)
LEMMA MemoryCycle ==
    ASSUME Parameters, TypeOK, WritesOK, CamClock, LutClock
    PROVE  /\ cam' \in [Rows -> Keys \cup {NoKey}] /\ lut' \in [Rows -> Row]
           /\ busy' \in 0 .. WRITE_CYCLES /\ (busy' = 0 <=> writing' = None)
           /\ writing' = None \/ writing' \in Write
           /\ wr = None => lut' = lut
           /\ wr # None => lut' = [lut EXCEPT ![wr.row] = wr.val]
           /\ \/ busy = 0 /\ wr # None /\ writing' = wr /\ cam' = cam
              \/ /\ writing # None /\ writing' = None
                 /\ cam' = [cam EXCEPT ![writing.row] = writing.val.key]
              \/ busy # 0 /\ writing' = writing /\ cam' = cam
              \/ busy = 0 /\ wr = None /\ writing' = writing /\ cam' = cam /\ busy' = 0
<1> USE DEF Parameters
<1>1. CASE busy = 0 /\ wr # None
  <2>1. busy' = WRITE_CYCLES /\ writing' = wr /\ cam' = cam
    BY <1>1 DEF CamClock
  <2> QED BY <1>1, <2>1 DEF TypeOK, WritesOK, LutClock, Write
<1>2. CASE busy = 1
  <2>1. busy' = 0 /\ writing' = None /\ cam' = [cam EXCEPT ![writing.row] = writing.val.key]
    BY <1>2 DEF CamClock
  <2>2. writing \in Write
    BY <1>2 DEF TypeOK, WritesOK
  <2>3. cam' \in [Rows -> Keys \cup {NoKey}]
    BY <2>1, <2>2 DEF TypeOK, Write, Row
  <2>4. lut' \in [Rows -> Row]
    BY DEF TypeOK, WritesOK, LutClock, Write
  <2> QED BY <1>2, <2>1, <2>2, <2>3, <2>4 DEF TypeOK, LutClock
<1>3. CASE busy > 1
  <2>1. busy' = busy - 1 /\ writing' = writing /\ cam' = cam
    BY <1>3 DEF CamClock, TypeOK
  <2> QED BY <1>3, <2>1 DEF TypeOK, WritesOK, LutClock, Write
<1>4. CASE busy = 0 /\ wr = None
  <2>1. UNCHANGED <<busy, cam, writing>>
    BY <1>4 DEF CamClock
  <2> QED BY <1>4, <2>1 DEF TypeOK, WritesOK, LutClock, Write
<1> QED BY <1>1, <1>2, <1>3, <1>4 DEF TypeOK

(* Reset leaves the rows it has passed empty in both memories.                  *)
LEMMA ResetStep ==
    ASSUME Parameters, IInv, ResetClock
    PROVE  IInv'
<1>1. /\ TypeOK /\ WritesOK /\ state = "RESET" /\ CamClock /\ LutClock
      /\ UNCHANGED <<lookup, lut_rd_addr, lut_rd_data, rd, ack>>
      /\ ROWS \in Nat \ {0} /\ reset_count \in 0 .. ROWS
      /\ lookup = NoLookup /\ rd.stage = 0 /\ ack = None
  BY DEF IInv, ResetClock, Resetting, TypeOK, Parameters
<1>2. /\ cam' \in [Rows -> Keys \cup {NoKey}] /\ lut' \in [Rows -> Row]
      /\ busy' \in 0 .. WRITE_CYCLES /\ (busy' = 0 <=> writing' = None)
      /\ writing' = None \/ writing' \in Write
      /\ wr = None => lut' = lut
      /\ wr # None => lut' = [lut EXCEPT ![wr.row] = wr.val]
      /\ \/ busy = 0 /\ wr # None /\ writing' = wr /\ cam' = cam
         \/ /\ writing # None /\ writing' = None
            /\ cam' = [cam EXCEPT ![writing.row] = writing.val.key]
         \/ busy # 0 /\ writing' = writing /\ cam' = cam
         \/ busy = 0 /\ wr = None /\ writing' = writing /\ cam' = cam /\ busy' = 0
  BY <1>1, MemoryCycle
<1>3. \A r \in Rows : Reset(r) \in Write /\ Reset(r) # None
  BY DEF Reset, Write, Row, ResetRow, Parameters
<1>4. ResetRow \in Row /\ ResetRow.key = NoKey
  BY DEF ResetRow, Row
<1>5. /\ reset_count = 0 => wr = None /\ writing = None
      /\ reset_count # 0 => wr = Reset(reset_count - 1) /\ wr # None
                             /\ reset_count - 1 \in Rows
  BY <1>1, <1>3 DEF IInv, Resetting, Rows
<1>6. \A r \in Rows : r < reset_count - 1 =>
         lut[r] = ResetRow /\ (cam[r] = NoKey \/ writing = Reset(r))
  BY <1>1 DEF IInv, Resetting
<1>7. writing # None => writing.val = ResetRow
  BY <1>1 DEF IInv, Resetting
<1>8. \A r \in Rows : r < reset_count - 1 =>
         lut'[r] = ResetRow /\ (cam'[r] = NoKey \/ writing' = Reset(r))
  <2> TAKE r \in Rows
  <2> HAVE r < reset_count - 1
  <2>1. lut[r] = ResetRow /\ (cam[r] = NoKey \/ writing = Reset(r))
    BY <1>6
  <2>2. lut'[r] = ResetRow
    BY <1>1, <1>2, <1>5, <2>1 DEF Rows, Reset, TypeOK
  <2>3. CASE busy = 0
    <3>1. cam'[r] = NoKey
      BY <1>1, <1>2, <1>3, <2>1, <2>3 DEF TypeOK
    <3> QED BY <2>2, <3>1
  <2>4. CASE busy # 0
    <3>1. writing # None /\ writing \in Write
      BY <1>1, <2>4 DEF TypeOK, WritesOK
    <3>2. CASE writing' = None /\ cam' = [cam EXCEPT ![writing.row] = writing.val.key]
      <4>1. CASE writing.row = r
        BY <1>1, <1>4, <1>7, <2>2, <3>1, <3>2, <4>1 DEF TypeOK
      <4>2. CASE writing.row # r
        <5>1. cam[r] = NoKey
          BY <2>1, <4>2 DEF Reset
        <5> QED BY <1>1, <2>2, <3>2, <4>2, <5>1 DEF TypeOK
      <4> QED BY <4>1, <4>2
    <3>3. CASE writing' = writing /\ cam' = cam
      BY <2>1, <2>2, <3>3
    <3> QED BY <1>2, <2>4, <3>2, <3>3
  <2> QED BY <2>3, <2>4
<1>9. writing' # None => writing'.val = ResetRow
  BY <1>2, <1>5, <1>7 DEF Reset
<1>10. Reading' /\ LookupIsExact' /\ InFlight'
  <2>1. lookup'.stage = 0 /\ rd'.stage = 0 /\ ack' = None
    BY <1>1 DEF NoLookup
  <2> QED BY <2>1 DEF Reading, ReadReturnsRow, LookupIsExact, InFlight
<1>11. TypeOK' /\ WritesOK' /\ lookup' = NoLookup /\ rd'.stage = 0 /\ ack' = None
  <2>1. reset_count' \in 0 .. ROWS /\ state' \in {"RESET", "READY"}
    BY <1>1 DEF ResetClock
  <2>2. wr' = None \/ wr' \in Write
    <3>1. CASE busy # 0 \/ reset_count = ROWS
      BY <1>1, <3>1 DEF ResetClock, WritesOK
    <3>2. CASE busy = 0 /\ reset_count # ROWS
      <4>1. reset_count \in Rows /\ wr' = Reset(reset_count)
        BY <1>1, <3>2 DEF ResetClock, Rows, Reset
      <4> QED BY <1>3, <4>1
    <3> QED BY <3>1, <3>2
  <2> QED BY <1>1, <1>2, <2>1, <2>2 DEF TypeOK, WritesOK
<1>12. CASE busy # 0
  <2>1. UNCHANGED <<state, reset_count, wr>>
    BY <1>12 DEF ResetClock
  <2>2. Resetting'
    BY <1>1, <1>5, <1>8, <1>9, <1>11, <1>12, <2>1 DEF Resetting, Reset, TypeOK
  <2>3. Ready'
    BY <1>1, <2>1 DEF Ready
  <2> QED BY <1>10, <1>11, <2>2, <2>3 DEF IInv
<1>13. CASE busy = 0 /\ reset_count # ROWS
  <2>1. /\ reset_count' = reset_count + 1 /\ wr' = Reset(reset_count)
        /\ reset_count \in Rows /\ state' = "RESET"
    BY <1>1, <1>13 DEF ResetClock, Reset, Rows
  <2>2. \A r \in Rows : r < reset_count =>
           lut'[r] = ResetRow /\ (cam'[r] = NoKey \/ writing' = Reset(r))
    <3> TAKE r \in Rows
    <3> HAVE r < reset_count
    <3>1. CASE r < reset_count - 1
      BY <1>8, <3>1
    <3>2. CASE r = reset_count - 1
      <4>1. wr = Reset(r) /\ wr # None
        BY <1>1, <1>5, <3>2 DEF Rows
      <4>2. writing' = Reset(r) /\ lut' = [lut EXCEPT ![r] = ResetRow]
        BY <1>1, <1>2, <1>13, <4>1 DEF TypeOK, Reset
      <4> QED BY <1>1, <4>2 DEF TypeOK
    <3> QED BY <1>1, <3>1, <3>2 DEF Rows
  <2>3. reset_count' # 0 /\ reset_count' - 1 = reset_count
    BY <1>1, <2>1
  <2>4. Resetting'
    BY <1>9, <1>11, <2>1, <2>2, <2>3 DEF Resetting, Reset
  <2>5. Ready'
    BY <2>1 DEF Ready
  <2> QED BY <1>10, <1>11, <2>4, <2>5 DEF IInv
<1>14. CASE busy = 0 /\ reset_count = ROWS
  <2>1. state' = "READY" /\ wr' = None
    BY <1>1, <1>14 DEF ResetClock
  <2>2. wr = Reset(ROWS - 1) /\ wr # None /\ ROWS - 1 \in Rows
    BY <1>1, <1>5, <1>14
  <2>3. writing' = wr /\ cam' = cam /\ writing = None
        /\ lut' = [lut EXCEPT ![ROWS - 1] = ResetRow]
    BY <1>1, <1>2, <1>14, <2>2 DEF TypeOK, Reset
  <2>4. \A r \in Rows : InStep(r)'
    <3> TAKE r \in Rows
    <3>1. CASE r = ROWS - 1
      BY <1>1, <1>4, <2>2, <2>3, <3>1 DEF InStep, Reset, TypeOK
    <3>2. CASE r # ROWS - 1
      <4>1. r < reset_count - 1
        BY <1>1, <1>14, <3>2 DEF Rows
      <4>2. lut'[r] = ResetRow /\ cam'[r] = NoKey
        BY <1>3, <1>6, <1>8, <2>3, <4>1
      <4> QED BY <1>4, <4>2 DEF InStep
    <3> QED BY <3>1, <3>2
  <2>5. writing' # None => writing'.val = lut'[writing'.row]
    BY <1>1, <2>2, <2>3 DEF Reset, TypeOK
  <2>6. Ready' /\ Resetting'
    BY <2>1, <2>4, <2>5 DEF Ready, Resetting
  <2> QED BY <1>10, <1>11, <2>6 DEF IInv
<1> QED BY <1>12, <1>13, <1>14

(* A lookup that is requested: whatever the CAM reports for it, with the data the   *)
(* LUT is going to hold, is a right answer.                                    *)
LEMMA RightAnswer ==
    ASSUME Parameters, TypeOK, WritesOK, Ready, state = "READY", CamClock, LutClock,
           NEW lk \in Keys, NEW wq \in Requests \cup {None}, NEW m \in CamMatches(lk),
           wq # None => wr = None,
           wr' = (IF wq # None /\ CanWrite THEN wq ELSE None)
    PROVE  \E t \in [Rows -> Row] :
              Found(m, t) \in Expected(lk, Meets(wq)) /\ \A r \in Rows : Coming(r)' = t[r]
<1> DEFINE m0 == MatchRows(cam, lk)
<1>1. lut \in [Rows -> Row] /\ m0 \subseteq Rows /\ (busy = 0 <=> writing = None)
  BY DEF TypeOK, MatchRows
<1>2. CASE Meets(wq) = None
  <2>1. wr = None /\ writing = None /\ wr' = None /\ lut' = lut
    BY <1>2 DEF Meets, WritesOK, LutClock
  <2>2. m = m0
    BY <2>1 DEF CamMatches
  <2>3. Found(m, lut) \in Expected(lk, Meets(wq))
    BY <1>2, <2>2 DEF Expected
  <2> QED BY <1>1, <2>1, <2>3 DEF Coming
<1>3. CASE Meets(wq) # None
  <2> DEFINE w == Meets(wq)
             new == [lut EXCEPT ![w.row] = w.val]
  <2>1. w \in Write
    BY <1>3 DEF Meets, WritesOK, Requests, Write, Row
  <2>2. w.row \in Rows /\ new \in [Rows -> Row]
    BY <1>1, <2>1 DEF Write
  <2>3. \A r \in Rows : Coming(r)' = new[r]
    <3>1. CASE wr # None
      <4>1. w = wr /\ wr' = None /\ lut' = new
        BY <3>1 DEF Meets, LutClock
      <4> QED BY <4>1 DEF Coming
    <3>2. CASE wr = None /\ writing # None
      <4>1. w = writing /\ lut' = lut /\ writing.val = lut[writing.row]
        BY <3>2 DEF Meets, LutClock, Ready
      <4>2. wr' = None
        BY <1>1, <3>2 DEF CanWrite
      <4>3. new = lut
        BY <1>1, <2>2, <4>1
      <4> QED BY <4>1, <4>2, <4>3 DEF Coming
    <3>3. CASE wr = None /\ writing = None
      <4>1. w = wq /\ lut' = lut /\ wr' = wq /\ wq # None
        BY <1>3, <3>3 DEF Meets, LutClock
      <4> QED BY <1>1, <2>2, <4>1 DEF Coming
    <3> QED BY <3>1, <3>2, <3>3
  <2>4. CASE lk \in {cam[w.row], w.val.key}
    <3>1. m \in {m0 \ {w.row}, m0 \cup {w.row}}
      <4>1. CASE wr = None /\ writing # None
        <5>1. w = writing
          BY <4>1 DEF Meets
        <5> QED BY <2>4, <4>1, <5>1 DEF CamMatches
      <4>2. CASE wr # None \/ writing = None
        <5>1. writing = None
          BY <1>1, <4>2 DEF Ready
        <5>2. m = m0
          BY <5>1 DEF CamMatches
        <5> QED BY <5>2
      <4> QED BY <4>1, <4>2
    <3>2. Found(m, new) \in Expected(lk, w)
      BY <1>3, <2>4, <3>1, Zenon DEF Expected
    <3> QED BY <2>2, <2>3, <3>2, Zenon
  <2>5. CASE lk \notin {cam[w.row], w.val.key}
    <3>1. w.row \notin m0
      BY <2>5 DEF MatchRows
    <3>2. m = m0
      <4>1. CASE wr = None /\ writing # None
        <5>1. w = writing
          BY <4>1 DEF Meets
        <5> QED BY <2>5, <3>1, <4>1, <5>1 DEF CamMatches
      <4>2. CASE wr # None \/ writing = None
        <5>1. writing = None
          BY <1>1, <4>2 DEF Ready
        <5> QED BY <5>1 DEF CamMatches
      <4> QED BY <4>1, <4>2
    <3>3. Found(m, new) = Found(m0, lut)
      <4>1. CASE m0 = {}
        BY <3>2, <4>1 DEF Found
      <4>2. CASE m0 # {}
        <5>1. Min(m0) \in m0
          BY <1>1, <4>2, LowestRow
        <5>2. new[Min(m0)] = lut[Min(m0)]
          BY <1>1, <2>2, <3>1, <5>1
        <5> QED BY <3>2, <5>2, Zenon DEF Found
      <4> QED BY <4>1, <4>2
    <3>4. Found(m, new) \in Expected(lk, w)
      BY <2>5, <3>3 DEF Expected
    <3> QED BY <2>2, <2>3, <3>4, Zenon
  <2> QED BY <2>4, <2>5
<1> QED BY <1>2, <1>3

(* A cycle in operation.  A write is taken only when the CAM is free and the      *)
(* lookup in flight has read its row.                                          *)
LEMMA ReadyStep ==
    ASSUME Parameters, IInv,
           NEW lk \in Keys \cup {None}, NEW rq \in Rows \cup {None},
           NEW wq \in Requests \cup {None},
           wq # None => wr = None, ReadyClock(lk, rq, wq)
    PROVE  IInv'
<1>1. /\ TypeOK /\ WritesOK /\ state = "READY" /\ CamClock /\ LutClock
      /\ LookupClock(lk, wq) /\ ReadClock(rq) /\ UNCHANGED <<state, reset_count>>
      /\ wr' = (IF wq # None /\ CanWrite THEN wq ELSE None)
      /\ ROWS \in Nat \ {0} /\ lookup.rows \in SUBSET Rows
  BY DEF IInv, ReadyClock, TypeOK, Parameters
<1>2. /\ cam' \in [Rows -> Keys \cup {NoKey}] /\ lut' \in [Rows -> Row]
      /\ busy' \in 0 .. WRITE_CYCLES /\ (busy' = 0 <=> writing' = None)
      /\ writing' = None \/ writing' \in Write
      /\ wr = None => lut' = lut
      /\ wr # None => lut' = [lut EXCEPT ![wr.row] = wr.val]
      /\ \/ busy = 0 /\ wr # None /\ writing' = wr /\ cam' = cam
         \/ /\ writing # None /\ writing' = None
            /\ cam' = [cam EXCEPT ![writing.row] = writing.val.key]
         \/ busy # 0 /\ writing' = writing /\ cam' = cam
         \/ busy = 0 /\ wr = None /\ writing' = writing /\ cam' = cam /\ busy' = 0
  BY <1>1, MemoryCycle
<1>3. lookup.rows # {} => Min(lookup.rows) \in Rows
  BY <1>1, LowestRow
<1>4. lut_rd_addr' \in Rows /\ lut_rd_data' \in Row /\ rd'.stage \in 0 .. 2
      /\ {"stage", "row", "expected"} \subseteq DOMAIN rd'
  <2>1. lut_rd_addr' \in Rows
    BY <1>1, <1>3 DEF ReadClock, MatchFound, Rows
  <2>2. lut_rd_data' \in Row
    BY <1>1 DEF ReadClock, TypeOK
  <2>3. rd'.stage \in 0 .. 2 /\ {"stage", "row", "expected"} \subseteq DOMAIN rd'
    BY <1>1 DEF ReadClock, WritesOK
  <2> QED BY <2>1, <2>2, <2>3
<1>5. /\ lookup'.stage \in 0 .. 3 /\ lookup'.rows \subseteq Rows
      /\ {"stage", "rows", "expected"} \subseteq DOMAIN lookup'
  <2>1. CASE /\ lk # None /\ lookup.stage = 0
             /\ \E m \in CamMatches(lk) :
                   lookup' = [stage |-> 1, rows |-> m,
                              expected |-> Expected(lk, Meets(wq))]
    <3>1. \A m \in CamMatches(lk) : m \subseteq Rows
      BY <1>1 DEF CamMatches, MatchRows, WritesOK, Write
    <3> QED BY <2>1, <3>1
  <2>2. CASE lookup' = IF lookup.stage \in {0, 3} THEN NoLookup
                       ELSE [lookup EXCEPT !.stage = @ + 1]
    BY <1>1, <2>2 DEF TypeOK, WritesOK, NoLookup
  <2> QED BY <1>1, <2>1, <2>2 DEF LookupClock
<1>6. TypeOK' /\ WritesOK'
  <2>1. wr' = None \/ wr' \in Write
    BY <1>1 DEF Requests, Write, Row
  <2> QED BY <1>1, <1>2, <1>4, <1>5, <2>1 DEF TypeOK, WritesOK
<1>7. Resetting'
  BY <1>1 DEF Resetting
<1>8. Ready'
  <2>1. wr' # None => wr = None /\ busy = 0
    BY <1>1 DEF CanWrite
  <2>2. wr' # None => busy' = 0
    BY <1>1, <1>2, <2>1 DEF TypeOK
  <2>3. ASSUME NEW r \in Rows
        PROVE  InStep(r)'
    <3>1. InStep(r) /\ (wr # None => busy = 0)
      BY <1>1 DEF IInv, Ready
    <3>2. CASE wr # None
      <4>1. /\ writing' = wr /\ writing' # None /\ cam' = cam /\ writing = None
            /\ lut' = [lut EXCEPT ![wr.row] = wr.val] /\ wr \in Write
        BY <1>1, <1>2, <3>1, <3>2 DEF TypeOK, WritesOK
      <4>2. CASE wr.row = r
        BY <4>1, <4>2 DEF InStep
      <4>3. CASE wr.row # r
        BY <1>1, <3>1, <4>1, <4>3 DEF InStep, TypeOK
      <4> QED BY <4>2, <4>3
    <3>3. CASE wr = None
      <4>1. lut' = lut
        BY <1>2, <3>3
      <4>2. CASE writing = None
        <5>1. cam' = cam
          BY <1>1, <1>2, <3>3, <4>2 DEF TypeOK
        <5> QED BY <3>1, <3>3, <4>1, <4>2, <5>1 DEF InStep
      <4>3. CASE writing # None
        <5>1. busy # 0
          BY <1>1, <4>3 DEF TypeOK
        <5>2. CASE writing' = None /\ cam' = [cam EXCEPT ![writing.row] = writing.val.key]
          <6>1. CASE writing.row = r
            <7>1. cam'[r] = writing.val.key
              BY <1>1, <5>2, <6>1 DEF TypeOK
            <7>2. writing.val.key = lut[r].key
              BY <1>1, <4>3, <6>1 DEF IInv, Ready
            <7> QED BY <4>1, <7>1, <7>2 DEF InStep
          <6>2. CASE writing.row # r
            BY <1>1, <3>1, <3>3, <4>1, <5>2, <6>2 DEF InStep, TypeOK
          <6> QED BY <6>1, <6>2
        <5>3. CASE writing' = writing /\ cam' = cam
          BY <3>1, <3>3, <4>1, <5>3 DEF InStep
        <5> QED BY <1>2, <3>3, <5>1, <5>2, <5>3
      <4> QED BY <4>2, <4>3
    <3> QED BY <3>2, <3>3
  <2>4. writing' # None => writing'.val = lut'[writing'.row]
    <3>1. CASE wr # None
      <4>1. writing' = wr /\ wr \in Write /\ lut' = [lut EXCEPT ![wr.row] = wr.val]
        BY <1>1, <1>2, <3>1 DEF IInv, Ready, TypeOK, WritesOK
      <4> QED BY <1>1, <4>1 DEF TypeOK, Write
    <3>2. CASE wr = None
      <4>1. lut' = lut /\ (writing' = None \/ writing' = writing)
        BY <1>2, <3>2
      <4> QED BY <1>1, <4>1 DEF IInv, Ready
    <3> QED BY <3>1, <3>2
  <2> QED BY <2>2, <2>3, <2>4 DEF Ready
<1>9. Reading'
  <2>1. rd'.stage = 1 => rd'.row = lut_rd_addr'
    BY <1>1 DEF ReadClock, WritesOK
  <2>2. rd'.stage = 2 => lut_rd_data' = rd'.expected
    BY <1>1 DEF IInv, Reading, ReadClock, WritesOK
  <2> QED BY <2>1, <2>2 DEF Reading, ReadReturnsRow
<1>10. LookupIsExact'
  <2>1. CASE lookup.stage # 3
    <3>1. ack' = None
      BY <1>1, <2>1 DEF LookupClock
    <3> QED BY <3>1 DEF LookupIsExact
  <2>2. CASE lookup.stage = 3
    <3>1. ack' = [hit |-> lookup.rows # {}, data |-> lut[lut_rd_addr].data,
                  expected |-> lookup.expected]
      BY <1>1, <2>2 DEF LookupClock
    <3>2. ack'.hit = (lookup.rows # {}) /\ ack'.expected = lookup.expected
          /\ ack'.data = lut[lut_rd_addr].data
      BY <3>1
    <3>3. CASE lookup.rows = {}
      <4>1. PICK a \in lookup.expected : a.hit = FALSE
        BY <2>2, <3>3 DEF IInv, InFlight
      <4> QED BY <3>2, <3>3, <4>1, Zenon DEF LookupIsExact
    <3>4. CASE lookup.rows # {}
      <4>1. wr = None /\ lut_rd_addr = Min(lookup.rows)
        BY <2>2, <3>4 DEF IInv, InFlight
      <4>2. PICK a \in lookup.expected :
               a.hit = TRUE /\ a.data = Coming(Min(lookup.rows)).data
        BY <2>2, <3>4 DEF IInv, InFlight
      <4>3. a.data = lut[lut_rd_addr].data
        BY <4>1, <4>2 DEF Coming
      <4> QED BY <3>2, <3>4, <4>2, <4>3, Zenon DEF LookupIsExact
    <3> QED BY <3>3, <3>4
  <2> QED BY <2>1, <2>2
<1>11. InFlight'
  <2>1. CASE /\ lk # None /\ lookup.stage = 0
             /\ \E m \in CamMatches(lk) :
                   lookup' = [stage |-> 1, rows |-> m,
                              expected |-> Expected(lk, Meets(wq))]
    <3>1. PICK m \in CamMatches(lk) :
             lookup' = [stage |-> 1, rows |-> m, expected |-> Expected(lk, Meets(wq))]
      BY <2>1
    <3>2. lookup'.stage = 1 /\ lookup'.rows = m
          /\ lookup'.expected = Expected(lk, Meets(wq))
      BY <3>1
    <3>3. PICK t \in [Rows -> Row] :
             Found(m, t) \in Expected(lk, Meets(wq)) /\ \A r \in Rows : Coming(r)' = t[r]
      <4>1. lk \in Keys /\ Ready
        BY <2>1 DEF IInv
      <4> QED BY <1>1, <4>1, RightAnswer
    <3>4. m \in SUBSET Rows
      BY <1>5, <3>2
    <3>5. CASE m = {}
      <4>1. Found(m, t).hit = FALSE
        BY <3>5 DEF Found
      <4> QED BY <3>2, <3>3, <3>5, <4>1 DEF InFlight
    <3>6. CASE m # {}
      <4>1. Min(m) \in Rows
        BY <3>4, <3>6, LowestRow
      <4>2. Found(m, t).hit = TRUE /\ Found(m, t).data = t[Min(m)].data
        BY <3>6 DEF Found
      <4>3. Coming(Min(lookup.rows))' = t[Min(m)]
        <5>1. Min(lookup.rows)' = Min(m)
          BY <3>2
        <5> QED BY <3>3, <4>1, <5>1 DEF Coming
      <4>4. Found(m, t).data = Coming(Min(lookup.rows))'.data
        BY <4>2, <4>3
      <4> QED BY <3>2, <3>3, <3>6, <4>2, <4>4 DEF InFlight
    <3> QED BY <3>5, <3>6
  <2>2. CASE lookup' = IF lookup.stage \in {0, 3} THEN NoLookup
                       ELSE [lookup EXCEPT !.stage = @ + 1]
    <3>1. CASE lookup.stage \in {0, 3}
      BY <2>2, <3>1 DEF InFlight, NoLookup
    <3>2. CASE lookup.stage \in {1, 2}
      <4>1. /\ lookup'.stage = lookup.stage + 1 /\ lookup'.rows = lookup.rows
            /\ lookup'.expected = lookup.expected
        BY <1>1, <2>2, <3>2 DEF WritesOK
      <4>2. CASE lookup.rows = {}
        BY <3>2, <4>1, <4>2 DEF IInv, InFlight
      <4>3. CASE lookup.rows # {}
        <5>1. PICK a \in lookup.expected :
                 a.hit = TRUE /\ a.data = Coming(Min(lookup.rows)).data
          BY <3>2, <4>3 DEF IInv, InFlight
        <5>2. ~CanWrite
          BY <3>2, <4>3 DEF CanWrite, MatchFound
        <5>3. wr' = None
          BY <1>1, <5>2
        <5>4. Coming(Min(lookup.rows))' = Coming(Min(lookup.rows))
          <6>1. lut'[Min(lookup.rows)] = Coming(Min(lookup.rows))
            BY <1>1, <1>2, <1>3, <4>3 DEF Coming, TypeOK
          <6> QED BY <4>1, <5>3, <6>1 DEF Coming
        <5>5. lookup'.stage = 3 => lut_rd_addr' = Min(lookup.rows)
          BY <1>1, <3>2, <4>1, <4>3 DEF ReadClock, MatchFound
        <5> QED BY <4>1, <4>3, <5>1, <5>3, <5>4, <5>5 DEF InFlight
      <4> QED BY <4>2, <4>3
    <3> QED BY <1>1, <3>1, <3>2 DEF TypeOK
  <2> QED BY <1>1, <2>1, <2>2 DEF LookupClock
<1> QED BY <1>6, <1>7, <1>8, <1>9, <1>10, <1>11 DEF IInv

(* The three promises of unencoded_cam_lut_sm.v, for every number of rows, keys    *)
(* and write cycles: the CAM and the LUT hold the same table whenever no write    *)
(* is under way, every lookup answers as the table does when it is requested, but  *)
(* for the old and the new key of a row that is being rewritten then, and a        *)
(* register read returns the row that was asked for.                            *)
THEOREM TableIsSound ==
    ASSUME Parameters
    PROVE  Spec => []TableIsCoherent
<1>1. Init => IInv
  <2> SUFFICES ASSUME Init
               PROVE  IInv
    OBVIOUS
  <2>1. TypeOK /\ WritesOK
    BY DEF Init, Parameters, TypeOK, WritesOK, NoLookup, Row, ResetRow, Rows
  <2>2. Resetting /\ Ready /\ InFlight /\ Reading /\ LookupIsExact
    BY DEF Init, Resetting, Ready, InFlight, Reading, LookupIsExact, ReadReturnsRow,
           NoLookup, Rows
  <2> QED BY <2>1, <2>2 DEF IInv
<1>2. IInv /\ [Next]_vars => IInv'
  <2> SUFFICES ASSUME IInv, [Next]_vars
               PROVE  IInv'
    OBVIOUS
  <2>1. CASE ResetClock
    BY <2>1, ResetStep
  <2>2. ASSUME NEW lk \in Keys \cup {None}, ReadyClock(lk, None, None)
        PROVE  IInv'
    BY <2>2, ReadyStep
  <2>3. ASSUME NEW lk \in Keys \cup {None}, NEW rq \in Rows, ReadyClock(lk, rq, None)
        PROVE  IInv'
    BY <2>3, ReadyStep
  <2>4. ASSUME NEW lk \in Keys \cup {None}, NEW wq \in Requests,
               wr = None, ReadyClock(lk, None, wq)
        PROVE  IInv'
    BY <2>4, ReadyStep
  <2>5. CASE UNCHANGED vars
    BY <2>5 DEF vars, IInv, TypeOK, WritesOK, Resetting, Ready, InStep, InFlight,
                Coming, Reading, ReadReturnsRow, LookupIsExact
  <2> QED BY <2>1, <2>2, <2>3, <2>4, <2>5 DEF Next
<1>3. IInv => TableIsCoherent
  BY DEF IInv, Ready, InStep, Reading, MemoriesAgree, TableIsCoherent
<1> QED BY <1>1, <1>2, <1>3, PTL DEF Spec

-----------------------------------------------------------------------------
(* The input arbiter.                                                         *)
CONSTANTS NUM_QUEUES, MAX_DEPTH, MAX_WORDS
VARIABLES in_fifo, arb_state, cur_queue, sent, received, passed

IA == INSTANCE InputArbiter WITH state <- arb_state

ArbiterParameters == NUM_QUEUES \in Nat \ {0} /\ MAX_DEPTH \in Nat /\ MAX_WORDS \in Nat \ {0}

-----------------------------------------------------------------------------
(* The words of a FIFO follow one another: n is the position in its packet of  *)
(* the word to be read next.                                                 *)
After(w) == IF w.last THEN 1 ELSE w.pos + 1

AfterDout(n, f) == IF f.dout_valid THEN After(f.dout) ELSE n
AfterMiddle(n, f) == IF f.middle_valid THEN After(f.middle) ELSE AfterDout(n, f)
AfterOutput(n, f) == IF f.fifo_valid THEN After(f.fifo_dout) ELSE AfterMiddle(n, f)

\* The position of the word to be written next.
Ahead(n, f) ==
    IF f.fifo = <<>> THEN AfterOutput(n, f) ELSE After(f.fifo[Len(f.fifo)])

Chained(n, f) ==
    /\ f.dout_valid => f.dout.pos = n
    /\ f.middle_valid => f.middle.pos = AfterDout(n, f)
    /\ f.fifo_valid => f.fifo_dout.pos = AfterMiddle(n, f)
    /\ f.fifo # <<>> => f.fifo[1].pos = AfterOutput(n, f)
    /\ \A k \in 1 .. Len(f.fifo) - 1 : f.fifo[k + 1].pos = After(f.fifo[k])

\* The position of the word the receiver may expect from input i.
Due(i) == IF i = received.queue /\ ~received.last THEN received.pos + 1 ELSE 1

Types ==
    /\ in_fifo \in [IA!Inputs -> IA!Fifo(IA!Word)]
    /\ sent \in [IA!Inputs -> 0 .. MAX_WORDS - 1]
    /\ arb_state \in {"IDLE", "WR_PKT"} /\ cur_queue \in IA!Inputs
    /\ received \in [queue : IA!Inputs, pos : 0 .. MAX_WORDS, last : BOOLEAN]
    /\ passed \in [IA!Inputs -> Nat]
    /\ \A i \in IA!Inputs : IA!Depth(in_fifo[i]) <= MAX_DEPTH

(* A packet is under way exactly in WR_PKT, and it is one of the current input. *)
(* The end of a packet is taken from tlast without a look at tvalid: what the   *)
(* output of an empty FIFO still shows is then not the end of one.            *)
Whole ==
    /\ \A i \in IA!Inputs : /\ Chained(Due(i), in_fifo[i])
                            /\ Ahead(Due(i), in_fifo[i]) = sent[i] + 1
    /\ arb_state = "IDLE" => received.last
    /\ arb_state = "WR_PKT" => /\ received.queue = cur_queue /\ ~received.last
                               /\ IA!Empty(in_fifo[cur_queue]) => ~IA!Out.last

(* How many inputs are looked at before input i, counted from input c.         *)
Distance(c, i) == IF c <= i THEN i - c ELSE i - c + NUM_QUEUES

(* An input that is d further on has been passed by at most the inputs that     *)
(* are not among the d.                                                      *)
Turn ==
    \A i \in IA!Inputs :
        /\ IA!Empty(in_fifo[i]) => passed[i] = 0
        /\ passed[i] + Distance(cur_queue, i) <=
              IF arb_state = "IDLE" \/ i = cur_queue THEN NUM_QUEUES - 1 ELSE NUM_QUEUES

ArbiterInv == Types /\ Whole /\ Turn

-----------------------------------------------------------------------------
(* A cycle of a FIFO.                                                        *)
LEMMA FifoClockType ==
    ASSUME NEW S, NEW f \in IA!Fifo(S), NEW wen \in BOOLEAN, NEW din \in S, NEW ren \in BOOLEAN
    PROVE  /\ IA!FifoClock(f, wen, din, ren) \in IA!Fifo(S)
           /\ IA!Depth(f) \in Nat
           /\ IA!Depth(IA!FifoClock(f, wen, din, ren)) <= IA!Depth(f) + 1
           /\ ~wen => IA!Depth(IA!FifoClock(f, wen, din, ren)) <= IA!Depth(f)
<1> DEFINE kept  == IF IA!FifoRdEn(f) THEN Tail(f.fifo) ELSE f.fifo
           added == IF wen THEN <<din>> ELSE << >>
           g     == IA!FifoClock(f, wen, din, ren)
<1>1. /\ f.fifo \in Seq(S) /\ f.fifo_dout \in S /\ f.middle \in S /\ f.dout \in S
      /\ f.fifo_valid \in BOOLEAN /\ f.middle_valid \in BOOLEAN /\ f.dout_valid \in BOOLEAN
  BY DEF IA!Fifo
<1>2. IA!FifoRdEn(f) => f.fifo # << >> /\ Head(f.fifo) \in S
  BY <1>1 DEF IA!FifoRdEn
<1>3. kept \in Seq(S) /\ Len(kept) \in Nat /\ Len(kept) <= Len(f.fifo) /\ Len(f.fifo) \in Nat
  BY <1>1, <1>2
<1>4. added \in Seq(S) /\ Len(added) \in Nat /\ Len(added) <= 1 /\ (~wen => Len(added) = 0)
  OBVIOUS
<1>5. g.fifo = kept \o added
  BY Zenon DEF IA!FifoClock
<1> HIDE DEF kept, added
<1>6. kept \o added \in Seq(S) /\ Len(kept \o added) = Len(kept) + Len(added)
  BY <1>3, <1>4
<1>7. g \in IA!Fifo(S)
  <2>1. /\ (IF IA!FifoRdEn(f) THEN Head(f.fifo) ELSE f.fifo_dout) \in S
        /\ (IF IA!WillUpdateMiddle(f, ren) THEN f.fifo_dout ELSE f.middle) \in S
        /\ (IF ~IA!WillUpdateDout(f, ren) THEN f.dout
            ELSE IF f.middle_valid THEN f.middle ELSE f.fifo_dout) \in S
    BY <1>1, <1>2
  <2>2. /\ (IA!FifoRdEn(f) \/ (f.fifo_valid /\ ~IA!WillUpdateMiddle(f, ren)
                                          /\ ~IA!WillUpdateDout(f, ren))) \in BOOLEAN
        /\ (IA!WillUpdateMiddle(f, ren) \/ (f.middle_valid /\ ~IA!WillUpdateDout(f, ren))) \in BOOLEAN
        /\ (IA!WillUpdateDout(f, ren) \/ (f.dout_valid /\ ~ren)) \in BOOLEAN
    BY Zenon
  <2> QED BY <1>6, <2>1, <2>2, Zenon DEF IA!FifoClock, IA!Fifo, kept, added
<1> QED BY <1>3, <1>4, <1>5, <1>6, <1>7 DEF IA!Depth, g

(* The words stay chained if the word written is the one to come.             *)
LEMMA FifoClockChain ==
    ASSUME NEW f \in IA!Fifo(IA!Word), NEW wen \in BOOLEAN, NEW din \in IA!Word, NEW ren \in BOOLEAN,
           NEW n, Chained(n, f), wen => din.pos = Ahead(n, f),
           NEW m, m = IF ren /\ f.dout_valid THEN After(f.dout) ELSE n
    PROVE  LET g == IA!FifoClock(f, wen, din, ren)
           IN  Chained(m, g) /\ Ahead(m, g) = IF wen THEN After(din) ELSE Ahead(n, f)
<1> DEFINE g == IA!FifoClock(f, wen, din, ren)
           fetch == f.fifo # <<>> /\ ~(f.middle_valid /\ f.dout_valid /\ f.fifo_valid)
           s == f.fifo
           t == IF fetch THEN Tail(s) ELSE s
           u == g.fifo
<1>1. /\ s \in Seq(IA!Word) /\ Len(s) \in Nat /\ (s = <<>> <=> Len(s) = 0)
      /\ f.fifo_valid \in BOOLEAN /\ f.middle_valid \in BOOLEAN /\ f.dout_valid \in BOOLEAN
  BY DEF IA!Fifo
<1>2. u = t \o (IF wen THEN <<din>> ELSE <<>>)
  BY Zenon DEF IA!FifoClock, IA!FifoRdEn
<1>3. fetch => /\ Tail(s) \in Seq(IA!Word) /\ Len(Tail(s)) = Len(s) - 1 /\ Head(s) = s[1]
               /\ \A k \in 1 .. Len(s) - 1 : Tail(s)[k] = s[k + 1]
  BY <1>1
<1> HIDE DEF fetch, s, u
<1>4. /\ t \in Seq(IA!Word) /\ Len(t) \in Nat
      /\ Len(t) = IF fetch THEN Len(s) - 1 ELSE Len(s)
      /\ \A k \in 1 .. Len(t) : t[k] = IF fetch THEN s[k + 1] ELSE s[k]
  BY <1>1, <1>3
<1> HIDE DEF t
<1>5. /\ Len(u) = IF wen THEN Len(t) + 1 ELSE Len(t)
      /\ \A k \in 1 .. Len(t) : u[k] = t[k]
      /\ wen => u[Len(t) + 1] = din
      /\ u = <<>> <=> Len(u) = 0
  <2>1. CASE wen
    <3>1. u = Append(t, din)
      BY <1>2, <1>4, <2>1
    <3> QED BY <1>4, <2>1, <3>1
  <2>2. CASE ~wen
    <3>1. u = t
      BY <1>2, <1>4, <2>2
    <3> QED BY <1>4, <2>2, <3>1
  <2> QED BY <2>1, <2>2
<1>6. LET up == (f.middle_valid \/ f.fifo_valid) /\ (ren \/ ~f.dout_valid)
          mid == f.fifo_valid /\ (f.middle_valid <=> up)
      IN  /\ g.fifo_dout = IF fetch THEN s[1] ELSE f.fifo_dout
          /\ g.middle = IF mid THEN f.fifo_dout ELSE f.middle
          /\ g.dout = IF ~up THEN f.dout ELSE IF f.middle_valid THEN f.middle ELSE f.fifo_dout
          /\ g.fifo_valid <=> fetch \/ (f.fifo_valid /\ ~mid /\ ~up)
          /\ g.middle_valid <=> mid \/ (f.middle_valid /\ ~up)
          /\ g.dout_valid <=> up \/ (f.dout_valid /\ ~ren)
  <2>1. fetch => Head(f.fifo) = s[1]
    BY <1>3 DEF s
  <2> QED BY <1>1, <2>1, Zenon
          DEF IA!FifoClock, IA!WillUpdateDout, IA!WillUpdateMiddle, IA!FifoRdEn, fetch
<1>7. /\ fetch => s # <<>> /\ ~(f.middle_valid /\ f.dout_valid /\ f.fifo_valid)
      /\ f.dout_valid => f.dout.pos = n
      /\ f.middle_valid => f.middle.pos = AfterDout(n, f)
      /\ f.fifo_valid => f.fifo_dout.pos = AfterMiddle(n, f)
      /\ s # <<>> => s[1].pos = AfterOutput(n, f)
      /\ \A k \in 1 .. Len(s) - 1 : s[k + 1].pos = After(s[k])
      /\ Ahead(n, f) = IF s = <<>> THEN AfterOutput(n, f) ELSE After(s[Len(s)])
  BY Zenon DEF Chained, Ahead, fetch, s
<1> HIDE DEF g
<1>8. AfterOutput(m, g) = IF fetch THEN After(s[1]) ELSE AfterOutput(n, f)
  BY <1>1, <1>6, <1>7, Zenon DEF AfterOutput, AfterMiddle, AfterDout
<1>9. /\ g.dout_valid => g.dout.pos = m
      /\ g.middle_valid => g.middle.pos = AfterDout(m, g)
      /\ g.fifo_valid => g.fifo_dout.pos = AfterMiddle(m, g)
  BY <1>1, <1>6, <1>7 DEF AfterOutput, AfterMiddle, AfterDout
<1>10. u # <<>> => u[1].pos = AfterOutput(m, g)
  <2>1. CASE Len(t) > 0
    BY <1>1, <1>4, <1>5, <1>7, <1>8, <2>1
  <2>2. CASE Len(t) = 0
    BY <1>1, <1>4, <1>5, <1>7, <1>8, <2>2
  <2>3. Len(t) > 0 \/ Len(t) = 0
    <3>1. Len(t) \in Nat
      BY <1>4
    <3> QED BY <3>1
  <2> QED BY <2>1, <2>2, <2>3
<1>11. \A k \in 1 .. Len(u) - 1 : u[k + 1].pos = After(u[k])
  <2>1. TAKE k \in 1 .. Len(u) - 1
  <2>2. CASE k < Len(t)
    <3>1. k \in 1 .. Len(t) /\ k + 1 \in 1 .. Len(t) /\ k \in Nat
      BY <1>4, <2>2
    <3>2. u[k] = t[k] /\ u[k + 1] = t[k + 1]
      BY <1>5, <3>1
    <3>3. t[k + 1].pos = After(t[k])
      <4>1. CASE fetch
        <5>1. t[k] = s[k + 1] /\ t[k + 1] = s[k + 1 + 1] /\ k + 1 \in 1 .. Len(s) - 1
          BY <1>1, <1>4, <3>1, <4>1
        <5> QED BY <1>7, <5>1, Zenon
      <4>2. CASE ~fetch
        <5>1. t[k] = s[k] /\ t[k + 1] = s[k + 1] /\ k \in 1 .. Len(s) - 1
          BY <1>1, <1>4, <3>1, <4>2
        <5> QED BY <1>7, <5>1, Zenon
      <4> QED BY <4>1, <4>2
    <3> QED BY <3>2, <3>3
  <2>3. CASE k = Len(t)
    BY <1>1, <1>4, <1>5, <1>7, <2>3
  <2> QED BY <1>4, <1>5, <2>2, <2>3
<1>12. (IF u = <<>> THEN AfterOutput(m, g) ELSE After(u[Len(u)])) =
          IF wen THEN After(din) ELSE Ahead(n, f)
  BY <1>1, <1>4, <1>5, <1>7, <1>8
<1> QED BY <1>9, <1>10, <1>11, <1>12 DEF Chained, Ahead, g, u

-----------------------------------------------------------------------------
(* next_queue does not go past an input that has a packet.                    *)
LEMMA LeastNumber ==
    ASSUME NEW K \in SUBSET Nat, K # {}
    PROVE  \E k \in K : \A j \in K : k <= j
<1>1. PICK k \in K : \A j \in K : ~(<<j, k>> \in OpToRel(<, Nat))
  BY NatLessThanWellFounded, WFMin, Zenon
<1>2. \A j \in K : ~(j < k)
  BY <1>1, Zenon DEF OpToRel
<1> QED BY <1>2

LEMMA NextQueue ==
    ASSUME ArbiterParameters, cur_queue \in IA!Inputs
    PROVE  /\ IA!next_queue \in IA!Inputs
           /\ \A i \in IA!Inputs : i # cur_queue /\ ~IA!Empty(in_fifo[i]) =>
                 Distance(IA!next_queue, i) < Distance(cur_queue, i)
<1> DEFINE N == NUM_QUEUES
           At(k) == (cur_queue + k) % N
           ready == {k \in 1 .. N : ~IA!Empty(in_fifo[At(k)])}
           k0 == CHOOSE k \in ready : \A j \in ready : k <= j
<1>1. N \in Nat /\ N > 0 /\ cur_queue \in Int /\ 0 <= cur_queue /\ cur_queue < N
  BY DEF ArbiterParameters, IA!Inputs
<1>2. \A k \in 1 .. N : At(k) = IF cur_queue + k < N THEN cur_queue + k ELSE cur_queue + k - N
  <2> SUFFICES ASSUME NEW k \in 1 .. N
               PROVE  At(k) = IF cur_queue + k < N THEN cur_queue + k ELSE cur_queue + k - N
    OBVIOUS
  <2> HIDE DEF N
  <2>1. CASE cur_queue + k < N
    BY <1>1, <2>1
  <2>2. CASE ~(cur_queue + k < N)
    <3> DEFINE r == cur_queue + k - N
    <3>1. r \in Int /\ 0 <= r /\ r < N /\ cur_queue + k = 1 * N + r
      BY <1>1, <2>2
    <3> QED BY <1>1, <2>2, <3>1
  <2> QED BY <2>1, <2>2
<1>3. IA!next_queue = IF ready = {} THEN At(1) ELSE At(k0)
  BY DEF IA!next_queue
<1> HIDE DEF N, At
<1>4. \A i \in IA!Inputs : i # cur_queue =>
        LET d == Distance(cur_queue, i) IN d \in 1 .. N - 1 /\ At(d) = i
  BY <1>1, <1>2 DEF IA!Inputs, Distance, N
<1>5. CASE ready = {}
  <2>1. IA!next_queue = At(1) /\ At(1) \in IA!Inputs
    BY <1>1, <1>2, <1>3, <1>5 DEF IA!Inputs, N
  <2>2. \A i \in IA!Inputs : i # cur_queue => IA!Empty(in_fifo[i])
    BY <1>1, <1>4, <1>5
  <2> QED BY <2>1, <2>2
<1>6. CASE ready # {}
  <2>1. k0 \in ready /\ \A j \in ready : k0 <= j
    <3>1. ready \in SUBSET Nat
      BY <1>1
    <3> HIDE DEF ready
    <3> QED BY <1>6, <3>1, LeastNumber, Zenon
  <2> HIDE DEF k0
  <2>2. IA!next_queue = At(k0) /\ At(k0) \in IA!Inputs /\ k0 \in 1 .. N
    BY <1>1, <1>2, <1>3, <1>6, <2>1 DEF IA!Inputs, N
  <2>3. ASSUME NEW i \in IA!Inputs, i # cur_queue, ~IA!Empty(in_fifo[i])
        PROVE  Distance(At(k0), i) < Distance(cur_queue, i)
    <3> DEFINE d == Distance(cur_queue, i)
    <3>1. d \in 1 .. N - 1 /\ At(d) = i
      BY <1>4, <2>3
    <3>2. k0 <= d
      <4>1. d \in ready
        BY <1>1, <2>3, <3>1
      <4> QED BY <2>1, <4>1
    <3> QED BY <1>1, <1>2, <2>2, <2>3, <3>1, <3>2 DEF Distance, IA!Inputs, N
  <2> QED BY <2>2, <2>3
<1> QED BY <1>5, <1>6

-----------------------------------------------------------------------------
(* An output register that becomes empty keeps its word.                      *)
LEMMA FifoClockOutput ==
    ASSUME NEW f \in IA!Fifo(IA!Word), NEW wen \in BOOLEAN, NEW din \in IA!Word, NEW ren \in BOOLEAN,
           IA!Empty(IA!FifoClock(f, wen, din, ren))
    PROVE  IA!FifoClock(f, wen, din, ren).dout = f.dout /\ (~ren => IA!Empty(f))
<1>1. f.fifo_valid \in BOOLEAN /\ f.middle_valid \in BOOLEAN /\ f.dout_valid \in BOOLEAN
  BY DEF IA!Fifo
<1>2. ~IA!WillUpdateDout(f, ren) /\ ~(f.dout_valid /\ ~ren)
  BY Zenon DEF IA!Empty, IA!FifoClock
<1>3. IA!FifoClock(f, wen, din, ren).dout = f.dout
  BY <1>2, Zenon DEF IA!FifoClock
<1> QED BY <1>1, <1>2, <1>3 DEF IA!Empty

(* What the state machine does in a cycle: a word is read exactly when it is   *)
(* taken by the receiver.                                                    *)
Taken(tready) == IA!tvalid /\ tready

LEMMA ArbitrateStep ==
    ASSUME Types, Whole, NEW tready \in BOOLEAN
    PROVE  LET step == IA!Arbitrate(tready)
           IN  /\ step.rd <=> Taken(tready)
               /\ step.rd \in BOOLEAN
               /\ step.state = IF ~Taken(tready) THEN arb_state
                               ELSE IF IA!Out.last THEN "IDLE" ELSE "WR_PKT"
               /\ step.queue = IF (Taken(tready) /\ IA!Out.last) \/ (arb_state = "IDLE" /\ ~IA!tvalid)
                               THEN IA!next_queue ELSE cur_queue
<1>1. in_fifo[cur_queue] \in IA!Fifo(IA!Word) /\ cur_queue \in IA!Inputs
  BY DEF Types
<1>2. IA!Out.last \in BOOLEAN /\ IA!tvalid \in BOOLEAN
  BY <1>1 DEF IA!Out, IA!tvalid, IA!Empty, IA!Fifo, IA!Word
<1>3. arb_state = "WR_PKT" => (IA!Out.last => IA!tvalid)
  BY DEF Whole, IA!tvalid
<1>4. arb_state \in {"IDLE", "WR_PKT"}
  BY Zenon DEF Types
<1> HIDE DEF IA!Out, IA!tvalid, IA!next_queue
<1>5. CASE arb_state = "IDLE"
  BY <1>2, <1>5, Zenon DEF IA!Arbitrate, Taken
<1>6. CASE arb_state = "WR_PKT"
  BY <1>2, <1>3, <1>6 DEF IA!Arbitrate, Taken
<1> QED BY <1>4, <1>5, <1>6

(* The facts of a cycle, for one input.                                       *)
Offered(i, last) == [pos |-> sent[i] + 1, last |-> last[i]]
Accepted(i, valid) == i \in valid /\ IA!Ready(i)

Cycle(valid, last, tready) ==
    /\ arb_state' = IF ~Taken(tready) THEN arb_state ELSE IF IA!Out.last THEN "IDLE" ELSE "WR_PKT"
    /\ cur_queue' = IF (Taken(tready) /\ IA!Out.last) \/ (arb_state = "IDLE" /\ ~IA!tvalid)
                    THEN IA!next_queue ELSE cur_queue
    /\ received' = IF Taken(tready) THEN [queue |-> cur_queue, pos |-> IA!Out.pos, last |-> IA!Out.last]
                   ELSE received
    /\ \A i \in IA!Inputs :
        /\ in_fifo[i] \in IA!Fifo(IA!Word) /\ Offered(i, last) \in IA!Word
        /\ in_fifo'[i] = IA!FifoClock(in_fifo[i], Accepted(i, valid), Offered(i, last),
                                   Taken(tready) /\ i = cur_queue)
        /\ sent'[i] = IF ~Accepted(i, valid) THEN sent[i] ELSE IF last[i] THEN 0 ELSE sent[i] + 1
        /\ passed'[i] = IF IA!Empty(in_fifo[i]) \/ i = cur_queue THEN 0
                        ELSE IF arb_state = "IDLE" /\ Taken(tready) THEN passed[i] + 1 ELSE passed[i]
    /\ in_fifo' = [i \in IA!Inputs |-> in_fifo'[i]] /\ sent' = [i \in IA!Inputs |-> sent'[i]]
    /\ passed' = [i \in IA!Inputs |-> passed'[i]]
    /\ IA!tvalid \in BOOLEAN /\ IA!Out \in IA!Word

LEMMA ClockCycle ==
    ASSUME ArbiterParameters, Types, Whole, NEW valid \in SUBSET IA!Inputs,
           NEW last \in [IA!Inputs -> BOOLEAN], NEW tready \in BOOLEAN, IA!Clock(valid, last, tready)
    PROVE  Cycle(valid, last, tready)
<1> DEFINE step == IA!Arbitrate(tready)
<1>1. /\ (step.rd <=> Taken(tready)) /\ step.rd \in BOOLEAN
      /\ step.state = IF ~Taken(tready) THEN arb_state ELSE IF IA!Out.last THEN "IDLE" ELSE "WR_PKT"
      /\ step.queue = IF (Taken(tready) /\ IA!Out.last) \/ (arb_state = "IDLE" /\ ~IA!tvalid)
                      THEN IA!next_queue ELSE cur_queue
  BY ArbitrateStep, Zenon
<1>2. in_fifo[cur_queue] \in IA!Fifo(IA!Word)
  BY DEF Types
<1>3. IA!Out \in IA!Word /\ IA!tvalid \in BOOLEAN
  BY <1>2 DEF IA!Out, IA!tvalid, IA!Empty, IA!Fifo
<1>4. \A i \in IA!Inputs : in_fifo[i] \in IA!Fifo(IA!Word) /\ Offered(i, last) \in IA!Word
  <2> SUFFICES ASSUME NEW i \in IA!Inputs
               PROVE  in_fifo[i] \in IA!Fifo(IA!Word) /\ Offered(i, last) \in IA!Word
    OBVIOUS
  <2>1. in_fifo[i] \in IA!Fifo(IA!Word) /\ sent[i] \in 0 .. MAX_WORDS - 1 /\ last[i] \in BOOLEAN
    BY DEF Types
  <2>2. sent[i] + 1 \in 1 .. MAX_WORDS
    BY <2>1 DEF ArbiterParameters
  <2> QED BY <2>1, <2>2 DEF Offered, IA!Word
<1> HIDE DEF step
<1>5. /\ in_fifo' = [i \in IA!Inputs |-> IA!FifoClock(in_fifo[i], Accepted(i, valid), Offered(i, last),
                                                step.rd /\ i = cur_queue)]
      /\ sent' = [i \in IA!Inputs |-> IF ~Accepted(i, valid) THEN sent[i]
                                   ELSE IF last[i] THEN 0 ELSE sent[i] + 1]
      /\ passed' = [i \in IA!Inputs |->
             IF IA!Empty(in_fifo[i]) \/ i = cur_queue THEN 0
             ELSE IF arb_state = "IDLE" /\ step.rd THEN passed[i] + 1 ELSE passed[i]]
      /\ arb_state' = step.state /\ cur_queue' = step.queue
      /\ received' = IF IA!tvalid /\ tready
                     THEN [queue |-> cur_queue, pos |-> IA!Out.pos, last |-> IA!Out.last]
                     ELSE received
  BY Zenon DEF IA!Clock, Accepted, Offered, step
<1>6. step.rd = Taken(tready)
  BY <1>1, <1>3 DEF Taken
<1> QED BY <1>1, <1>3, <1>4, <1>5, <1>6, Zenon DEF Cycle, Taken

-----------------------------------------------------------------------------
(* A cycle keeps the types, the packets whole and the turns.                  *)
LEMMA TypesStep ==
    ASSUME ArbiterParameters, Types, Whole, NEW valid \in SUBSET IA!Inputs,
           NEW last \in [IA!Inputs -> BOOLEAN], NEW tready \in BOOLEAN, IA!Clock(valid, last, tready)
    PROVE  Types'
<1>1. Cycle(valid, last, tready)
  BY ClockCycle
<1>2. ASSUME NEW i \in IA!Inputs
      PROVE  /\ in_fifo'[i] \in IA!Fifo(IA!Word) /\ IA!Depth(in_fifo'[i]) <= MAX_DEPTH
             /\ sent'[i] \in 0 .. MAX_WORDS - 1 /\ passed'[i] \in Nat
  <2> DEFINE wen == Accepted(i, valid)
             din == Offered(i, last)
             ren == Taken(tready) /\ i = cur_queue
             f == in_fifo[i]
             g == IA!FifoClock(f, wen, din, ren)
  <2>1. /\ f \in IA!Fifo(IA!Word) /\ din \in IA!Word /\ in_fifo'[i] = g
        /\ wen \in BOOLEAN /\ ren \in BOOLEAN
        /\ sent'[i] = IF ~wen THEN sent[i] ELSE IF last[i] THEN 0 ELSE sent[i] + 1
        /\ passed'[i] = IF IA!Empty(f) \/ i = cur_queue THEN 0
                        ELSE IF arb_state = "IDLE" /\ Taken(tready) THEN passed[i] + 1 ELSE passed[i]
    BY <1>1, Zenon DEF Cycle, Accepted, Taken
  <2>2. /\ g \in IA!Fifo(IA!Word) /\ IA!Depth(f) \in Nat /\ IA!Depth(g) <= IA!Depth(f) + 1
        /\ ~wen => IA!Depth(g) <= IA!Depth(f)
    <3> HIDE DEF wen, din, ren, f
    <3> QED BY <2>1, FifoClockType
  <2>3. IA!Depth(g) \in Nat
    BY <2>2 DEF IA!Depth, IA!Fifo
  <2>4. IA!Depth(f) <= MAX_DEPTH /\ (wen => IA!Depth(f) < MAX_DEPTH - 1)
    BY Zenon DEF Types, Accepted, IA!Ready
  <2>5. /\ sent[i] \in 0 .. MAX_WORDS - 1 /\ (sent[i] + 1 = MAX_WORDS => last[i])
        /\ passed[i] \in Nat
    BY DEF Types, IA!Clock
  <2> HIDE DEF wen, din, ren, f, g
  <2>6. IA!Depth(g) <= MAX_DEPTH
    <3>1. MAX_DEPTH \in Nat
      BY Zenon DEF ArbiterParameters
    <3> QED BY <2>2, <2>3, <2>4, <3>1
  <2>7. sent'[i] \in 0 .. MAX_WORDS - 1 /\ passed'[i] \in Nat
    BY <2>1, <2>5 DEF ArbiterParameters
  <2> QED BY <2>1, <2>2, <2>6, <2>7
<1>3. /\ in_fifo' \in [IA!Inputs -> IA!Fifo(IA!Word)] /\ sent' \in [IA!Inputs -> 0 .. MAX_WORDS - 1]
      /\ passed' \in [IA!Inputs -> Nat]
  BY <1>1, <1>2, Zenon DEF Cycle
<1>4. arb_state' \in {"IDLE", "WR_PKT"} /\ cur_queue' \in IA!Inputs
  <2>1. cur_queue \in IA!Inputs /\ IA!next_queue \in IA!Inputs /\ arb_state \in {"IDLE", "WR_PKT"}
    BY NextQueue DEF Types
  <2> QED BY <1>1, <2>1, Zenon DEF Cycle
<1>5. received' \in [queue : IA!Inputs, pos : 0 .. MAX_WORDS, last : BOOLEAN]
  <2>1. cur_queue \in IA!Inputs /\ IA!Out.pos \in 0 .. MAX_WORDS /\ IA!Out.last \in BOOLEAN
    BY <1>1 DEF Cycle, IA!Word, Types, ArbiterParameters
  <2>2. received \in [queue : IA!Inputs, pos : 0 .. MAX_WORDS, last : BOOLEAN]
    BY DEF Types
  <2>3. received' = received
          \/ received' = [queue |-> cur_queue, pos |-> IA!Out.pos, last |-> IA!Out.last]
    BY <1>1, Zenon DEF Cycle
  <2> HIDE DEF IA!Out
  <2> QED BY <2>1, <2>2, <2>3
<1> QED BY <1>2, <1>3, <1>4, <1>5 DEF Types

LEMMA WholeStep ==
    ASSUME ArbiterParameters, Types, Whole, NEW valid \in SUBSET IA!Inputs,
           NEW last \in [IA!Inputs -> BOOLEAN], NEW tready \in BOOLEAN, IA!Clock(valid, last, tready)
    PROVE  Whole'
<1>1. Cycle(valid, last, tready)
  BY ClockCycle
<1>2. /\ arb_state' = IF ~Taken(tready) THEN arb_state ELSE IF IA!Out.last THEN "IDLE" ELSE "WR_PKT"
      /\ cur_queue' = IF (Taken(tready) /\ IA!Out.last) \/ (arb_state = "IDLE" /\ ~IA!tvalid)
                      THEN IA!next_queue ELSE cur_queue
      /\ received' = IF Taken(tready)
                     THEN [queue |-> cur_queue, pos |-> IA!Out.pos, last |-> IA!Out.last] ELSE received
      /\ Taken(tready) => IA!tvalid
      /\ Taken(tready) \in BOOLEAN /\ IA!tvalid \in BOOLEAN
  BY <1>1, Zenon DEF Cycle, Taken
<1>3. /\ IA!Out \in IA!Word /\ IA!Out.last \in BOOLEAN /\ IA!Out.pos \in Nat
      /\ received \in [queue : IA!Inputs, pos : 0 .. MAX_WORDS, last : BOOLEAN]
      /\ arb_state \in {"IDLE", "WR_PKT"} /\ cur_queue \in IA!Inputs
  BY <1>1 DEF Cycle, Types, IA!Word, ArbiterParameters
<1>4. /\ arb_state = "IDLE" => received.last
      /\ arb_state = "WR_PKT" => received.queue = cur_queue /\ ~received.last
      /\ arb_state = "WR_PKT" => (~IA!tvalid => ~IA!Out.last)
  BY Zenon DEF Whole, IA!tvalid
<1>5. ASSUME NEW i \in IA!Inputs
      PROVE  Chained(Due(i)', in_fifo'[i]) /\ Ahead(Due(i)', in_fifo'[i]) = sent'[i] + 1
  <2> DEFINE wen == Accepted(i, valid)
             din == Offered(i, last)
             ren == Taken(tready) /\ i = cur_queue
             f == in_fifo[i]
             n == Due(i)
             m == Due(i)'
  <2>1. /\ f \in IA!Fifo(IA!Word) /\ din \in IA!Word /\ in_fifo'[i] = IA!FifoClock(f, wen, din, ren)
        /\ wen \in BOOLEAN /\ ren \in BOOLEAN
        /\ sent'[i] = IF ~wen THEN sent[i] ELSE IF last[i] THEN 0 ELSE sent[i] + 1
    BY <1>1, Zenon DEF Cycle, Accepted, Taken
  <2>2. Chained(n, f) /\ Ahead(n, f) = sent[i] + 1
    BY DEF Whole
  <2>3. din.pos = sent[i] + 1 /\ After(din) = IF last[i] THEN 1 ELSE sent[i] + 1 + 1
    BY DEF Offered, After
  <2>4. m = IF ren /\ f.dout_valid THEN After(f.dout) ELSE n
    <3>1. ren => f.dout_valid /\ f.dout = IA!Out
      BY <1>2 DEF IA!tvalid, IA!Out, IA!Empty
    <3>2. m = IF ren THEN After(IA!Out) ELSE n
      <4> HIDE DEF IA!Out, IA!tvalid
      <4>1. CASE Taken(tready)
        BY <1>2, <1>3, <1>4, <4>1 DEF Due, After
      <4>2. CASE ~Taken(tready)
        BY <1>2, <4>2 DEF Due
      <4> QED BY <4>1, <4>2, Zenon
    <3> HIDE DEF IA!Out, f, m, n
    <3> QED BY <2>1, <3>1, <3>2, Zenon
  <2>5. sent[i] \in Nat
    BY DEF Types, ArbiterParameters
  <2> HIDE DEF wen, din, ren, f, n, m
  <2>6. /\ Chained(m, in_fifo'[i])
        /\ Ahead(m, in_fifo'[i]) = IF wen THEN After(din) ELSE Ahead(n, f)
    BY <2>1, <2>2, <2>3, <2>4, FifoClockChain
  <2>7. Ahead(m, in_fifo'[i]) = sent'[i] + 1
    BY <2>1, <2>2, <2>3, <2>5, <2>6
  <2> QED BY <2>6, <2>7 DEF m
<1>6. /\ arb_state' = "IDLE" => received'.last
      /\ arb_state' = "WR_PKT" => received'.queue = cur_queue' /\ ~received'.last
  <2> HIDE DEF IA!Out, IA!tvalid
  <2>1. CASE Taken(tready)
    BY <1>2, <1>3, <2>1, Zenon
  <2>2. CASE ~Taken(tready)
    BY <1>2, <1>3, <1>4, <2>2
  <2> QED BY <2>1, <2>2, Zenon
<1>7. ASSUME arb_state' = "WR_PKT", IA!Empty(in_fifo'[cur_queue'])
      PROVE  ~in_fifo'[cur_queue'].dout.last
  <2>1. cur_queue' = cur_queue /\ (Taken(tready) => ~IA!Out.last)
    <3> HIDE DEF IA!Out, IA!tvalid
    <3> QED BY <1>2, <1>3, <1>7
  <2> DEFINE wen == Accepted(cur_queue, valid)
             din == Offered(cur_queue, last)
             ren == Taken(tready)
             f == in_fifo[cur_queue]
  <2>2. /\ f \in IA!Fifo(IA!Word) /\ din \in IA!Word /\ wen \in BOOLEAN /\ ren \in BOOLEAN
        /\ in_fifo'[cur_queue] = IA!FifoClock(f, wen, din, ren /\ cur_queue = cur_queue)
    BY <1>1, <1>3, Zenon DEF Cycle, Accepted, Taken
  <2>3. in_fifo'[cur_queue] = IA!FifoClock(f, wen, din, ren)
    <3>1. (ren /\ cur_queue = cur_queue) = ren
      BY <2>2
    <3> QED BY <2>2, <3>1, Zenon
  <2> HIDE DEF wen, din, ren
  <2>4. in_fifo'[cur_queue].dout = f.dout /\ (~ren => IA!Empty(f))
    <3> HIDE DEF f
    <3> QED BY <1>7, <2>1, <2>2, <2>3, FifoClockOutput
  <2>5. ~IA!Out.last
    BY <1>2, <1>3, <1>4, <1>7, <2>1, <2>4, Zenon DEF IA!tvalid, ren
  <2> QED BY <2>1, <2>4, <2>5, Zenon DEF IA!Out
<1> QED BY <1>5, <1>6, <1>7, Zenon DEF Whole, IA!Out

LEMMA TurnStep ==
    ASSUME ArbiterParameters, ArbiterInv, NEW valid \in SUBSET IA!Inputs,
           NEW last \in [IA!Inputs -> BOOLEAN], NEW tready \in BOOLEAN, IA!Clock(valid, last, tready)
    PROVE  Turn'
<1> SUFFICES ASSUME NEW i \in IA!Inputs
             PROVE  /\ IA!Empty(in_fifo'[i]) => passed'[i] = 0
                    /\ passed'[i] + Distance(cur_queue', i) <=
                          IF arb_state' = "IDLE" \/ i = cur_queue' THEN NUM_QUEUES - 1 ELSE NUM_QUEUES
  BY DEF Turn, Distance, IA!Inputs
<1> USE DEF ArbiterInv
<1>1. Cycle(valid, last, tready)
  BY ClockCycle
<1>2. /\ arb_state' = IF ~Taken(tready) THEN arb_state ELSE IF IA!Out.last THEN "IDLE" ELSE "WR_PKT"
      /\ cur_queue' = IF (Taken(tready) /\ IA!Out.last) \/ (arb_state = "IDLE" /\ ~IA!tvalid)
                      THEN IA!next_queue ELSE cur_queue
      /\ passed'[i] = IF IA!Empty(in_fifo[i]) \/ i = cur_queue THEN 0
                      ELSE IF arb_state = "IDLE" /\ Taken(tready) THEN passed[i] + 1 ELSE passed[i]
      /\ Taken(tready) => IA!tvalid
  BY <1>1, Zenon DEF Cycle, Taken
<1>3. IA!Empty(in_fifo'[i]) => passed'[i] = 0
  <2> SUFFICES ASSUME IA!Empty(in_fifo'[i]), i # cur_queue
               PROVE  IA!Empty(in_fifo[i])
    BY <1>2, Zenon
  <2> DEFINE wen == Accepted(i, valid)
             din == Offered(i, last)
             ren == Taken(tready) /\ i = cur_queue
  <2>1. /\ in_fifo[i] \in IA!Fifo(IA!Word) /\ din \in IA!Word /\ wen \in BOOLEAN /\ ren \in BOOLEAN
        /\ in_fifo'[i] = IA!FifoClock(in_fifo[i], wen, din, ren) /\ ~ren
    BY <1>1, Zenon DEF Cycle, Accepted, Taken
  <2> HIDE DEF wen, din, ren
  <2> QED BY <2>1, FifoClockOutput
<1>4. /\ arb_state \in {"IDLE", "WR_PKT"} /\ cur_queue \in IA!Inputs /\ cur_queue' \in IA!Inputs
      /\ passed[i] \in Nat /\ IA!next_queue \in IA!Inputs
      /\ passed[i] + Distance(cur_queue, i) <=
             IF arb_state = "IDLE" \/ i = cur_queue THEN NUM_QUEUES - 1 ELSE NUM_QUEUES
      /\ i # cur_queue /\ ~IA!Empty(in_fifo[i]) => Distance(IA!next_queue, i) < Distance(cur_queue, i)
  <2>1. cur_queue \in IA!Inputs /\ arb_state \in {"IDLE", "WR_PKT"} /\ passed[i] \in Nat
    BY Zenon DEF Types
  <2>2. IA!next_queue \in IA!Inputs
        /\ (i # cur_queue /\ ~IA!Empty(in_fifo[i]) => Distance(IA!next_queue, i) < Distance(cur_queue, i))
    BY <2>1, NextQueue
  <2> QED BY <1>2, <2>1, <2>2 DEF Turn
<1>5. \A c \in IA!Inputs : Distance(c, i) \in 0 .. NUM_QUEUES - 1
  BY DEF Distance, IA!Inputs, ArbiterParameters
<1>6. NUM_QUEUES \in Nat
  BY DEF ArbiterParameters
<1> HIDE DEF IA!next_queue, IA!Out, IA!tvalid
<1>7. CASE IA!Empty(in_fifo[i]) \/ i = cur_queue
  BY <1>2, <1>4, <1>5, <1>6, <1>7
<1>8. CASE ~(IA!Empty(in_fifo[i]) \/ i = cur_queue)
  <2> DEFINE d == Distance(cur_queue, i)
             e == Distance(IA!next_queue, i)
  <2>1. d \in Nat /\ e \in Nat /\ e < d
    BY <1>4, <1>5, <1>6, <1>8
  <2>2. Distance(cur_queue', i) = IF (Taken(tready) /\ IA!Out.last) \/ (arb_state = "IDLE" /\ ~IA!tvalid)
                                  THEN e ELSE d
    BY <1>2, Zenon
  <2> HIDE DEF d, e
  <2>3. passed'[i] + Distance(cur_queue', i) <=
          IF arb_state' = "IDLE" THEN NUM_QUEUES - 1 ELSE NUM_QUEUES
    BY <1>2, <1>4, <1>6, <1>8, <2>1, <2>2 DEF d
  <2>4. arb_state' = "IDLE" \/ i # cur_queue'
    BY <1>2, <1>8
  <2> QED BY <1>3, <2>3, <2>4
<1> QED BY <1>3, <1>7, <1>8

-----------------------------------------------------------------------------
LEMMA ArbiterInit == ASSUME ArbiterParameters, IA!Init PROVE ArbiterInv
<1>1. IA!NoWord \in IA!Word
  BY DEF IA!NoWord, IA!Word, ArbiterParameters
<1>2. IA!NewFifo(IA!NoWord) \in IA!Fifo(IA!Word)
  <2>1. <<>> \in Seq(IA!Word)
    OBVIOUS
  <2> QED BY <1>1, <2>1, Zenon DEF IA!NewFifo, IA!Fifo
<1>3. \A i \in IA!Inputs : in_fifo[i] = IA!NewFifo(IA!NoWord) /\ sent[i] = 0 /\ passed[i] = 0
  BY DEF IA!Init
<1>4. 0 \in IA!Inputs /\ cur_queue = 0 /\ 0 \in 0 .. MAX_WORDS - 1 /\ 0 \in 0 .. MAX_WORDS
  BY DEF IA!Init, IA!Inputs, ArbiterParameters
<1>5. IA!Depth(IA!NewFifo(IA!NoWord)) = 0 /\ IA!Empty(IA!NewFifo(IA!NoWord))
  BY DEF IA!Depth, IA!Empty, IA!NewFifo
<1>6. Types
  <2>1. /\ in_fifo \in [IA!Inputs -> IA!Fifo(IA!Word)] /\ passed \in [IA!Inputs -> Nat]
        /\ sent \in [IA!Inputs -> 0 .. MAX_WORDS - 1]
    BY <1>2, <1>4 DEF IA!Init
  <2>2. received \in [queue : IA!Inputs, pos : 0 .. MAX_WORDS, last : BOOLEAN]
    BY <1>4 DEF IA!Init
  <2>3. \A i \in IA!Inputs : IA!Depth(in_fifo[i]) <= MAX_DEPTH
    BY <1>3, <1>5 DEF ArbiterParameters
  <2> QED BY <1>4, <2>1, <2>2, <2>3 DEF Types, IA!Init
<1>7. Whole
  <2>1. Chained(1, IA!NewFifo(IA!NoWord)) /\ Ahead(1, IA!NewFifo(IA!NoWord)) = 0 + 1
    BY DEF Chained, Ahead, AfterOutput, AfterMiddle, AfterDout, IA!NewFifo
  <2>2. \A i \in IA!Inputs : Due(i) = 1
    BY DEF Due, IA!Init
  <2> QED BY <1>3, <2>1, <2>2, Zenon DEF Whole, IA!Init
<1>8. Turn
  BY <1>3, <1>4 DEF Turn, Distance, IA!Inputs, IA!Init, ArbiterParameters
<1> QED BY <1>6, <1>7, <1>8 DEF ArbiterInv

LEMMA ArbiterStep == ASSUME ArbiterParameters, ArbiterInv, [IA!Next]_IA!vars PROVE ArbiterInv'
<1>1. CASE IA!Next
  <2>1. PICK valid \in SUBSET IA!Inputs, lasts \in SUBSET IA!Inputs, tready \in BOOLEAN :
            IA!Clock(valid, [i \in IA!Inputs |-> i \in lasts], tready)
    BY <1>1, Zenon DEF IA!Next
  <2> DEFINE last == [i \in IA!Inputs |-> i \in lasts]
  <2>2. last \in [IA!Inputs -> BOOLEAN] /\ IA!Clock(valid, last, tready)
    BY <2>1
  <2> HIDE DEF last
  <2>3. Types' /\ Whole' /\ Turn'
    BY <2>2, TypesStep, WholeStep, TurnStep DEF ArbiterInv
  <2> QED BY <2>3 DEF ArbiterInv
<1>2. CASE UNCHANGED IA!vars
  BY <1>2 DEF IA!vars, ArbiterInv, Types, Whole, Turn, Due, IA!Out
<1> QED BY <1>1, <1>2

(* The FIFOs do not overflow and the output of input_arbiter.v is a sequence of  *)
(* whole packets, for any number of inputs, any depth and any packet length: a   *)
(* word the receiver is offered begins a packet after the end of one, or goes on *)
(* with the packet of the same input, even though the state machine takes the    *)
(* end of a packet from tlast without a look at tvalid.                        *)
THEOREM PacketsComeOutWhole ==
    ASSUME ArbiterParameters
    PROVE  IA!Spec => [](IA!TypeOK /\ IA!PacketsAreWhole)
<1>1. ArbiterInv => IA!TypeOK /\ IA!PacketsAreWhole
  <2> SUFFICES ASSUME ArbiterInv PROVE IA!TypeOK /\ IA!PacketsAreWhole
    OBVIOUS
  <2>1. IA!TypeOK
    BY DEF ArbiterInv, Types, IA!TypeOK
  <2>2. IA!PacketsAreWhole
    <3> SUFFICES ASSUME IA!tvalid
                 PROVE  IF received.last THEN IA!Out.pos = 1
                        ELSE received.queue = cur_queue /\ IA!Out.pos = received.pos + 1
      BY DEF IA!PacketsAreWhole
    <3>1. IA!Out.pos = Due(cur_queue)
      BY Zenon DEF ArbiterInv, Types, Whole, Chained, IA!Out, IA!tvalid, IA!Empty
    <3>2. received.last \/ received.queue = cur_queue
      BY DEF ArbiterInv, Types, Whole
    <3> QED BY <3>1, <3>2 DEF Due
  <2> QED BY <2>1, <2>2
<1> QED BY <1>1, ArbiterInit, ArbiterStep, PTL DEF IA!Spec

(* An input of input_arbiter.v with a packet to send waits for at most one packet *)
(* of every other input: next_queue never goes past an input that is not empty.   *)
THEOREM InputsTakeTurns ==
    ASSUME ArbiterParameters
    PROVE  IA!Spec => []IA!BoundedBypass
<1>1. ArbiterInv => IA!BoundedBypass
  <2> SUFFICES ASSUME ArbiterInv, NEW i \in IA!Inputs
               PROVE  passed[i] <= NUM_QUEUES - 1
    BY DEF IA!BoundedBypass
  <2>1. passed[i] \in Nat /\ NUM_QUEUES \in Nat /\ cur_queue \in IA!Inputs
    BY DEF ArbiterInv, Types, ArbiterParameters
  <2>2. passed[i] + Distance(cur_queue, i) <=
           IF arb_state = "IDLE" \/ i = cur_queue THEN NUM_QUEUES - 1 ELSE NUM_QUEUES
    BY DEF ArbiterInv, Turn
  <2>3. Distance(cur_queue, i) \in Nat /\ (i # cur_queue => Distance(cur_queue, i) >= 1)
    BY <2>1 DEF Distance, IA!Inputs
  <2> QED BY <2>1, <2>2, <2>3
<1> QED BY <1>1, ArbiterInit, ArbiterStep, PTL DEF IA!Spec
==============================================================================
