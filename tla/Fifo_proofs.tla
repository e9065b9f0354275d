----------------------------- MODULE Fifo_proofs -----------------------------
(***************************************************************************)
(* For every depth: the pointers and the depth counter of small_fifo.v     *)
(* agree, and the circular buffer implements the bounded queue; the same   *)
(* circuit with the registers of fallthrough_small_fifo.v behind it takes  *)
(* the cycles of FifoOps, implements the bounded queue too, and shows      *)
(* every word within two cycles.                                           *)
(***************************************************************************)
EXTENDS SmallFifo, FifoOps, Integers, TLAPS

\* The registers of fallthrough_small_fifo.v behind the small_fifo.
VARIABLES fifo_valid, middle_valid, dout_valid, middle_dout, out, hidden

Fall == INSTANCE FallthroughFifo WITH fifo_dout <- dout, dout <- out

(* Modulo for a sum of two values below the modulus.                       *)
LEMMA ModSmall ==
    ASSUME NEW n \in Nat \ {0}, NEW x \in 0 .. 2 * n - 1
    PROVE  x % n = IF x < n THEN x ELSE x - n
<1>1. CASE x < n
  BY <1>1, SMT
<1>2. CASE x >= n
  BY <1>2, SMT
<1> QED
  BY <1>1, <1>2

(* The inductive invariant: types, and the write pointer determined by the *)
(* read pointer and the depth.                                             *)
IInv == TypeOK /\ DepthMatchesPointers

(* Where the k-th oldest word is stored.                                   *)
Slot(r, k) == (r + k) % MAX_DEPTH

(* Slots are addresses of the memory, given by one conditional subtraction.*)
LEMMA SlotValue ==
    ASSUME NEW r \in 0 .. MAX_DEPTH - 1, NEW k \in 0 .. MAX_DEPTH
    PROVE  /\ Slot(r, k) = IF r + k < MAX_DEPTH THEN r + k ELSE r + k - MAX_DEPTH
           /\ Slot(r, k) \in 0 .. MAX_DEPTH - 1
<1>1. MAX_DEPTH \in Nat \ {0}
  BY FifoAssumption
<1>2. PICK x \in 0 .. 2 * MAX_DEPTH - 1 : x = r + k
  BY <1>1
<1>3. x % MAX_DEPTH = IF x < MAX_DEPTH THEN x ELSE x - MAX_DEPTH
  BY <1>1, ModSmall, Zenon
<1> QED
  BY <1>1, <1>2, <1>3 DEF Slot

(* Different words are in different slots.                                 *)
LEMMA SlotsDiffer ==
    ASSUME NEW r \in 0 .. MAX_DEPTH - 1, NEW j \in 0 .. MAX_DEPTH, NEW k \in 0 .. MAX_DEPTH,
           j < k, k - j < MAX_DEPTH
    PROVE  Slot(r, j) # Slot(r, k)
<1>1. /\ Slot(r, j) = IF r + j < MAX_DEPTH THEN r + j ELSE r + j - MAX_DEPTH
      /\ Slot(r, k) = IF r + k < MAX_DEPTH THEN r + k ELSE r + k - MAX_DEPTH
  BY SlotValue
<1> QED
  BY <1>1, FifoAssumption

(* After a read the k-th oldest word is what was the (k+1)-st.             *)
LEMMA SlotShift ==
    ASSUME NEW r \in 0 .. MAX_DEPTH - 1, NEW k \in 0 .. MAX_DEPTH - 1
    PROVE  Pointer(r) \in 0 .. MAX_DEPTH - 1 /\ Slot(Pointer(r), k) = Slot(r, k + 1)
<1>0. MAX_DEPTH \in Nat \ {0}
  BY FifoAssumption
<1>1. Pointer(r) = Slot(r, 1) /\ 1 \in 0 .. MAX_DEPTH
  BY <1>0 DEF Pointer, Slot
<1>2. Pointer(r) \in 0 .. MAX_DEPTH - 1
      /\ Pointer(r) = IF r + 1 < MAX_DEPTH THEN r + 1 ELSE r + 1 - MAX_DEPTH
  BY <1>1, SlotValue
<1>3. k \in 0 .. MAX_DEPTH /\ k + 1 \in 0 .. MAX_DEPTH
  BY <1>0
<1>4. Slot(Pointer(r), k) = IF Pointer(r) + k < MAX_DEPTH THEN Pointer(r) + k
                            ELSE Pointer(r) + k - MAX_DEPTH
  BY <1>2, <1>3, SlotValue
<1>5. Slot(r, k + 1) = IF r + (k + 1) < MAX_DEPTH THEN r + (k + 1) ELSE r + (k + 1) - MAX_DEPTH
  BY <1>3, SlotValue
<1> QED
  BY <1>0, <1>2, <1>4, <1>5

(* The depth counter does not wrap: it is as wide as 2 * MAX_DEPTH.        *)
LEMMA DepthStep ==
    ASSUME IInv, NEW wr_en \in BOOLEAN, NEW rd_en \in BOOLEAN,
           wr_en => ~full \/ rd_en, rd_en => ~empty, DepthClock(wr_en, rd_en)
    PROVE  /\ wr_en /\ ~rd_en => depth < MAX_DEPTH /\ depth' = depth + 1
           /\ ~wr_en /\ rd_en => depth > 0 /\ depth' = depth - 1
           /\ (wr_en <=> rd_en) => depth' = depth
           /\ depth' \in 0 .. MAX_DEPTH
<1>0. MAX_DEPTH \in Nat \ {0} /\ 2 * MAX_DEPTH \in Nat \ {0} /\ depth \in 0 .. MAX_DEPTH
  BY FifoAssumption DEF IInv, TypeOK
<1>1. CASE wr_en /\ ~rd_en
  <2>1. depth < MAX_DEPTH /\ depth' = (depth + 1) % (2 * MAX_DEPTH)
    BY <1>0, <1>1 DEF full, DepthClock
  <2>2. depth + 1 \in 0 .. 2 * (2 * MAX_DEPTH) - 1 /\ depth + 1 < 2 * MAX_DEPTH
    BY <1>0, <2>1
  <2>3. (depth + 1) % (2 * MAX_DEPTH) = depth + 1
    BY <1>0, <2>2, ModSmall, Zenon
  <2>4. depth' = depth + 1 /\ depth' \in 0 .. MAX_DEPTH
    BY <1>0, <2>1, <2>3
  <2> QED
    BY <1>1, <2>1, <2>4, Zenon
<1>2. CASE ~wr_en /\ rd_en
  <2>1. depth > 0 /\ depth' = (depth - 1) % (2 * MAX_DEPTH)
    BY <1>0, <1>2 DEF empty, DepthClock
  <2>2. depth - 1 \in 0 .. 2 * (2 * MAX_DEPTH) - 1 /\ depth - 1 < 2 * MAX_DEPTH
    BY <1>0, <2>1
  <2>3. (depth - 1) % (2 * MAX_DEPTH) = depth - 1
    BY <1>0, <2>2, ModSmall, Zenon
  <2>4. depth' = depth - 1 /\ depth' \in 0 .. MAX_DEPTH
    BY <1>0, <2>1, <2>3
  <2> QED
    BY <1>2, <2>1, <2>4, Zenon
<1>3. CASE wr_en <=> rd_en
  BY <1>0, <1>3 DEF DepthClock
<1> QED
  BY <1>1, <1>2, <1>3

(* A function on 1 .. n with values in S is a sequence of length n.        *)
LEMMA FunctionIsSeq ==
    ASSUME NEW S, NEW n \in Nat, NEW f, f = [k \in 1 .. n |-> f[k]],
           \A k \in 1 .. n : f[k] \in S
    PROVE  f \in Seq(S) /\ Len(f) = n
<1>1. f \in [1 .. n -> S]
  OBVIOUS
<1> QED
  BY <1>1

(* A cycle that keeps to the rules preserves the invariant.                *)
LEMMA ClockPreserves ==
    ASSUME IInv, NEW wr_en \in BOOLEAN, NEW rd_en \in BOOLEAN, NEW din \in Values,
           wr_en => ~full \/ rd_en, rd_en => ~empty, Clock(wr_en, din, rd_en)
    PROVE  IInv'
<1>0. /\ MAX_DEPTH \in Nat \ {0}
      /\ rd_ptr \in 0 .. MAX_DEPTH - 1 /\ wr_ptr \in 0 .. MAX_DEPTH - 1
      /\ depth \in 0 .. MAX_DEPTH /\ wr_ptr = Slot(rd_ptr, depth)
  BY FifoAssumption DEF IInv, TypeOK, DepthMatchesPointers, Slot
<1>1. /\ wr_en /\ ~rd_en => depth < MAX_DEPTH /\ depth' = depth + 1
      /\ ~wr_en /\ rd_en => depth > 0 /\ depth' = depth - 1
      /\ (wr_en <=> rd_en) => depth' = depth
      /\ depth' \in 0 .. MAX_DEPTH
  <2>1. DepthClock(wr_en, rd_en)
    BY DEF Clock
  <2> QED
    BY <2>1, DepthStep
<1>2. /\ wr_ptr' = IF wr_en THEN Pointer(wr_ptr) ELSE wr_ptr
      /\ rd_ptr' = IF rd_en THEN Pointer(rd_ptr) ELSE rd_ptr
  BY DEF Clock
<1>3. 0 \in 0 .. MAX_DEPTH - 1
  BY <1>0
<1>4. Pointer(rd_ptr) \in 0 .. MAX_DEPTH - 1 /\ Pointer(wr_ptr) \in 0 .. MAX_DEPTH - 1
  BY <1>0, <1>3, SlotShift
<1>5. TypeOK'
  <2>1. rd_ptr' \in 0 .. MAX_DEPTH - 1 /\ wr_ptr' \in 0 .. MAX_DEPTH - 1
    BY <1>0, <1>2, <1>4
  <2>2. queue' \in [0 .. MAX_DEPTH - 1 -> Values] /\ dout' \in Values
    BY <1>0 DEF Clock, IInv, TypeOK
  <2> QED
    BY <1>1, <2>1, <2>2 DEF TypeOK
<1>6. wr_ptr' = Slot(rd_ptr', depth')
  <2>0. /\ wr_ptr = IF rd_ptr + depth < MAX_DEPTH THEN rd_ptr + depth
                    ELSE rd_ptr + depth - MAX_DEPTH
        /\ Pointer(wr_ptr) = IF wr_ptr + 1 < MAX_DEPTH THEN wr_ptr + 1 ELSE wr_ptr + 1 - MAX_DEPTH
        /\ Pointer(rd_ptr) = IF rd_ptr + 1 < MAX_DEPTH THEN rd_ptr + 1 ELSE rd_ptr + 1 - MAX_DEPTH
    <3>1. 1 \in 0 .. MAX_DEPTH
      BY <1>0
    <3>2. Pointer(wr_ptr) = Slot(wr_ptr, 1) /\ Pointer(rd_ptr) = Slot(rd_ptr, 1)
      BY DEF Pointer, Slot
    <3> QED
      BY <1>0, <3>1, <3>2, SlotValue, Zenon
  <2>1. Slot(rd_ptr', depth') = IF rd_ptr' + depth' < MAX_DEPTH THEN rd_ptr' + depth'
                                ELSE rd_ptr' + depth' - MAX_DEPTH
    BY <1>0, <1>1, <1>2, <1>4, SlotValue, Zenon
  <2>2. CASE wr_en /\ rd_en
    BY <1>0, <1>1, <1>2, <2>0, <2>1, <2>2
  <2>3. CASE wr_en /\ ~rd_en
    BY <1>0, <1>1, <1>2, <2>0, <2>1, <2>3
  <2>4. CASE ~wr_en /\ rd_en
    BY <1>0, <1>1, <1>2, <2>0, <2>1, <2>4
  <2>5. CASE ~wr_en /\ ~rd_en
    BY <1>0, <1>1, <1>2, <2>0, <2>1, <2>5, Zenon
  <2> QED
    BY <2>2, <2>3, <2>4, <2>5
<1> QED
  BY <1>5, <1>6 DEF IInv, DepthMatchesPointers, Slot

(* A cycle on the contents: a read removes the oldest word, a write adds   *)
(* the newest.                                                             *)
LEMMA ContentsStep ==
    ASSUME IInv, NEW wr_en \in BOOLEAN, NEW rd_en \in BOOLEAN, NEW din \in Values,
           wr_en => ~full \/ rd_en, rd_en => ~empty, Clock(wr_en, din, rd_en)
    PROVE  /\ Contents \in Seq(Values) /\ Contents' \in Seq(Values)
           /\ Len(Contents) = depth /\ Len(Contents') = depth'
           /\ \A k \in 1 .. depth' :
                Contents'[k] = IF wr_en /\ k = depth' THEN din
                               ELSE IF rd_en THEN Contents[k + 1] ELSE Contents[k]
<1>0. /\ MAX_DEPTH \in Nat \ {0} /\ queue \in [0 .. MAX_DEPTH - 1 -> Values]
      /\ rd_ptr \in 0 .. MAX_DEPTH - 1 /\ wr_ptr \in 0 .. MAX_DEPTH - 1
      /\ depth \in 0 .. MAX_DEPTH /\ wr_ptr = Slot(rd_ptr, depth)
  BY FifoAssumption DEF IInv, TypeOK, DepthMatchesPointers, Slot
<1>1. IInv'
  BY ClockPreserves
<1>2. /\ queue' \in [0 .. MAX_DEPTH - 1 -> Values] /\ rd_ptr' \in 0 .. MAX_DEPTH - 1
      /\ depth' \in 0 .. MAX_DEPTH
  BY <1>1 DEF IInv, TypeOK
<1>3. /\ wr_en /\ ~rd_en => depth < MAX_DEPTH /\ depth' = depth + 1
      /\ ~wr_en /\ rd_en => depth > 0 /\ depth' = depth - 1
      /\ (wr_en <=> rd_en) => depth' = depth
      /\ rd_en => depth > 0
  <2>1. DepthClock(wr_en, rd_en) /\ (rd_en => depth > 0)
    BY <1>0 DEF Clock, empty
  <2> QED
    BY <2>1, DepthStep
<1>4. /\ \A k \in 1 .. depth : Contents[k] = queue[Slot(rd_ptr, k - 1)]
      /\ \A k \in 1 .. depth' : Contents'[k] = queue'[Slot(rd_ptr', k - 1)]
      /\ DOMAIN Contents = 1 .. depth /\ DOMAIN Contents' = 1 .. depth'
  <2>1. \A r, k \in Int : r + k - 1 = r + (k - 1)
    OBVIOUS
  <2> QED
    BY <1>0, <1>2, <2>1 DEF Contents, Slot
<1>5. \A k \in 1 .. depth : queue[Slot(rd_ptr, k - 1)] \in Values
  <2> SUFFICES ASSUME NEW k \in 1 .. depth PROVE queue[Slot(rd_ptr, k - 1)] \in Values
    OBVIOUS
  <2>1. k - 1 \in 0 .. MAX_DEPTH
    BY <1>0
  <2>2. Slot(rd_ptr, k - 1) \in 0 .. MAX_DEPTH - 1
    BY <1>0, <2>1, SlotValue, Zenon
  <2> QED
    BY <1>0, <2>2
<1>6. \A k \in 1 .. depth' : queue'[Slot(rd_ptr', k - 1)] \in Values
  <2> SUFFICES ASSUME NEW k \in 1 .. depth' PROVE queue'[Slot(rd_ptr', k - 1)] \in Values
    OBVIOUS
  <2>1. k - 1 \in 0 .. MAX_DEPTH
    BY <1>0, <1>2
  <2>2. Slot(rd_ptr', k - 1) \in 0 .. MAX_DEPTH - 1
    BY <1>2, <2>1, SlotValue
  <2> QED
    BY <1>2, <2>2
<1>7. /\ Contents \in Seq(Values) /\ Contents' \in Seq(Values)
      /\ Len(Contents) = depth /\ Len(Contents') = depth'
  <2>1. depth \in Nat /\ depth' \in Nat
    BY <1>0, <1>2
  <2>2. Contents = [k \in 1 .. depth |-> Contents[k]]
        /\ Contents' = [k \in 1 .. depth' |-> Contents'[k]]
    BY DEF Contents
  <2>3. \A k \in 1 .. depth : Contents[k] \in Values
    BY <1>4, <1>5
  <2>4. \A k \in 1 .. depth' : Contents'[k] \in Values
    BY <1>4, <1>6
  <2> QED
    BY <2>1, <2>2, <2>3, <2>4, FunctionIsSeq
<1>8. ASSUME NEW k \in 1 .. depth'
      PROVE  Contents'[k] = IF wr_en /\ k = depth' THEN din
                            ELSE IF rd_en THEN Contents[k + 1] ELSE Contents[k]
  <2>0. Contents'[k] = queue'[Slot(rd_ptr', k - 1)] /\ k - 1 \in 0 .. MAX_DEPTH - 1
    BY <1>0, <1>2, <1>4
  <2>1. CASE rd_en
    <3>1. rd_ptr' = Pointer(rd_ptr) /\ k \in 1 .. depth
      BY <1>0, <1>2, <1>3, <2>1 DEF Clock
    <3>2. Slot(rd_ptr', k - 1) = Slot(rd_ptr, k)
      <4>1. k - 1 + 1 = k
        BY <1>2
      <4> QED
        BY <1>0, <2>0, <3>1, <4>1, SlotShift
    <3>3. CASE wr_en /\ k = depth'
      <4>1. queue' = [queue EXCEPT ![wr_ptr] = din] /\ depth' = depth
        BY <1>3, <2>1, <3>3 DEF Clock
      <4> QED
        BY <1>0, <2>0, <3>2, <3>3, <4>1
    <3>4. CASE wr_en /\ k # depth'
      <4>1. queue' = [queue EXCEPT ![wr_ptr] = din] /\ depth' = depth
        BY <1>3, <2>1, <3>4 DEF Clock
      <4>2. k \in 0 .. MAX_DEPTH /\ k < depth /\ depth - k < MAX_DEPTH
        BY <1>0, <3>4, <4>1, <3>1
      <4>3. Slot(rd_ptr, k) # wr_ptr /\ Slot(rd_ptr, k) \in 0 .. MAX_DEPTH - 1
        BY <1>0, <4>2, SlotsDiffer, SlotValue
      <4>4. Contents'[k] = queue[Slot(rd_ptr, k)]
        BY <1>0, <2>0, <3>2, <4>1, <4>3
      <4>5. k + 1 \in 1 .. depth /\ k + 1 - 1 = k
        BY <1>0, <4>2
      <4>6. Contents[k + 1] = queue[Slot(rd_ptr, k)]
        BY <1>4, <4>5
      <4> QED
        BY <2>1, <3>4, <4>4, <4>6
    <3>5. CASE ~wr_en
      <4>1. queue' = queue /\ depth' = depth - 1
        BY <1>3, <2>1, <3>5 DEF Clock
      <4>2. k + 1 \in 1 .. depth /\ k + 1 - 1 = k
        BY <1>0, <4>1
      <4>3. Contents[k + 1] = queue[Slot(rd_ptr, k)]
        BY <1>4, <4>2
      <4> QED
        BY <2>0, <2>1, <3>2, <3>5, <4>1, <4>3
    <3> QED
      BY <3>3, <3>4, <3>5
  <2>2. CASE ~rd_en
    <3>1. rd_ptr' = rd_ptr
      BY <2>2 DEF Clock
    <3>2. CASE wr_en /\ k = depth'
      <4>1. queue' = [queue EXCEPT ![wr_ptr] = din] /\ k - 1 = depth
        BY <1>0, <1>3, <2>2, <3>2 DEF Clock
      <4> QED
        BY <1>0, <2>0, <3>1, <3>2, <4>1, Zenon
    <3>3. CASE wr_en /\ k # depth'
      <4>1. queue' = [queue EXCEPT ![wr_ptr] = din] /\ depth < MAX_DEPTH /\ depth' = depth + 1
        BY <1>3, <2>2, <3>3 DEF Clock
      <4>2. k \in 1 .. depth /\ k - 1 \in 0 .. MAX_DEPTH /\ k - 1 < depth
            /\ depth - (k - 1) < MAX_DEPTH
        BY <1>0, <3>3, <4>1
      <4>3. Slot(rd_ptr, k - 1) # wr_ptr /\ Slot(rd_ptr, k - 1) \in 0 .. MAX_DEPTH - 1
        BY <1>0, <4>2, SlotsDiffer, SlotValue, Zenon
      <4> QED
        BY <1>0, <1>4, <2>0, <2>2, <3>1, <3>3, <4>1, <4>2, <4>3
    <3>4. CASE ~wr_en
      <4>1. queue' = queue /\ depth' = depth
        BY <1>3, <2>2, <3>4 DEF Clock
      <4> QED
        BY <1>4, <2>0, <2>2, <3>1, <3>4, <4>1
    <3> QED
      BY <3>2, <3>3, <3>4
  <2> QED
    BY <2>1, <2>2
<1> QED
  BY <1>7, <1>8

(* Two sequences of the same length with the same elements are equal.      *)
LEMMA SameElements ==
    ASSUME NEW S, NEW s \in Seq(S), NEW t \in Seq(S), Len(s) = Len(t),
           \A k \in 1 .. Len(s) : s[k] = t[k]
    PROVE  s = t
OBVIOUS

(* The same in terms of the sequence: Tail for a read, Append for a write. *)
LEMMA ContentsAfter ==
    ASSUME IInv, NEW wr_en \in BOOLEAN, NEW rd_en \in BOOLEAN, NEW din \in Values,
           wr_en => ~full \/ rd_en, rd_en => ~empty, Clock(wr_en, din, rd_en)
    PROVE  LET s == IF rd_en THEN Tail(Contents) ELSE Contents
           IN  /\ Contents \in Seq(Values) /\ s \in Seq(Values)
               /\ rd_en => Contents # <<>>
               /\ Contents' = IF wr_en THEN Append(s, din) ELSE s
               /\ Contents' \in Seq(Values) /\ Len(Contents') <= MAX_DEPTH
<1> DEFINE s == IF rd_en THEN Tail(Contents) ELSE Contents
           t == IF wr_en THEN Append(s, din) ELSE s
           d == IF rd_en THEN depth - 1 ELSE depth
<1>0. MAX_DEPTH \in Nat \ {0} /\ depth \in 0 .. MAX_DEPTH
  BY FifoAssumption DEF IInv, TypeOK
<1>1. /\ Contents \in Seq(Values) /\ Contents' \in Seq(Values)
      /\ Len(Contents) = depth /\ Len(Contents') = depth'
      /\ \A k \in 1 .. depth' :
           Contents'[k] = IF wr_en /\ k = depth' THEN din
                          ELSE IF rd_en THEN Contents[k + 1] ELSE Contents[k]
  BY ContentsStep
<1>2. /\ wr_en /\ ~rd_en => depth' = depth + 1
      /\ ~wr_en /\ rd_en => depth' = depth - 1
      /\ (wr_en <=> rd_en) => depth' = depth
      /\ depth' \in 0 .. MAX_DEPTH
  <2>1. DepthClock(wr_en, rd_en)
    BY DEF Clock
  <2> QED
    BY <2>1, DepthStep
<1>3. rd_en => depth > 0 /\ Contents # <<>>
  BY <1>0, <1>1 DEF empty
<1> HIDE DEF Contents
<1>4. /\ s \in Seq(Values) /\ Len(s) = d /\ d \in Nat
      /\ \A k \in 1 .. d : s[k] = IF rd_en THEN Contents[k + 1] ELSE Contents[k]
  BY <1>0, <1>1, <1>3
<1>5. depth' = IF wr_en THEN d + 1 ELSE d
  BY <1>0, <1>2
<1> HIDE DEF s, d
<1>6. /\ t \in Seq(Values) /\ Len(t) = depth'
      /\ \A k \in 1 .. depth' : t[k] = IF wr_en /\ k = depth' THEN din ELSE s[k]
  BY <1>4, <1>5
<1>7. ASSUME NEW k \in 1 .. depth' PROVE Contents'[k] = t[k]
  <2> HIDE DEF t
  <2>1. CASE wr_en /\ k = depth'
    BY <1>1, <1>6, <2>1
  <2>2. CASE ~(wr_en /\ k = depth')
    <3>1. k \in 1 .. d
      BY <1>0, <1>2, <1>4, <1>5, <2>2
    <3>2. t[k] = IF rd_en THEN Contents[k + 1] ELSE Contents[k]
      BY <1>4, <1>6, <2>2, <3>1
    <3> QED
      BY <1>1, <2>2, <3>2
  <2> QED
    BY <2>1, <2>2
<1>8. Contents' = t
  <2> HIDE DEF t
  <2> QED
    BY <1>1, <1>6, <1>7, SameElements
<1> QED
  BY <1>0, <1>1, <1>2, <1>3, <1>4, <1>8 DEF s

(* The step on the contents is a step of the bounded queue.                *)
LEMMA StepIsQueueStep ==
    ASSUME IInv, [Next]_vars
    PROVE  [Queue!Next]_Contents
<1>1. CASE UNCHANGED vars
  BY <1>1 DEF vars, Contents
<1>2. CASE Next
  <2>1. PICK wr_en \in BOOLEAN, rd_en \in BOOLEAN, din \in Values :
          /\ wr_en => ~full \/ rd_en
          /\ rd_en => ~empty
          /\ Clock(wr_en, din, rd_en)
    BY <1>2 DEF Next
  <2>2. LET s == IF rd_en THEN Tail(Contents) ELSE Contents
        IN  /\ rd_en => Contents # <<>>
            /\ Contents' = IF wr_en THEN Append(s, din) ELSE s
            /\ Len(Contents') <= MAX_DEPTH
    BY <2>1, ContentsAfter
  <2> HIDE DEF Contents
  <2> QED
    BY <2>2 DEF Queue!Next, Queue!Put, Queue!Get, Queue!PutGet
<1> QED
  BY <1>1, <1>2

(* The reset state.                                                        *)
LEMMA InitIInv == Init => IInv
<1> SUFFICES ASSUME Init PROVE IInv
  OBVIOUS
<1>1. MAX_DEPTH \in Nat \ {0} /\ 0 \in 0 .. MAX_DEPTH - 1 /\ 0 \in 0 .. MAX_DEPTH
  BY FifoAssumption
<1>2. wr_ptr = Slot(rd_ptr, depth)
  BY <1>1, SlotValue DEF Init
<1> QED
  BY <1>1, <1>2 DEF Init, IInv, TypeOK, DepthMatchesPointers, Slot

(* For every depth and every use within the rules, the types and the       *)
(* agreement of pointers and depth counter of small_fifo.v are kept.       *)
THEOREM PointersAgree == Spec => [](TypeOK /\ DepthMatchesPointers)
<1>1. Init => IInv
  BY InitIInv
<1>2. IInv /\ [Next]_vars => IInv'
  <2>1. ASSUME IInv, UNCHANGED vars PROVE IInv'
    BY <2>1 DEF IInv, TypeOK, DepthMatchesPointers, vars
  <2>2. ASSUME IInv, Next PROVE IInv'
    BY <2>2, ClockPreserves DEF Next
  <2> QED
    BY <2>1, <2>2
<1> QED
  BY <1>1, <1>2, PTL DEF Spec, IInv

(* For every depth the circular buffer of small_fifo.v implements the      *)
(* bounded queue of that capacity: its reads return what was written, in   *)
(* order, and nothing is overwritten before it is read.                    *)
THEOREM FifoImplementsQueue == Spec => ImplementsQueue
<1>1. Init => Queue!Init
  BY DEF Init, Queue!Init, Contents
<1>2. IInv /\ [Next]_vars => [Queue!Next]_Contents
  BY StepIsQueueStep
<1> QED
  BY <1>1, <1>2, PointersAgree, PTL DEF Spec, ImplementsQueue, Queue!Spec, IInv

-----------------------------------------------------------------------------
(* A cycle of a FIFO keeps its type and adds at most the word written.     *)
LEMMA FifoClockDepth ==
    ASSUME NEW S, NEW f \in Fifo(S), NEW wr_en \in BOOLEAN, NEW din \in S, NEW rd_en \in BOOLEAN
    PROVE  /\ FifoClock(f, wr_en, din, rd_en) \in Fifo(S)
           /\ Depth(FifoClock(f, wr_en, din, rd_en)) \in Nat
           /\ Depth(f) \in Nat
           /\ Depth(FifoClock(f, wr_en, din, rd_en)) <= Depth(f) + 1
           /\ ~wr_en => Depth(FifoClock(f, wr_en, din, rd_en)) <= Depth(f)
<1> DEFINE kept  == IF FifoRdEn(f) THEN Tail(f.fifo) ELSE f.fifo
           added == IF wr_en THEN <<din>> ELSE << >>
           g     == FifoClock(f, wr_en, din, rd_en)
<1>1. /\ f.fifo \in Seq(S) /\ f.fifo_dout \in S /\ f.middle \in S /\ f.dout \in S
      /\ f.fifo_valid \in BOOLEAN /\ f.middle_valid \in BOOLEAN /\ f.dout_valid \in BOOLEAN
  BY DEF Fifo
<1>2. kept \in Seq(S) /\ Len(kept) \in Nat /\ Len(kept) <= Len(f.fifo) /\ Len(f.fifo) \in Nat
  BY <1>1 DEF FifoRdEn
<1>3. added \in Seq(S) /\ Len(added) \in Nat /\ Len(added) <= 1 /\ (~wr_en => Len(added) = 0)
  OBVIOUS
<1>4. g.fifo = kept \o added
  BY Zenon DEF FifoClock
<1>5. kept \o added \in Seq(S) /\ Len(kept \o added) = Len(kept) + Len(added)
  <2> HIDE DEF kept, added
  <2> QED
    BY <1>2, <1>3
<1>6. FifoRdEn(f) => f.fifo # << >>
  BY DEF FifoRdEn
<1>7. FifoRdEn(f) => Head(f.fifo) \in S
  BY <1>1, <1>6
<1>8. g \in Fifo(S)
  <2>1. /\ (IF FifoRdEn(f) THEN Head(f.fifo) ELSE f.fifo_dout) \in S
        /\ (IF WillUpdateMiddle(f, rd_en) THEN f.fifo_dout ELSE f.middle) \in S
        /\ (IF ~WillUpdateDout(f, rd_en) THEN f.dout
            ELSE IF f.middle_valid THEN f.middle ELSE f.fifo_dout) \in S
    BY <1>1, <1>7
  <2>2. /\ FifoRdEn(f) \in BOOLEAN /\ WillUpdateMiddle(f, rd_en) \in BOOLEAN
        /\ WillUpdateDout(f, rd_en) \in BOOLEAN
    BY Zenon DEF FifoRdEn, WillUpdateMiddle, WillUpdateDout
  <2>3. /\ (FifoRdEn(f) \/ (f.fifo_valid /\ ~WillUpdateMiddle(f, rd_en)
                                          /\ ~WillUpdateDout(f, rd_en))) \in BOOLEAN
        /\ (WillUpdateMiddle(f, rd_en) \/ (f.middle_valid /\ ~WillUpdateDout(f, rd_en))) \in BOOLEAN
        /\ (WillUpdateDout(f, rd_en) \/ (f.dout_valid /\ ~rd_en)) \in BOOLEAN
    OBVIOUS
  <2>4. kept \o added \in Seq(S)
    BY <1>5
  <2> HIDE DEF kept, added
  <2> QED
    BY <2>1, <2>3, <2>4, Zenon DEF FifoClock, Fifo, kept, added
<1>9. Len(g.fifo) = Len(kept) + Len(added)
  BY <1>4, <1>5
<1> HIDE DEF g, kept, added
<1>10. /\ Depth(g) \in Nat /\ Depth(f) \in Nat /\ Depth(g) <= Depth(f) + 1
       /\ ~wr_en => Depth(g) <= Depth(f)
  BY <1>2, <1>3, <1>9 DEF Depth
<1> QED
  BY <1>8, <1>10 DEF g

\* A condition as a number of words.
Bit(b) == IF b THEN 1 ELSE 0

\* The words of a FIFO that are in its registers.
Regs(f) == Bit(f.dout_valid) + Bit(f.middle_valid) + Bit(f.fifo_valid)

\* c is the words of a, then those of b.
Joined(a, b, c) ==
    /\ Len(c) = Len(a) + Len(b)
    /\ \A k \in 1 .. Len(a) : c[k] = a[k]
    /\ \A k \in 1 .. Len(b) : c[Len(a) + k] = b[k]

(* Concatenation, word by word.                                            *)
LEMMA Joining ==
    ASSUME NEW S, NEW a \in Seq(S), NEW b \in Seq(S)
    PROVE  a \o b \in Seq(S) /\ Joined(a, b, a \o b)
BY DEF Joined

(* Where the words of a FIFO are: on the output, in the two registers      *)
(* behind it, then in the buffer.                                          *)
LEMMA WordsAt ==
    ASSUME NEW S, NEW f \in Fifo(S)
    PROVE  /\ Words(f) \in Seq(S) /\ Len(Words(f)) = Regs(f) + Len(f.fifo)
           /\ Len(f.fifo) \in Nat
           /\ \A k \in 1 .. Len(f.fifo) : Words(f)[Regs(f) + k] = f.fifo[k]
           /\ f.dout_valid => Words(f)[1] = f.dout
           /\ f.middle_valid => Words(f)[Bit(f.dout_valid) + 1] = f.middle
           /\ f.fifo_valid => Words(f)[Bit(f.dout_valid) + Bit(f.middle_valid) + 1] = f.fifo_dout
<1> DEFINE d == IF f.dout_valid THEN <<f.dout>> ELSE <<>>
           m == IF f.middle_valid THEN <<f.middle>> ELSE <<>>
           v == IF f.fifo_valid THEN <<f.fifo_dout>> ELSE <<>>
           s == f.fifo
           dm == d \o m
           dmv == dm \o v
           bd == Bit(f.dout_valid)
           bm == Bit(f.middle_valid)
           bv == Bit(f.fifo_valid)
<1>1. /\ s \in Seq(S) /\ f.fifo_dout \in S /\ f.middle \in S /\ f.dout \in S
      /\ f.fifo_valid \in BOOLEAN /\ f.middle_valid \in BOOLEAN /\ f.dout_valid \in BOOLEAN
  BY DEF Fifo
<1>2. /\ d \in Seq(S) /\ Len(d) = bd /\ (f.dout_valid => d[1] = f.dout)
      /\ m \in Seq(S) /\ Len(m) = bm /\ (f.middle_valid => m[1] = f.middle)
      /\ v \in Seq(S) /\ Len(v) = bv /\ (f.fifo_valid => v[1] = f.fifo_dout)
  BY <1>1 DEF Bit
<1>3. /\ bd \in {0, 1} /\ bm \in {0, 1} /\ bv \in {0, 1}
      /\ (f.dout_valid => bd = 1) /\ (f.middle_valid => bm = 1) /\ (f.fifo_valid => bv = 1)
      /\ Regs(f) = bd + bm + bv
  BY DEF Bit, Regs
<1>4. Words(f) = dmv \o s
  BY DEF Words
<1> HIDE DEF d, m, v, s, dm, dmv, bd, bm, bv
<1>5. /\ dm \in Seq(S) /\ Len(dm) = bd + bm
      /\ \A k \in 1 .. bd : dm[k] = d[k]
      /\ \A k \in 1 .. bm : dm[bd + k] = m[k]
  <2>1. dm \in Seq(S) /\ Joined(d, m, dm)
    BY <1>2, Joining DEF dm
  <2> QED BY <1>2, <2>1 DEF Joined
<1>6. /\ dmv \in Seq(S) /\ Len(dmv) = bd + bm + bv
      /\ \A k \in 1 .. bd + bm : dmv[k] = dm[k]
      /\ \A k \in 1 .. bv : dmv[bd + bm + k] = v[k]
  <2>1. dmv \in Seq(S) /\ Joined(dm, v, dmv)
    BY <1>2, <1>5, Joining DEF dmv
  <2> QED BY <1>2, <1>5, <2>1 DEF Joined
<1>7. /\ dmv \o s \in Seq(S) /\ Len(dmv \o s) = Regs(f) + Len(s) /\ Len(s) \in Nat
      /\ \A k \in 1 .. Regs(f) : (dmv \o s)[k] = dmv[k]
      /\ \A k \in 1 .. Len(s) : (dmv \o s)[Regs(f) + k] = s[k]
  <2>1. dmv \o s \in Seq(S) /\ Joined(dmv, s, dmv \o s)
    BY <1>1, <1>6, Joining
  <2>2. Len(dmv) = Regs(f)
    BY <1>3, <1>6
  <2> QED BY <1>1, <2>1, <2>2 DEF Joined
<1>8. f.dout_valid => (dmv \o s)[1] = f.dout
  BY <1>2, <1>3, <1>5, <1>6, <1>7
<1>9. f.middle_valid => (dmv \o s)[bd + 1] = f.middle
  BY <1>2, <1>3, <1>5, <1>6, <1>7
<1>10. f.fifo_valid => (dmv \o s)[bd + bm + 1] = f.fifo_dout
  BY <1>2, <1>3, <1>5, <1>6, <1>7
<1> QED BY <1>4, <1>7, <1>8, <1>9, <1>10, Zenon DEF s, bd, bm

(* A cycle of a FIFO removes its oldest word if it is read and adds the    *)
(* word that is written; a word shows on the output if one is left in the  *)
(* registers, and one moves into them if there is room.                    *)
LEMMA FifoClockWords ==
    ASSUME NEW S, NEW f \in Fifo(S), NEW wr \in BOOLEAN, NEW din \in S, NEW rd \in BOOLEAN,
           rd => f.dout_valid
    PROVE  LET g == FifoClock(f, wr, din, rd)
           IN  /\ Len(Words(g)) = Len(Words(f)) - Bit(rd) + Bit(wr)
               /\ \A k \in 1 .. Len(Words(f)) - Bit(rd) : Words(g)[k] = Words(f)[k + Bit(rd)]
               /\ wr => Words(g)[Len(Words(f)) - Bit(rd) + 1] = din
               /\ Regs(g) = Regs(f) - Bit(rd) +
                     (IF Regs(f) < 3 /\ Regs(f) < Len(Words(f)) THEN 1 ELSE 0)
               /\ g.dout_valid <=> Regs(f) - Bit(rd) >= 1
<1> DEFINE g == FifoClock(f, wr, din, rd)
           s == f.fifo
           fetch == s # <<>> /\ ~(f.middle_valid /\ f.dout_valid /\ f.fifo_valid)
           t == IF fetch THEN Tail(s) ELSE s
           u == g.fifo
<1>1. /\ s \in Seq(S) /\ Len(s) \in Nat /\ (s = <<>> <=> Len(s) = 0)
      /\ f.fifo_valid \in BOOLEAN /\ f.middle_valid \in BOOLEAN /\ f.dout_valid \in BOOLEAN
  BY DEF Fifo
<1>2. u = t \o (IF wr THEN <<din>> ELSE <<>>)
  BY Zenon DEF FifoClock, FifoRdEn
<1>3. fetch => /\ Tail(s) \in Seq(S) /\ Len(Tail(s)) = Len(s) - 1 /\ Head(s) = s[1]
               /\ \A k \in 1 .. Len(s) - 1 : Tail(s)[k] = s[k + 1]
  BY <1>1
<1>4. g \in Fifo(S)
  BY FifoClockDepth
<1>5. LET up == (f.middle_valid \/ f.fifo_valid) /\ (rd \/ ~f.dout_valid)
          mid == f.fifo_valid /\ (f.middle_valid <=> up)
      IN  /\ g.fifo_dout = IF fetch THEN s[1] ELSE f.fifo_dout
          /\ g.middle = IF mid THEN f.fifo_dout ELSE f.middle
          /\ g.dout = IF ~up THEN f.dout ELSE IF f.middle_valid THEN f.middle ELSE f.fifo_dout
          /\ g.fifo_valid <=> fetch \/ (f.fifo_valid /\ ~mid /\ ~up)
          /\ g.middle_valid <=> mid \/ (f.middle_valid /\ ~up)
          /\ g.dout_valid <=> up \/ (f.dout_valid /\ ~rd)
  <2>1. fetch => Head(f.fifo) = s[1]
    BY <1>3
  <2> QED BY <1>1, <2>1, Zenon DEF FifoClock, WillUpdateDout, WillUpdateMiddle, FifoRdEn
<1> HIDE DEF fetch, s, u
<1>6. /\ t \in Seq(S) /\ Len(t) \in Nat
      /\ Len(t) = IF fetch THEN Len(s) - 1 ELSE Len(s)
      /\ \A k \in 1 .. Len(t) : t[k] = IF fetch THEN s[k + 1] ELSE s[k]
  BY <1>1, <1>3
<1> HIDE DEF t
<1>7. /\ Len(u) = IF wr THEN Len(t) + 1 ELSE Len(t)
      /\ \A k \in 1 .. Len(t) : u[k] = t[k]
      /\ wr => u[Len(t) + 1] = din
  <2>1. CASE wr
    <3>1. u = Append(t, din)
      BY <1>2, <1>6, <2>1
    <3> QED BY <1>6, <2>1, <3>1
  <2>2. CASE ~wr
    <3>1. u = t
      BY <1>2, <1>6, <2>2
    <3> QED BY <1>6, <2>2, <3>1
  <2> QED BY <2>1, <2>2
<1>8. fetch <=> Len(s) > 0 /\ ~(f.middle_valid /\ f.dout_valid /\ f.fifo_valid)
  BY <1>1 DEF fetch
<1> DEFINE a == Words(f)
           b == Words(g)
<1>9. /\ Len(a) = Regs(f) + Len(s)
      /\ \A k \in 1 .. Len(s) : a[Regs(f) + k] = s[k]
      /\ f.dout_valid => a[1] = f.dout
      /\ f.middle_valid => a[Bit(f.dout_valid) + 1] = f.middle
      /\ f.fifo_valid => a[Bit(f.dout_valid) + Bit(f.middle_valid) + 1] = f.fifo_dout
  BY WordsAt DEF s
<1>10. /\ Len(b) = Regs(g) + Len(u)
       /\ \A k \in 1 .. Len(u) : b[Regs(g) + k] = u[k]
       /\ g.dout_valid => b[1] = g.dout
       /\ g.middle_valid => b[Bit(g.dout_valid) + 1] = g.middle
       /\ g.fifo_valid => b[Bit(g.dout_valid) + Bit(g.middle_valid) + 1] = g.fifo_dout
  <2> HIDE DEF g
  <2> QED BY <1>4, WordsAt DEF u
<1> HIDE DEF a, b, g
<1>11. g.dout_valid <=> Regs(f) - Bit(rd) >= 1
  BY <1>1, <1>5 DEF Regs, Bit
<1>12. Regs(g) = Regs(f) - Bit(rd) + Bit(fetch)
  BY <1>1, <1>5, <1>8 DEF Regs, Bit
<1>13. fetch <=> Regs(f) < 3 /\ Regs(f) < Len(a)
  BY <1>1, <1>8, <1>9 DEF Regs, Bit
<1> DEFINE x == Regs(f)
           y == Regs(g)
           br == Bit(rd)
           bf == Bit(fetch)
           bw == Bit(wr)
<1>14. /\ x \in 0 .. 3 /\ y \in 0 .. 3 /\ br \in {0, 1} /\ bf \in {0, 1} /\ bw \in {0, 1}
       /\ y = x - br + bf /\ br <= x
       /\ (fetch <=> bf = 1) /\ (wr <=> bw = 1)
  BY <1>1, <1>12 DEF Regs, Bit
<1>15. \A k \in 1 .. y : k <= Len(a) - br => b[k] = a[k + br]
  <2>1. fetch => a[Regs(f) + 1] = s[1]
    BY <1>1, <1>8, <1>9
  <2>2. y \in 0 .. 3
    BY <1>14
  <2>3. 1 <= y => (1 <= Len(a) - br => b[1] = a[1 + br])
    BY <1>1, <1>5, <1>8, <1>9, <1>10, <2>1 DEF Bit, Regs
  <2>4. 2 <= y => (2 <= Len(a) - br => b[2] = a[2 + br])
    BY <1>1, <1>5, <1>8, <1>9, <1>10, <2>1 DEF Bit, Regs
  <2>5. 3 <= y => (3 <= Len(a) - br => b[3] = a[3 + br])
    BY <1>1, <1>5, <1>8, <1>9, <1>10, <2>1 DEF Bit, Regs
  <2> HIDE DEF y, br
  <2> QED BY <2>2, <2>3, <2>4, <2>5
<1> HIDE DEF x, y, br, bf, bw
<1>16. /\ Len(a) = x + Len(s) /\ Len(b) = y + Len(u) /\ Len(u) = Len(t) + bw
       /\ Len(t) = Len(s) - bf /\ Len(s) \in Nat /\ Len(t) \in Nat
       /\ \A k \in 1 .. Len(t) : t[k] = s[k + bf] /\ u[k] = t[k]
       /\ \A k \in 1 .. Len(s) : a[x + k] = s[k]
       /\ \A k \in 1 .. Len(u) : b[y + k] = u[k]
  <2>1. /\ Len(a) = x + Len(s) /\ Len(b) = y + Len(u)
        /\ \A k \in 1 .. Len(s) : a[x + k] = s[k]
        /\ \A k \in 1 .. Len(u) : b[y + k] = u[k]
    BY <1>9, <1>10 DEF x, y
  <2> QED BY <1>1, <1>6, <1>7, <1>14, <2>1
<1>17. Len(b) = Len(a) - br + bw
  <2>1. Len(b) = (x - br + bf) + ((Len(s) - bf) + bw) /\ Len(a) = x + Len(s)
    BY <1>14, <1>16, Zenon
  <2>2. x \in Int /\ br \in Int /\ bf \in Int /\ bw \in Int /\ Len(s) \in Int
    BY <1>14, <1>16
  <2> QED BY <2>1, <2>2
<1>18. \A k \in 1 .. Len(a) - br : b[k] = a[k + br]
  <2> SUFFICES ASSUME NEW k \in 1 .. Len(a) - br PROVE b[k] = a[k + br]
    OBVIOUS
  <2>1. CASE k > y
    <3> DEFINE j == k - y
    <3>1. j \in 1 .. Len(t) /\ k = y + j /\ k + br = x + (j + bf)
      BY <1>14, <1>16, <2>1
    <3> HIDE DEF j
    <3>2. j \in 1 .. Len(u) /\ j + bf \in 1 .. Len(s)
      BY <1>14, <1>16, <3>1
    <3>3. b[y + j] = t[j] /\ a[x + (j + bf)] = t[j]
      BY <1>16, <3>1, <3>2
    <3> QED BY <3>1, <3>3
  <2>2. CASE k <= y
    BY <1>15, <2>2
  <2> QED BY <1>14, <1>16, <2>1, <2>2
<1>19. wr => b[Len(a) - br + 1] = din
  <2> SUFFICES ASSUME wr PROVE b[Len(a) - br + 1] = din
    OBVIOUS
  <2>1. Len(a) - br + 1 = y + (Len(t) + 1) /\ Len(t) + 1 \in 1 .. Len(u)
    <3>1. /\ Len(a) = x + Len(s) /\ Len(u) = Len(t) + bw /\ Len(t) = Len(s) - bf
          /\ Len(s) \in Nat /\ Len(t) \in Nat
      BY <1>16, Zenon
    <3> QED BY <1>14, <3>1, SMTT(30)
  <2>2. b[y + (Len(t) + 1)] = u[Len(t) + 1]
    BY <1>16, <2>1
  <2> QED BY <1>7, <2>1, <2>2
<1>20. y = x - br + IF x < 3 /\ x < Len(a) THEN 1 ELSE 0
  BY <1>13, <1>14 DEF x
<1> QED BY <1>11, <1>17, <1>18, <1>19, <1>20 DEF a, b, g, x, y, br, bw

-----------------------------------------------------------------------------
(* The registers hold values, and no word has been hidden for more than    *)
(* two cycles: two while it is in a register behind the output, one while  *)
(* it is in the buffer alone.                                              *)
FallInv ==
    /\ IInv
    /\ middle_dout \in Values /\ out \in Values
    /\ fifo_valid \in BOOLEAN /\ middle_valid \in BOOLEAN /\ dout_valid \in BOOLEAN
    /\ hidden \in 0 .. 2
    /\ dout_valid \/ Words(Fall!State) = <<>> => hidden = 0
    /\ Regs(Fall!State) = 0 => hidden <= 1

(* The circuit as a FIFO of FifoOps.                                       *)
LEMMA FallState ==
    Fall!State = [fifo |-> Contents, fifo_dout |-> dout, fifo_valid |-> fifo_valid,
                  middle |-> middle_dout, middle_valid |-> middle_valid,
                  dout |-> out, dout_valid |-> dout_valid]
BY DEF Fall!State, Fall!fifo!Contents, Contents

(* A cycle of the circuit keeps to the rules of small_fifo.v, and is a     *)
(* cycle of FifoOps.                                                       *)
LEMMA FallClock ==
    ASSUME FallInv, NEW wr_en \in BOOLEAN, NEW rd_en \in BOOLEAN, NEW din \in Values,
           wr_en => ~full, Fall!Clock(wr_en, din, rd_en)
    PROVE  /\ IInv' /\ Fall!State \in Fifo(Values)
           /\ Fall!State' = FifoClock(Fall!State, wr_en, din, rd_en)
           /\ Depth(Fall!State') <= MAX_DEPTH
<1> DEFINE f == Fall!State
           fetch == FifoRdEn(f)
           s == IF fetch THEN Tail(Contents) ELSE Contents
<1>1. Contents \in Seq(Values) /\ Len(Contents) = depth
  <2>1. IInv /\ depth \in Nat /\ rd_ptr \in 0 .. MAX_DEPTH - 1 /\ depth \in 0 .. MAX_DEPTH
        /\ queue \in [0 .. MAX_DEPTH - 1 -> Values] /\ MAX_DEPTH \in Nat \ {0}
    BY FifoAssumption DEF FallInv, IInv, TypeOK
  <2>2. ASSUME NEW k \in 1 .. depth PROVE Contents[k] \in Values
    <3>1. k - 1 \in 0 .. MAX_DEPTH /\ rd_ptr + k - 1 = rd_ptr + (k - 1)
      BY <2>1
    <3>2. Slot(rd_ptr, k - 1) \in 0 .. MAX_DEPTH - 1
      BY <2>1, <3>1, SlotValue, Zenon
    <3> QED
      BY <2>1, <3>1, <3>2 DEF Contents, Slot
  <2>3. Contents = [k \in 1 .. depth |-> Contents[k]]
    BY DEF Contents
  <2> QED
    BY <2>1, <2>2, <2>3, FunctionIsSeq
<1>2. fetch \in BOOLEAN
      /\ (fetch <=> depth # 0 /\ ~(middle_valid /\ dout_valid /\ fifo_valid))
  BY <1>1, FallState DEF FifoRdEn
<1>3. /\ Clock(wr_en, din, fetch)
      /\ fetch => ~empty
      /\ wr_en => ~full \/ fetch
  <2>1. Fall!fifo_rd_en <=> fetch
    BY <1>2 DEF Fall!fifo_rd_en, Fall!fifo!empty
  <2>2. Fall!fifo_rd_en = fetch
    BY <1>2, <2>1 DEF Fall!fifo_rd_en
  <2>3. Fall!fifo!Clock(wr_en, din, fetch)
    BY <2>2 DEF Fall!Clock
  <2> HIDE DEF fetch
  <2>4. Clock(wr_en, din, fetch)
    BY <2>3, Zenon DEF Fall!fifo!Clock, Fall!fifo!Pointer, Fall!fifo!DepthClock, Clock, Pointer,
                DepthClock
  <2> QED
    BY <1>2, <2>4 DEF empty
<1> HIDE DEF fetch
<1>4. IInv /\ IInv'
  BY <1>2, <1>3, ClockPreserves DEF FallInv
<1>5. /\ s \in Seq(Values) /\ Contents' = IF wr_en THEN Append(s, din) ELSE s
      /\ Len(Contents') <= MAX_DEPTH /\ (fetch => Contents # <<>>)
  BY <1>2, <1>3, <1>4, ContentsAfter
<1>6. Contents' = s \o (IF wr_en THEN <<din>> ELSE <<>>)
  <2> HIDE DEF s
  <2>1. s \o <<din>> = Append(s, din) /\ s \o <<>> = s
    BY <1>5
  <2> QED
    BY <1>5, <2>1
<1>7. dout' = IF fetch THEN Head(Contents) ELSE dout
  <2>1. fetch => Head(Contents) = queue[rd_ptr]
    <3> SUFFICES ASSUME fetch PROVE Head(Contents) = queue[rd_ptr]
      OBVIOUS
    <3>1. depth # 0 /\ depth \in 0 .. MAX_DEPTH /\ MAX_DEPTH \in Nat \ {0}
          /\ rd_ptr \in 0 .. MAX_DEPTH - 1
      BY <1>2, <1>4, FifoAssumption DEF IInv, TypeOK
    <3>2. 1 \in 1 .. depth /\ rd_ptr + 1 - 1 = rd_ptr + 0 /\ 0 \in 0 .. MAX_DEPTH
      BY <3>1
    <3>3. Contents[1] = queue[Slot(rd_ptr, 0)]
      BY <3>2 DEF Contents, Slot
    <3>4. Slot(rd_ptr, 0) = rd_ptr
      BY <3>1, <3>2, SlotValue
    <3>5. Head(Contents) = Contents[1]
      BY <1>1
    <3> QED
      BY <3>3, <3>4, <3>5
  <2> QED
    BY <1>3, <2>1 DEF Clock
<1>8. f \in Fifo(Values)
  BY <1>1, <1>4, FallState DEF FallInv, IInv, TypeOK, Fifo
<1>9. f' = FifoClock(f, wr_en, din, rd_en)
  <2>1. f' = [fifo |-> Contents', fifo_dout |-> dout', fifo_valid |-> fifo_valid',
              middle |-> middle_dout', middle_valid |-> middle_valid',
              dout |-> out', dout_valid |-> dout_valid']
    BY DEF Fall!State, Fall!fifo!Contents, Contents
  <2>2. Fall!Registers(rd_en) /\ Fall!fifo_rd_en = fetch
    BY <1>2 DEF Fall!Clock, Fall!fifo_rd_en, Fall!fifo!empty
  <2>3. /\ WillUpdateDout(f, rd_en) = Fall!will_update_dout(rd_en)
        /\ WillUpdateMiddle(f, rd_en) = Fall!will_update_middle(rd_en)
    BY FallState, Zenon DEF WillUpdateDout, WillUpdateMiddle, Fall!will_update_dout, Fall!will_update_middle
  <2>4. /\ f.fifo = Contents /\ f.fifo_dout = dout /\ f.fifo_valid = fifo_valid
        /\ f.middle = middle_dout /\ f.middle_valid = middle_valid
        /\ f.dout = out /\ f.dout_valid = dout_valid
    BY FallState
  <2> HIDE DEF f
  <2> QED
    BY <1>6, <1>7, <2>1, <2>2, <2>3, <2>4, Zenon DEF FifoClock, Fall!Registers, fetch
<1>10. Depth(f') = Len(Contents')
  BY Zenon DEF Depth, Fall!State, Fall!fifo!Contents, Contents
<1> QED
  BY <1>4, <1>5, <1>8, <1>9, <1>10

(* What a cycle does to the words in the circuit, its registers and the    *)
(* count of the cycles for which a word has been hidden.                   *)
LEMMA FallWords ==
    ASSUME FallInv, NEW wr_en \in BOOLEAN, NEW rd_en \in BOOLEAN, NEW din \in Values,
           wr_en => ~full, rd_en => dout_valid, Fall!Clock(wr_en, din, rd_en)
    PROVE  LET a == Words(Fall!State)
               r == IF rd_en THEN Tail(a) ELSE a
           IN  /\ FallInv'
               /\ rd_en => a # <<>>
               /\ Words(Fall!State') = IF wr_en THEN Append(r, din) ELSE r
               /\ Len(Words(Fall!State')) <= MAX_DEPTH + 3
<1> DEFINE f == Fall!State
           g == FifoClock(f, wr_en, din, rd_en)
           a == Words(f)
           b == Words(g)
           r == IF rd_en THEN Tail(a) ELSE a
           t == IF wr_en THEN Append(r, din) ELSE r
<1>1. IInv' /\ f \in Fifo(Values) /\ f' = g /\ Depth(f') <= MAX_DEPTH
  BY FallClock
<1>2. f.dout_valid = dout_valid /\ f'.dout_valid = dout_valid' /\ dout_valid \in BOOLEAN
  BY FallState DEF Fall!State, FallInv
<1> HIDE DEF f
<1>3. g \in Fifo(Values)
  BY <1>1, FifoClockDepth
<1>4. /\ Len(b) = Len(a) - Bit(rd_en) + Bit(wr_en)
      /\ \A k \in 1 .. Len(a) - Bit(rd_en) : b[k] = a[k + Bit(rd_en)]
      /\ wr_en => b[Len(a) - Bit(rd_en) + 1] = din
      /\ Regs(g) = Regs(f) - Bit(rd_en) +
            (IF Regs(f) < 3 /\ Regs(f) < Len(a) THEN 1 ELSE 0)
      /\ g.dout_valid <=> Regs(f) - Bit(rd_en) >= 1
  <2>1. rd_en => f.dout_valid
    BY <1>2
  <2> QED
    BY <1>1, <2>1, FifoClockWords
<1>5. /\ a \in Seq(Values) /\ Len(a) = Regs(f) + Len(f.fifo) /\ Len(f.fifo) \in Nat
      /\ b \in Seq(Values) /\ Len(b) = Regs(g) + Len(g.fifo) /\ Len(g.fifo) \in Nat
  <2> HIDE DEF g
  <2> QED
    BY <1>1, <1>3, WordsAt
<1>6. /\ Regs(f) \in 0 .. 3 /\ Regs(g) \in 0 .. 3 /\ (dout_valid => Regs(f) >= 1)
      /\ Bit(rd_en) = (IF rd_en THEN 1 ELSE 0) /\ Bit(wr_en) = (IF wr_en THEN 1 ELSE 0)
  BY <1>2 DEF Regs, Bit
<1> HIDE DEF g, a, b
<1>7. rd_en => a # <<>> /\ Len(a) >= 1
  BY <1>5, <1>6
<1>8. b = t
  <2> DEFINE n == Len(a) - Bit(rd_en)
  <2>1. /\ r \in Seq(Values) /\ Len(r) = n /\ n \in Nat
        /\ \A k \in 1 .. n : r[k] = a[k + Bit(rd_en)]
    <3>1. CASE rd_en
      BY <1>5, <1>6, <1>7, <3>1
    <3>2. CASE ~rd_en
      BY <1>5, <1>6, <3>2
    <3> QED
      BY <3>1, <3>2
  <2> HIDE DEF r
  <2>2. \A k \in 1 .. n : b[k] = r[k]
    BY <1>4, <2>1
  <2>3. (wr_en => Len(b) = n + 1 /\ b[n + 1] = din) /\ (~wr_en => Len(b) = n)
    BY <1>4, <1>6, <2>1
  <2> HIDE DEF n
  <2>4. /\ t \in Seq(Values) /\ Len(t) = Len(b)
        /\ \A k \in 1 .. n : t[k] = r[k]
        /\ wr_en => t[n + 1] = din
    BY <2>1, <2>3
  <2> HIDE DEF t
  <2>5. \A k \in 1 .. Len(b) : b[k] = t[k]
    BY <2>1, <2>2, <2>3, <2>4
  <2> QED
    BY <1>5, <2>4, <2>5, SameElements
<1>9. Len(b) <= MAX_DEPTH + 3
  BY <1>1, <1>5, <1>6, FifoAssumption DEF Depth
<1>10. /\ hidden \in 0 .. 2 /\ (dout_valid \/ a = <<>> => hidden = 0)
       /\ Regs(f) = 0 => hidden <= 1
  BY DEF FallInv, f, a
<1>11. hidden' = IF ~dout_valid' /\ b # <<>> THEN hidden + 1 ELSE 0
  <2>1. Fall!Ops!Words(Fall!State)' = Words(Fall!State')
    BY DEF Fall!Ops!Words, Words
  <2>2. Words(Fall!State') = b
    BY <1>1 DEF f, b
  <2> QED
    BY <2>1, <2>2 DEF Fall!Clock
<1>12. dout_valid' <=> Regs(f) - Bit(rd_en) >= 1
  BY <1>1, <1>2, <1>4
<1>13. /\ hidden' \in 0 .. 2 /\ (dout_valid' \/ b = <<>> => hidden' = 0)
       /\ Regs(g) = 0 => hidden' <= 1
  <2>1. CASE dout_valid' \/ b = <<>>
    BY <1>11, <2>1
  <2>2. CASE ~dout_valid' /\ b # <<>>
    <3>1. hidden' = hidden + 1 /\ Regs(f) - Bit(rd_en) < 1
      BY <1>6, <1>11, <1>12, <2>2
    <3>2. hidden <= 1
      BY <1>6, <1>10, <3>1
    <3>3. Regs(g) = 0 => hidden = 0
      <4> SUFFICES ASSUME Regs(g) = 0, ~dout_valid PROVE a = <<>>
        BY <1>10
      <4>1. ~rd_en /\ Regs(f) = 0
        BY <1>6, <3>1
      <4>2. ~(0 < Len(a))
        BY <1>4, <1>5, <1>6, <4>1
      <4> QED
        BY <1>5, <4>2
    <3> QED
      BY <1>10, <2>2, <3>1, <3>2, <3>3
  <2> QED
    BY <2>1, <2>2
<1>14. /\ middle_dout' \in Values /\ out' \in Values
       /\ fifo_valid' \in BOOLEAN /\ middle_valid' \in BOOLEAN /\ dout_valid' \in BOOLEAN
  <2>1. f' \in Fifo(Values)
    BY <1>1, <1>3
  <2> QED
    BY <2>1 DEF f, Fall!State, Fifo
<1>15. FallInv'
  <2>1. Words(Fall!State)' = b /\ Regs(Fall!State)' = Regs(g)
    <3>1. Fall!State' = g
      BY <1>1 DEF f
    <3>2. Words(Fall!State)' = Words(Fall!State') /\ Regs(Fall!State)' = Regs(Fall!State')
      BY DEF Words, Regs, Bit
    <3> QED
      BY <3>1, <3>2 DEF b
  <2> QED
    BY <1>1, <1>13, <1>14, <2>1 DEF FallInv
<1> QED
  BY <1>1, <1>7, <1>8, <1>9, <1>15 DEF f, a, b

(* A step of the circuit, for a user that writes only when there is room   *)
(* and reads only when empty is low.                                       *)
LEMMA FallStep ==
    ASSUME FallInv, [Fall!Next]_Fall!vars
    PROVE  /\ FallInv' /\ [Fall!StepIsFifoClock]_Fall!vars
           /\ [Fall!Queue!Next]_(Fall!Ops!Words(Fall!State))
<1>1. CASE UNCHANGED Fall!vars
  <2>1. /\ queue' = queue /\ rd_ptr' = rd_ptr /\ wr_ptr' = wr_ptr /\ depth' = depth
        /\ dout' = dout /\ fifo_valid' = fifo_valid /\ middle_valid' = middle_valid
        /\ dout_valid' = dout_valid /\ middle_dout' = middle_dout /\ out' = out
        /\ hidden' = hidden
    BY <1>1 DEF Fall!vars
  <2>2. Fall!State' = Fall!State
    BY <2>1 DEF Fall!State, Fall!fifo!Contents
  <2>3. IInv'
    BY <2>1 DEF FallInv, IInv, TypeOK, DepthMatchesPointers
  <2>4. FallInv'
    <3>1. Words(Fall!State)' = Words(Fall!State) /\ Regs(Fall!State)' = Regs(Fall!State)
      BY <2>2 DEF Words, Regs, Bit
    <3> QED
      BY <2>1, <2>3, <3>1 DEF FallInv
  <2>5. Fall!Ops!Words(Fall!State)' = Fall!Ops!Words(Fall!State)
    BY <2>2 DEF Fall!Ops!Words
  <2> QED
    BY <1>1, <2>4, <2>5
<1>2. CASE Fall!Next
  <2>1. PICK wr_en \in BOOLEAN, rd_en \in BOOLEAN, din \in Values :
          /\ wr_en => ~full
          /\ rd_en => dout_valid
          /\ Fall!Clock(wr_en, din, rd_en)
    BY <1>2 DEF Fall!Next, Fall!fifo!full, Fall!empty, full
  <2> DEFINE a == Words(Fall!State)
             b == Words(Fall!State')
             r == IF rd_en THEN Tail(a) ELSE a
  <2>2. /\ FallInv' /\ (rd_en => a # <<>>)
        /\ b = IF wr_en THEN Append(r, din) ELSE r
        /\ Len(b) <= MAX_DEPTH + 3
    BY <2>1, FallWords
  <2>3. Fall!StepIsFifoClock
    <3>1. Fall!State' = FifoClock(Fall!State, wr_en, din, rd_en)
      BY <2>1, FallClock
    <3>2. Fall!Ops!FifoClock(Fall!State, wr_en, din, rd_en)
            = FifoClock(Fall!State, wr_en, din, rd_en)
      BY Zenon DEF Fall!Ops!FifoClock, FifoClock, Fall!Ops!WillUpdateDout, WillUpdateDout,
             Fall!Ops!WillUpdateMiddle, WillUpdateMiddle, Fall!Ops!FifoRdEn, FifoRdEn
    <3> QED
      BY <3>1, <3>2, Zenon DEF Fall!StepIsFifoClock
  <2>4. Fall!Ops!Words(Fall!State) = a /\ Fall!Ops!Words(Fall!State)' = b
    BY DEF Fall!Ops!Words, Words
  <2> HIDE DEF a, b
  <2>5. [Fall!Queue!Next]_(Fall!Ops!Words(Fall!State))
    BY <2>2, <2>4 DEF Fall!Queue!Next, Fall!Queue!Put, Fall!Queue!Get, Fall!Queue!PutGet
  <2> QED
    BY <2>2, <2>3, <2>5
<1> QED
  BY <1>1, <1>2

(* For every depth, fallthrough_small_fifo.v implements the bounded queue  *)
(* of MAX_DEPTH + 3 words: across the circular buffer and the three        *)
(* registers no word is lost, doubled or overtaken.  Each of its cycles is *)
(* the one of FifoOps, the form in which the modules of the datapath use   *)
(* it, and a word it holds is on its output within two cycles.             *)
THEOREM FallthroughImplementsQueue ==
    Fall!Spec => /\ Fall!Queue!Spec
                 /\ [][Fall!StepIsFifoClock]_Fall!vars
                 /\ [](hidden <= 2)
<1>1. Fall!Init => FallInv /\ Fall!Queue!Init
  <2> SUFFICES ASSUME Fall!Init PROVE FallInv /\ Fall!Queue!Init
    OBVIOUS
  <2>1. Init
    BY DEF Fall!Init, Fall!fifo!Init, Init
  <2>2. IInv
    BY <2>1, InitIInv
  <2>3. Contents = <<>>
    BY <2>1 DEF Init, Contents
  <2>4. /\ fifo_valid = FALSE /\ middle_valid = FALSE /\ dout_valid = FALSE /\ hidden = 0
        /\ out = (CHOOSE v \in Values : TRUE) /\ middle_dout = out
    BY DEF Fall!Init
  <2>5. Words(Fall!State) = <<>>
    BY <2>3, <2>4, FallState DEF Words
  <2>6. out \in Values
    BY <2>4, FifoAssumption
  <2>7. FallInv
    <3>1. fifo_valid \in BOOLEAN /\ middle_valid \in BOOLEAN /\ dout_valid \in BOOLEAN
          /\ middle_dout \in Values
      BY <2>4, <2>6, Zenon
    <3>2. hidden \in 0 .. 2 /\ hidden <= 1 /\ hidden = 0
      BY <2>4
    <3> QED
      BY <2>2, <2>6, <3>1, <3>2, Zenon DEF FallInv
  <2>8. Fall!Ops!Words(Fall!State) = Words(Fall!State)
    BY DEF Fall!Ops!Words, Words
  <2> QED
    BY <2>5, <2>7, <2>8 DEF Fall!Queue!Init
<1>2. FallInv /\ [Fall!Next]_Fall!vars =>
        /\ FallInv' /\ [Fall!StepIsFifoClock]_Fall!vars
        /\ [Fall!Queue!Next]_(Fall!Ops!Words(Fall!State))
  BY FallStep
<1>3. FallInv => hidden <= 2
  BY DEF FallInv
<1> QED
  BY <1>1, <1>2, <1>3, PTL DEF Fall!Spec, Fall!Queue!Spec
=============================================================================
