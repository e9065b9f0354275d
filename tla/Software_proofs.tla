-------------------------- MODULE Software_proofs --------------------------
(***************************************************************************)
(* Two programs.  The mailbox of the lwip port, for any number of posting    *)
(* threads, every pool and every ring larger than the pool: it is a queue    *)
(* and no wake-up is lost (SysMbox).  The router kit's daemon, for every      *)
(* size of the tables: no packet meets rows of two tables, and the hardware   *)
(* shows the monitor's copy (RouterKit).                                     *)
(***************************************************************************)
EXTENDS SysMbox, FiniteSetTheorems, TLAPS

N == SYS_MBOX_SIZE
Message == Posters \X Nat
Waiting == Len(posted) - Len(fetched)
Slot(f, i) == (f + i) % N

(* The types of the variables.                                               *)
TypeOK ==
    /\ first \in 0 .. N - 1 /\ last \in 0 .. N - 1
    /\ msgs \in [0 .. N - 1 -> Message \cup {NoMsg}]
    /\ mail \in {0, 1} /\ mutex \in {0, 1}
    /\ ppc \in [Posters -> {"idle", "put", "unlock"}] /\ count \in [Posters -> Nat]
    /\ fpc \in {"fetch", "test", "wait", "woken", "retest"}
    /\ posted \in Seq(Message) /\ fetched \in Seq(Message)

Holds(p) == ppc[p] # "idle"
FetcherHolds == fpc \in {"test", "retest"}

(* The semaphore is a mutex.                                                 *)
Exclusive ==
    /\ \A p \in Posters : Holds(p) => mutex = 0 /\ ~FetcherHolds
    /\ FetcherHolds => mutex = 0
    /\ \A p, q \in Posters : Holds(p) /\ Holds(q) => p = q

(* There are never more messages than the pool has, with the one a poster is    *)
(* about to put.                                                             *)
Bounded ==
    /\ Waiting \in 0 .. MEMP_NUM
    /\ \A p \in Posters : ppc[p] = "put" => Waiting < MEMP_NUM

(* The ring, by the places of the messages.                                   *)
Ring ==
    /\ last = Slot(first, Waiting)
    /\ \A i \in 0 .. Waiting - 1 : msgs[Slot(first, i)] = posted[Len(fetched) + 1 + i]

(* The inductive invariant.                                                  *)
IInv == TypeOK /\ Exclusive /\ Bounded /\ Ring /\ NoLostMail

-----------------------------------------------------------------------------
(* A place is found with one conditional subtraction.                         *)
LEMMA SlotValue ==
    ASSUME RingFitsPool, NEW f \in 0 .. N - 1, NEW i \in 0 .. N
    PROVE  /\ Slot(f, i) = IF f + i < N THEN f + i ELSE f + i - N
           /\ Slot(f, i) \in 0 .. N - 1
<1>1. N \in Nat \ {0}
  BY DEF RingFitsPool, N
<1>2. ASSUME NEW n \in Nat \ {0}, NEW x \in 0 .. 2 * n - 1
      PROVE  x % n = IF x < n THEN x ELSE x - n
  <2>1. CASE x < n
    BY <2>1, SMT
  <2>2. CASE x >= n
    BY <2>2, SMT
  <2> QED BY <2>1, <2>2
<1>3. PICK x \in 0 .. 2 * N - 1 : x = f + i
  BY <1>1
<1>4. x % N = IF x < N THEN x ELSE x - N
  BY <1>1, <1>2, Zenon
<1> QED BY <1>1, <1>3, <1>4 DEF Slot

(* Two messages are in two places, and after a fetch each is one place nearer.  *)
LEMMA SlotsApart ==
    ASSUME RingFitsPool, NEW f \in 0 .. N - 1, NEW i \in Nat, NEW k \in Nat, i < k, k < N
    PROVE  Slot(f, i) # Slot(f, k)
<1>1. N \in Nat /\ i \in 0 .. N /\ k \in 0 .. N
  BY DEF RingFitsPool, N
<1>2. /\ Slot(f, i) = IF f + i < N THEN f + i ELSE f + i - N
      /\ Slot(f, k) = IF f + k < N THEN f + k ELSE f + k - N
  BY <1>1, SlotValue
<1> QED BY <1>1, <1>2

LEMMA SlotNearer ==
    ASSUME RingFitsPool, NEW f \in 0 .. N - 1, NEW i \in Nat, i < N
    PROVE  Advance(f) \in 0 .. N - 1 /\ Slot(Advance(f), i) = Slot(f, i + 1)
<1>1. N \in Nat /\ i \in 0 .. N /\ i + 1 \in 0 .. N /\ 1 \in 0 .. N
  BY DEF RingFitsPool, N
<1>2. Advance(f) = Slot(f, 1)
  BY DEF Advance, Slot, N
<1>3. /\ Advance(f) \in 0 .. N - 1
      /\ Advance(f) = IF f + 1 < N THEN f + 1 ELSE f + 1 - N
  BY <1>1, <1>2, SlotValue, Zenon
<1>4. Slot(Advance(f), i) = IF Advance(f) + i < N THEN Advance(f) + i ELSE Advance(f) + i - N
  BY <1>1, <1>3, SlotValue, Zenon
<1>5. Slot(f, i + 1) = IF f + (i + 1) < N THEN f + (i + 1) ELSE f + (i + 1) - N
  BY <1>1, SlotValue, Zenon
<1> QED BY <1>1, <1>3, <1>4, <1>5

-----------------------------------------------------------------------------
(* sys_mbox_post.  The pool admits the message while nobody else has the mutex. *)
LEMMA PostLockStep ==
    ASSUME RingFitsPool, IInv, NEW p \in Posters, PostLock(p)
    PROVE  IInv'
<1> USE DEF IInv, PostLock
<1>1. {q \in Posters : ppc[q] # "idle"} = {}
  BY DEF Exclusive, Holds
<1>2. Waiting < MEMP_NUM
  <2>1. Cardinality({q \in Posters : ppc[q] # "idle"}) = 0
    BY <1>1, FS_EmptySet
  <2>2. Len(posted) \in Nat /\ Len(fetched) \in Nat
    BY DEF TypeOK
  <2> QED BY <2>1, <2>2 DEF Allocated, Waiting
<1>3. TypeOK'
  BY DEF TypeOK
<1>4. Exclusive'
  BY DEF Exclusive, Holds, FetcherHolds, TypeOK
<1>5. Bounded'
  BY <1>2 DEF Bounded, Waiting, TypeOK
<1>6. Ring' /\ NoLostMail'
  BY DEF Ring, Slot, Waiting, NoLostMail
<1> QED BY <1>3, <1>4, <1>5, <1>6

(* The message goes to the first place that is free, and the fetching thread,   *)
(* if it sleeps, is signalled by the first message.                          *)
LEMMA PostPutStep ==
    ASSUME RingFitsPool, IInv, NEW p \in Posters, PostPut(p)
    PROVE  IInv'
<1> DEFINE m == <<p, count[p]>>
<1>1. m \in Message /\ TypeOK /\ N \in Nat \ {0} /\ MEMP_NUM \in Nat /\ MEMP_NUM < N
  BY DEF IInv, TypeOK, Message, RingFitsPool, N
<1> HIDE DEF m
<1>2. /\ msgs' = [msgs EXCEPT ![last] = m] /\ posted' = Append(posted, m)
      /\ last' = Advance(last) /\ ppc' = [ppc EXCEPT ![p] = "unlock"]
      /\ UNCHANGED <<first, mutex, count, fpc, fetched>>
  BY DEF PostPut, m
<1>3. /\ posted' \in Seq(Message) /\ Len(posted') = Len(posted) + 1
      /\ \A i \in 1 .. Len(posted) : posted'[i] = posted[i]
      /\ posted'[Len(posted) + 1] = m
      /\ Len(posted) \in Nat /\ Len(fetched) \in Nat
  BY <1>1, <1>2 DEF TypeOK
<1>4. Waiting \in Nat /\ Waiting < MEMP_NUM /\ Waiting' = Waiting + 1
  BY <1>1, <1>2, <1>3 DEF IInv, Bounded, Waiting, PostPut
<1>5. last' \in 0 .. N - 1 /\ last' = Slot(first, Waiting + 1)
  <2>1. last = Slot(first, Waiting)
    BY DEF IInv, Ring
  <2>2. Advance(last) = Slot(last, 1) /\ 1 \in 0 .. N
    BY <1>1 DEF Advance, Slot, N
  <2>3. /\ Slot(first, Waiting) = IF first + Waiting < N THEN first + Waiting
                                   ELSE first + Waiting - N
        /\ Slot(first, Waiting + 1) = IF first + (Waiting + 1) < N THEN first + (Waiting + 1)
                                       ELSE first + (Waiting + 1) - N
        /\ Slot(last, 1) = (IF last + 1 < N THEN last + 1 ELSE last + 1 - N)
        /\ Slot(last, 1) \in 0 .. N - 1
    <3>1. first \in 0 .. N - 1 /\ last \in 0 .. N - 1 /\ Waiting \in 0 .. N
          /\ Waiting + 1 \in 0 .. N
      BY <1>1, <1>4 DEF TypeOK
    <3> HIDE DEF Waiting
    <3> QED BY <2>2, <3>1, SlotValue
  <2> QED BY <1>1, <1>2, <1>4, <2>1, <2>2, <2>3 DEF TypeOK
<1>6. TypeOK'
  BY <1>1, <1>2, <1>3, <1>5 DEF TypeOK, PostPut, MailAfterPost, Signalled
<1>7. Exclusive'
  BY <1>1, <1>2 DEF IInv, Exclusive, Holds, FetcherHolds, PostPut, TypeOK
<1>8. Bounded'
  <2>1. \A q \in Posters : ppc'[q] # "put"
    BY <1>1, <1>2, Zenon DEF IInv, Exclusive, Holds, PostPut, TypeOK
  <2> QED BY <1>1, <1>4, <2>1 DEF Bounded
<1>9. Ring'
  <2>1. ASSUME NEW i \in 0 .. Waiting' - 1
        PROVE  msgs'[Slot(first, i)] = posted'[Len(fetched) + 1 + i]
    <3>1. CASE i < Waiting
      <4>1. Slot(first, i) # last /\ Slot(first, i) \in 0 .. N - 1
        <5>1. first \in 0 .. N - 1 /\ i \in Nat /\ i \in 0 .. N /\ Waiting < N
          BY <1>1, <1>4, <3>1 DEF TypeOK
        <5>2. Slot(first, i) # Slot(first, Waiting)
          BY <1>4, <3>1, <5>1, SlotsApart
        <5> QED BY <5>1, <5>2, SlotValue DEF IInv, Ring
      <4>2. msgs'[Slot(first, i)] = msgs[Slot(first, i)]
        BY <1>1, <1>2, <4>1 DEF TypeOK
      <4>3. msgs[Slot(first, i)] = posted[Len(fetched) + 1 + i]
        BY <1>4, <3>1 DEF IInv, Ring
      <4>4. Len(fetched) + 1 + i \in 1 .. Len(posted)
        BY <1>3, <1>4, <3>1 DEF Waiting
      <4> QED BY <1>3, <4>2, <4>3, <4>4
    <3>2. CASE i = Waiting
      <4>1. Slot(first, i) = last /\ msgs'[last] = m
        BY <1>1, <1>2, <3>2 DEF IInv, Ring, TypeOK
      <4>2. Len(fetched) + 1 + i = Len(posted) + 1
        BY <1>3, <3>2 DEF Waiting
      <4> QED BY <1>3, <4>1, <4>2
    <3> QED BY <1>4, <3>1, <3>2
  <2>2. first' = first /\ fetched' = fetched
    BY <1>2
  <2>3. last' = Slot(first', Waiting')
    BY <1>4, <1>5, <2>2
  <2>4. \A i \in 0 .. Waiting' - 1 : msgs'[Slot(first', i)] = posted'[Len(fetched') + 1 + i]
    BY <2>1, <2>2
  <2> QED BY <2>3, <2>4 DEF Ring, Slot
<1>10. NoLostMail'
  BY <1>2 DEF IInv, NoLostMail, PostPut, MailAfterPost, Signalled
<1> QED BY <1>6, <1>7, <1>8, <1>9, <1>10 DEF IInv

(* sys_arch_mbox_fetch: the oldest message leaves, and the others move up.      *)
LEMMA FetchTakeStep ==
    ASSUME RingFitsPool, IInv, NEW waited, FetchTake(waited)
    PROVE  IInv'
<1>1. TypeOK /\ N \in Nat \ {0} /\ MEMP_NUM \in Nat /\ MEMP_NUM < N
  BY DEF IInv, RingFitsPool, N
<1>2. /\ fetched' = Append(fetched, msgs[first]) /\ first' = Advance(first)
      /\ fpc' = "fetch" /\ mutex' = 1
      /\ UNCHANGED <<last, msgs, mail, ppc, count, posted>>
  BY DEF FetchTake, Signalled
<1>3. Len(posted) \in Nat /\ Len(fetched) \in Nat /\ Waiting \in 0 .. MEMP_NUM
  BY <1>1 DEF TypeOK, IInv, Bounded
<1>4. Waiting > 0
  <2>1. Slot(first, 0) = first
    BY <1>1, SlotValue DEF TypeOK
  <2>2. Waiting # 0
    BY <2>1 DEF IInv, Ring, FetchTake
  <2> QED BY <1>3, <2>2
<1>5. msgs[first] = posted[Len(fetched) + 1] /\ msgs[first] \in Message
  <2>1. Slot(first, 0) = first /\ 0 \in 0 .. Waiting - 1
    BY <1>1, <1>3, <1>4, SlotValue DEF TypeOK
  <2>2. msgs[first] = posted[Len(fetched) + 1 + 0]
    BY <2>1 DEF IInv, Ring
  <2>3. Len(fetched) + 1 + 0 = Len(fetched) + 1 /\ Len(fetched) + 1 \in 1 .. Len(posted)
    BY <1>3, <1>4 DEF Waiting
  <2> QED BY <1>1, <2>2, <2>3 DEF TypeOK
<1>6. fetched' \in Seq(Message) /\ Len(fetched') = Len(fetched) + 1
  BY <1>1, <1>2, <1>5 DEF TypeOK
<1>7. Waiting' = Waiting - 1
  BY <1>2, <1>3, <1>6 DEF Waiting
<1>8. /\ first' \in 0 .. N - 1
      /\ \A i \in Nat : i < N => Slot(first', i) = Slot(first, i + 1)
  BY <1>1, <1>2, SlotNearer DEF TypeOK
<1>9. TypeOK'
  BY <1>1, <1>2, <1>6, <1>8 DEF TypeOK
<1>10. Exclusive'
  BY <1>2 DEF IInv, Exclusive, Holds, FetcherHolds, FetchTake
<1>11. Bounded'
  <2>1. \A p \in Posters : ppc'[p] # "put"
    BY <1>2 DEF IInv, Exclusive, Holds, FetcherHolds, FetchTake
  <2> QED BY <1>1, <1>3, <1>4, <1>7, <2>1 DEF Bounded
<1>12. Ring'
  <2>1. Waiting - 1 \in Nat /\ Waiting - 1 < N /\ (Waiting - 1) + 1 = Waiting
    BY <1>1, <1>3, <1>4
  <2>2. last' = Slot(first', Waiting')
    BY <1>2, <1>7, <1>8, <2>1 DEF IInv, Ring
  <2>3. ASSUME NEW i \in 0 .. Waiting' - 1
        PROVE  msgs'[Slot(first', i)] = posted'[Len(fetched') + 1 + i]
    <3>1. /\ i \in Nat /\ i < N /\ i + 1 \in 0 .. Waiting - 1
          /\ Len(fetched') + 1 + i = Len(fetched) + 1 + (i + 1)
      BY <1>1, <1>3, <1>4, <1>6, <1>7
    <3>2. msgs[Slot(first, i + 1)] = posted[Len(fetched) + 1 + (i + 1)]
      BY <3>1 DEF IInv, Ring
    <3> QED BY <1>2, <1>8, <3>1, <3>2
  <2> QED BY <2>2, <2>3 DEF Ring, Slot
<1>13. NoLostMail'
  BY <1>2 DEF NoLostMail
<1> QED BY <1>9, <1>10, <1>11, <1>12, <1>13 DEF IInv

-----------------------------------------------------------------------------
(* All the steps that put and take no message.                               *)
LEMMA NextStep ==
    ASSUME RingFitsPool, IInv, [Next]_mboxVars
    PROVE  IInv'
<1>1. ASSUME NEW p \in Posters, PostLock(p) PROVE IInv'
  BY <1>1, PostLockStep
<1>2. ASSUME NEW p \in Posters, PostPut(p) PROVE IInv'
  BY <1>2, PostPutStep
<1>3. ASSUME NEW p \in Posters, PostUnlock(p) PROVE IInv'
  <2> USE <1>3 DEF IInv, PostUnlock, Signalled
  <2>1. TypeOK'
    BY DEF TypeOK
  <2>2. Exclusive'
    BY DEF Exclusive, Holds, FetcherHolds, TypeOK
  <2>3. Bounded' /\ Ring' /\ NoLostMail'
    BY DEF Bounded, Ring, Slot, Waiting, NoLostMail, TypeOK
  <2> QED BY <2>1, <2>2, <2>3
<1>4. ASSUME FetchTimer \/ FetchTimeout PROVE IInv'
  <2> USE <1>4 DEF IInv, FetchTimer, FetchTimeout
  <2>1. TypeOK'
    BY DEF TypeOK
  <2>2. Exclusive'
    BY DEF Exclusive, Holds, FetcherHolds
  <2>3. Bounded' /\ Ring' /\ NoLostMail'
    BY Zenon DEF Bounded, Ring, Slot, Waiting, NoLostMail
  <2> QED BY <2>1, <2>2, <2>3
<1>5. ASSUME FetchLock PROVE IInv'
  <2> USE <1>5 DEF IInv, FetchLock
  <2>1. TypeOK'
    BY DEF TypeOK
  <2>2. Exclusive'
    BY DEF Exclusive, Holds, FetcherHolds
  <2>3. Bounded' /\ Ring' /\ NoLostMail'
    BY DEF Bounded, Ring, Slot, Waiting, NoLostMail
  <2> QED BY <2>1, <2>2, <2>3
<1>6. ASSUME FetchEmpty PROVE IInv'
  <2> USE <1>6 DEF IInv, FetchEmpty, Signalled
  <2>1. TypeOK'
    BY DEF TypeOK
  <2>2. Exclusive'
    BY DEF Exclusive, Holds, FetcherHolds
  <2>3. Bounded' /\ Ring' /\ NoLostMail'
    BY DEF Bounded, Ring, Slot, Waiting, NoLostMail
  <2> QED BY <2>1, <2>2, <2>3
<1>7. ASSUME FetchWake PROVE IInv'
  <2> USE <1>7 DEF IInv, FetchWake
  <2>1. TypeOK'
    BY DEF TypeOK
  <2>2. Exclusive'
    BY DEF Exclusive, Holds, FetcherHolds
  <2>3. Bounded' /\ Ring' /\ NoLostMail'
    BY DEF Bounded, Ring, Slot, Waiting, NoLostMail
  <2> QED BY <2>1, <2>2, <2>3
<1>8. ASSUME NEW waited \in 1 .. INTERVAL, FetchTake(waited) PROVE IInv'
  BY <1>8, FetchTakeStep
<1>9. ASSUME UNCHANGED mboxVars PROVE IInv'
  BY <1>9 DEF mboxVars, IInv, TypeOK, Exclusive, Holds, FetcherHolds, Bounded, Ring, Slot,
              Waiting, NoLostMail
<1> QED BY <1>1, <1>2, <1>3, <1>4, <1>5, <1>6, <1>7, <1>8, <1>9 DEF Next, Fetcher

(* The places of the ring in order are the messages posted and not fetched.     *)
LEMMA RingHoldsQueue ==
    ASSUME RingFitsPool, IInv
    PROVE  RingIsQueue
<1>1. N \in Nat \ {0} /\ MEMP_NUM < N /\ MEMP_NUM \in Nat /\ TypeOK
  BY DEF RingFitsPool, N, IInv
<1>2. Waiting \in 0 .. MEMP_NUM /\ Len(posted) \in Nat /\ Len(fetched) \in Nat
  BY <1>1 DEF IInv, Bounded, TypeOK
<1>3. (last - first) % N = Waiting
  <2>1. last = (IF first + Waiting < N THEN first + Waiting ELSE first + Waiting - N)
    <3>1. first \in 0 .. N - 1 /\ Waiting \in 0 .. N
      BY <1>1, <1>2 DEF TypeOK
    <3> HIDE DEF Waiting
    <3> QED BY <3>1, SlotValue DEF IInv, Ring
  <2>2. ASSUME NEW n \in Nat \ {0}, NEW w \in 0 .. n - 1
        PROVE  w % n = w /\ (w - n) % n = w
    BY SMT
  <2>3. Waiting \in 0 .. N - 1 /\ (last - first = Waiting \/ last - first = Waiting - N)
    BY <1>1, <1>2, <2>1 DEF TypeOK
  <2> QED BY <1>1, <2>2, <2>3
<1> DEFINE s == SubSeq(posted, Len(fetched) + 1, Len(posted))
           r == [i \in 1 .. Waiting |-> msgs[(first + i - 1) % N]]
<1>4. s = [i \in 1 .. Waiting |-> posted[Len(fetched) + i]]
  <2>1. Len(posted) - (Len(fetched) + 1) + 1 = Waiting
    BY <1>2 DEF Waiting
  <2>2. \A i \in Int : (Len(fetched) + 1) + i - 1 = Len(fetched) + i
    BY <1>2
  <2>3. s = [i \in 1 .. (1 + Len(posted)) - (Len(fetched) + 1) |->
               posted[(i + (Len(fetched) + 1)) - 1]]
    BY <1>1, <1>2 DEF TypeOK
  <2> QED BY <1>2, <2>1, <2>2, <2>3
<1>5. ASSUME NEW i \in 1 .. Waiting
      PROVE  msgs[(first + i - 1) % N] = posted[Len(fetched) + i]
  <2>1. /\ i - 1 \in 0 .. Waiting - 1 /\ first + i - 1 = first + (i - 1)
        /\ Len(fetched) + 1 + (i - 1) = Len(fetched) + i
    BY <1>1, <1>2 DEF TypeOK
  <2>2. msgs[Slot(first, i - 1)] = posted[Len(fetched) + 1 + (i - 1)]
    BY <2>1 DEF IInv, Ring
  <2> QED BY <2>1, <2>2 DEF Slot
<1>6. r = s
  BY <1>4, <1>5
<1> QED BY <1>3, <1>6 DEF RingIsQueue, N

-----------------------------------------------------------------------------
(* The mailbox of the transport thread is a queue and loses no wake-up, for     *)
(* every number of threads and every ring larger than the pool the messages      *)
(* come from: sys_mbox_post never looks whether the ring is full, and signals     *)
(* only when it finds it empty (sys_arch.c:226-297).                           *)
THEOREM MailboxIsQueue ==
    ASSUME RingFitsPool
    PROVE  Spec => [](RingIsQueue /\ NoLostMail)
<1>1. Init => IInv
  <2> SUFFICES ASSUME Init PROVE IInv
    OBVIOUS
  <2>1. TypeOK /\ Waiting = 0
    <3>1. Len(<<>>) = 0 /\ <<>> \in Seq(Message)
      OBVIOUS
    <3> QED BY <3>1 DEF Init, TypeOK, Waiting, RingFitsPool, N
  <2>2. Exclusive
    BY DEF Init, Exclusive, Holds, FetcherHolds
  <2>3. Bounded /\ NoLostMail
    BY <2>1 DEF Init, Bounded, NoLostMail, RingFitsPool
  <2>4. Ring
    <3>1. 0 \in 0 .. N /\ first = 0 /\ last = 0 /\ first \in 0 .. N - 1
      BY <2>1 DEF Init, RingFitsPool, N, TypeOK
    <3>2. Slot(first, 0) = IF first + 0 < N THEN first + 0 ELSE first + 0 - N
      BY <3>1, SlotValue
    <3>3. N \in Nat \ {0}
      BY DEF RingFitsPool, N
    <3>4. last = Slot(first, Waiting)
      BY <2>1, <3>1, <3>2, <3>3
    <3> QED BY <2>1, <3>4 DEF Ring
  <2> QED BY <2>1, <2>2, <2>3, <2>4 DEF IInv
<1>2. IInv /\ [Next]_mboxVars => IInv'
  BY NextStep
<1>3. IInv => RingIsQueue /\ NoLostMail
  BY RingHoldsQueue DEF IInv
<1> QED BY <1>1, <1>2, <1>3, PTL DEF Spec

-----------------------------------------------------------------------------
(* The router kit.                                                           *)
CONSTANTS Entries, MAX_KERNEL, DevMaps, NoMac, OSPF, FIXME_MAX, MACS, CHANGES, RESTARTS
VARIABLES kernel, cur, copy, hw, mac, devtoport, at, changes, restarts

Kit == INSTANCE RouterKit

(* The entries of a finite set of indices are counted off from 0.             *)
Below(K, k) == Cardinality({j \in K : j < k})

LEMMA CountedOff ==
    ASSUME NEW n \in Nat, NEW K \in SUBSET (1 .. n)
    PROVE  /\ Cardinality(K) \in Nat
           /\ \A i \in 1 .. Cardinality(K) : \E k \in K : Below(K, k) = i - 1
<1> DEFINE P(k) == {j \in K : j < k}
           c == Cardinality(K)
<1>0. \A k \in K : k \in Nat
  OBVIOUS
<1>1. IsFiniteSet(K) /\ c \in Nat
  <2>1. IsFiniteSet(1 .. n)
    BY FS_Interval
  <2> QED BY <2>1, FS_Subset, FS_CardinalityType, Zenon
<1>2. \A k \in K : IsFiniteSet(P(k)) /\ Cardinality(P(k)) \in Nat
  <2> SUFFICES ASSUME NEW k \in K PROVE IsFiniteSet(P(k)) /\ Cardinality(P(k)) \in Nat
    OBVIOUS
  <2>1. P(k) \subseteq K
    OBVIOUS
  <2> HIDE DEF P
  <2> QED BY <1>1, <2>1, FS_Subset, FS_CardinalityType
<1>3. ASSUME NEW j \in K, NEW k \in K, j < k
      PROVE  Cardinality(P(j)) < Cardinality(P(k))
  <2>1. \A x \in K : x < j => x < k
    BY <1>0, <1>3
  <2>2. P(j) \subseteq P(k) /\ j \in P(k) /\ j \notin P(j)
    <3>1. ~(j < j)
      BY <1>0
    <3>2. \A x : x \in P(j) <=> x \in K /\ x < j
      OBVIOUS
    <3>3. \A x : x \in P(k) <=> x \in K /\ x < k
      OBVIOUS
    <3> HIDE DEF P
    <3> QED BY <1>3, <2>1, <3>1, <3>2, <3>3, Zenon
  <2> HIDE DEF P
  <2> QED BY <1>2, <2>2, FS_Subset
<1>4. \A k \in K : Cardinality(P(k)) \in 0 .. c - 1
  <2> SUFFICES ASSUME NEW k \in K PROVE Cardinality(P(k)) \in 0 .. c - 1
    OBVIOUS
  <2>1. P(k) \subseteq K /\ k \notin P(k)
    BY <1>0
  <2>2. Cardinality(P(k)) \in Nat
    BY <1>2
  <2> HIDE DEF P
  <2>3. Cardinality(P(k)) <= c /\ (c = Cardinality(P(k)) => P(k) = K)
    BY <1>1, <2>1, FS_Subset
  <2> QED BY <1>1, <2>1, <2>2, <2>3
<1> DEFINE f == [k \in K |-> Cardinality(P(k))]
<1>5. f \in Surjection(K, 0 .. c - 1)
  <2>1. f \in [K -> 0 .. c - 1]
    BY <1>4
  <2>2. ASSUME NEW j \in K, NEW k \in K, j # k PROVE f[j] # f[k]
    <3>1. f[j] \in Nat /\ f[k] \in Nat /\ (f[j] < f[k] \/ f[k] < f[j])
      <4> HIDE DEF P
      <4> QED BY <1>0, <1>2, <1>3, <2>2
    <3> QED BY <3>1
  <2> HIDE DEF f
  <2>3. f \in Injection(K, 0 .. c - 1)
    BY <2>1, <2>2 DEF Injection, IsInjective
  <2>4. IsFiniteSet(0 .. c - 1) /\ Cardinality(0 .. c - 1) = c
    <3> HIDE DEF c
    <3>1. 0 \in Int /\ c - 1 \in Int
      BY <1>1
    <3> QED BY <1>1, <3>1, FS_Interval
  <2> QED BY <2>3, <2>4, FS_Injection
<1>6. \A i \in 1 .. c : \E k \in K : f[k] = i - 1
  <2> HIDE DEF f
  <2>1. \A t \in 0 .. c - 1 : \E k \in K : f[k] = t
    BY <1>5 DEF Surjection
  <2> QED BY <1>1, <2>1
<1> QED BY <1>1, <1>6 DEF Below

(* A list from which entries are removed.                                     *)
LEMMA KeepIsList ==
    ASSUME NEW S, NEW s \in Seq(S), NEW K \in SUBSET DOMAIN s
    PROVE  Kit!Keep(s, K) \in Seq(S) /\ Len(Kit!Keep(s, K)) <= Len(s)
<1> DEFINE c(i) == CHOOSE k \in K : Below(K, k) = i - 1
<1>1. Len(s) \in Nat /\ DOMAIN s = 1 .. Len(s)
  OBVIOUS
<1>2. Cardinality(K) \in Nat /\ \A i \in 1 .. Cardinality(K) : c(i) \in K
  BY <1>1, CountedOff, Zenon
<1>3. Cardinality(K) <= Len(s)
  <2> DEFINE n == Len(s)
  <2> HIDE DEF n
  <2>1. n \in Nat /\ K \subseteq 1 .. n
    BY <1>1 DEF n
  <2>2. IsFiniteSet(1 .. n) /\ Cardinality(1 .. n) = n
    BY <2>1, FS_Interval
  <2> QED BY <2>1, <2>2, FS_Subset DEF n
<1>4. Kit!Keep(s, K) = [i \in 1 .. Cardinality(K) |-> s[c(i)]]
  BY Zenon DEF Kit!Keep, Below, Kit!Cardinality, Cardinality
<1>5. \A k \in K : s[k] \in S
  BY <1>1
<1> HIDE DEF c
<1> QED BY <1>1, <1>2, <1>3, <1>4, <1>5

(* What the daemon's constants have to be: a table of the kernel fits into  *)
(* the hardware, with a row to spare for the OSPF address, and no entry     *)
(* looks like a cleared row.                                                *)
KitParameters ==
    /\ MAX_KERNEL \in Nat /\ FIXME_MAX \in Nat /\ MACS \in Nat /\ MAX_KERNEL < FIXME_MAX
    /\ OSPF # Kit!Clear
    /\ \A t \in Kit!Tables : \A e \in Entries[t] : e.val # Kit!Clear

Small(t) == {s \in Seq(Entries[t]) : Len(s) <= MAX_KERNEL}

(* What a row that shows no entry may hold: the OSPF address stays behind.  *)
Rest(t) == IF t = "if" THEN {Kit!Clear, OSPF} ELSE {Kit!Clear}

(* The rows of table h that are in A show the entries of list s.            *)
Shows(h, s, A, rest) ==
    \A r \in Kit!Rows : IF r \in A THEN h[r] = s[r].val ELSE h[r] \in rest

MacsShow(m, s, A) == \A r \in A \cap (1 .. MACS) : m[r] = s[r].dev

Idle(t, h, m, c) ==
    /\ Shows(h, c, 1 .. Len(c), Rest(t))
    /\ t = "if" => /\ c # <<>> => h[Len(c) + 1] = OSPF
                   /\ MacsShow(m, c, 1 .. Len(c))

KernelOK(k) ==
    /\ DOMAIN k = Kit!Tables
    /\ k["rt"] \in Small("rt") /\ k["arp"] \in Small("arp") /\ Tail(k["if"]) \in Small("if")

AnyList == UNION {Small(t) : t \in Kit!Tables}
AtType == [pc : {"load", "delete", "create"}, t : Kit!Tables, row : Nat \ {0},
           check : AnyList, local : AnyList]

KitTypes ==
    /\ KernelOK(kernel)
    /\ DOMAIN copy = Kit!Tables /\ \A t \in Kit!Tables : copy[t] \in Small(t)
    /\ DOMAIN hw = Kit!Tables /\ \A t \in Kit!Tables : DOMAIN hw[t] = Kit!Rows
    /\ DOMAIN mac = 1 .. MACS
    /\ at \in AtType /\ (at.pc # "load" => at.local \in Small(at.t))

Deleting == Shows(hw[at.t], copy[at.t], at.row .. Len(copy[at.t]), Rest(at.t))

Creating ==
    /\ at.row <= Len(at.local) + 1
    /\ Shows(hw[at.t], at.local, 1 .. at.row - 1, Rest(at.t))
    /\ at.t = "if" => MacsShow(mac, at.local, 1 .. at.row - 1)

KitInv ==
    /\ KitTypes
    /\ \A t \in Kit!Tables : ~Kit!Updating(t) => Idle(t, hw[t], mac, copy[t])
    /\ at.pc = "delete" => Deleting
    /\ at.pc = "create" => Creating

LEMMA SmallList ==
    ASSUME KitParameters, NEW t \in Kit!Tables, NEW s \in Small(t)
    PROVE  /\ Len(s) \in Nat /\ DOMAIN s = 1 .. Len(s) /\ Len(s) + 1 \in Kit!Rows
           /\ 1 .. Len(s) \subseteq Kit!Rows
           /\ \A r \in 1 .. Len(s) : s[r].val # Kit!Clear
BY DEF KitParameters, Small, Kit!Rows

LEMMA EmptySmall ==
    ASSUME KitParameters
    PROVE  (\A t : <<>> \in Small(t)) /\ <<>> \in AnyList
BY DEF KitParameters, Small, AnyList, Kit!Tables

LEMMA LoadedSmall ==
    ASSUME KitParameters, KernelOK(kernel), NEW t \in Kit!Tables
    PROVE  Kit!Loaded(t) \in Small(t) /\ Kit!Known(Kit!Loaded(t)) \in Small(t)
<1>1. ASSUME NEW s \in Small(t), NEW K \in SUBSET DOMAIN s
      PROVE  Kit!Keep(s, K) \in Small(t)
  <2>1. s \in Seq(Entries[t]) /\ Len(s) <= MAX_KERNEL
    BY DEF Small
  <2>2. Kit!Keep(s, K) \in Seq(Entries[t]) /\ Len(Kit!Keep(s, K)) <= Len(s)
    BY <2>1, KeepIsList
  <2>3. Len(s) \in Nat /\ Len(Kit!Keep(s, K)) \in Nat /\ MAX_KERNEL \in Nat
    BY <2>1, <2>2 DEF KitParameters
  <2>4. Len(Kit!Keep(s, K)) <= MAX_KERNEL
    BY <2>1, <2>2, <2>3
  <2> QED BY <2>2, <2>4 DEF Small
<1>2. Kit!Loaded(t) \in Small(t)
  <2>1. CASE t = "rt"
    BY <2>1 DEF KernelOK, Kit!Loaded, Kit!linux_proc_net_load_rtable
  <2>2. CASE t = "arp"
    <3> DEFINE s == kernel["arp"]
               K == {k \in DOMAIN s : s[k].val # NoMac}
    <3>1. s \in Small(t) /\ K \in SUBSET DOMAIN s
      BY <2>2 DEF KernelOK
    <3>2. Kit!Loaded(t) = Kit!Keep(s, K)
      BY <2>2 DEF Kit!Loaded, Kit!linux_proc_net_load_arptable
    <3> HIDE DEF s, K
    <3> QED BY <1>1, <3>1, <3>2
  <2>3. CASE t = "if"
    BY <2>3 DEF KernelOK, Kit!Loaded, Kit!fill_iflist
  <2> QED BY <2>1, <2>2, <2>3 DEF Kit!Tables
<1>3. Kit!Known(Kit!Loaded(t)) \in Small(t)
  <2> DEFINE s == Kit!Loaded(t)
             K == {k \in DOMAIN s : s[k].dev \in devtoport}
  <2>1. Kit!Known(s) = Kit!Keep(s, K) /\ K \in SUBSET DOMAIN s
    BY DEF Kit!Known
  <2> HIDE DEF s, K
  <2>2. s \in Small(t)
    BY <1>2 DEF s
  <2>3. Kit!Known(s) \in Small(t)
    BY <1>1, <2>1, <2>2
  <2> QED BY <2>3 DEF s
<1> QED BY <1>2, <1>3

LEMMA KitInit == ASSUME KitParameters, Kit!Init PROVE KitInv
<1>1. KernelOK(kernel)
  <2>1. DOMAIN kernel = Kit!Tables /\ kernel["rt"] = <<>> /\ kernel["arp"] = <<>> /\ kernel["if"] = <<Kit!Lo>>
    BY DEF Kit!Init, Kit!Empty, Kit!Tables
  <2>2. Tail(kernel["if"]) = <<>>
    <3> HIDE DEF Kit!Lo
    <3> QED BY <2>1
  <2> QED BY <2>1, <2>2, EmptySmall DEF KernelOK
<1>2. /\ DOMAIN copy = Kit!Tables /\ \A t \in Kit!Tables : copy[t] = <<>>
      /\ DOMAIN hw = Kit!Tables
      /\ \A t \in Kit!Tables : DOMAIN hw[t] = Kit!Rows /\ \A r \in Kit!Rows : hw[t][r] = Kit!Clear
      /\ DOMAIN mac = 1 .. MACS
  BY DEF Kit!Init, Kit!Empty, Kit!Cleared
<1>3. at \in AtType /\ at.pc = "load"
  BY EmptySmall DEF Kit!Init, Kit!Start, AtType, Kit!Tables
<1>4. \A t \in Kit!Tables : Idle(t, hw[t], mac, copy[t])
  <2> SUFFICES ASSUME NEW t \in Kit!Tables PROVE Idle(t, hw[t], mac, copy[t])
    OBVIOUS
  <2>1. copy[t] = <<>> /\ Len(copy[t]) = 0 /\ 1 .. 0 = {} /\ Kit!Clear \in Rest(t)
    BY <1>2 DEF Rest
  <2> QED BY <1>2, <2>1 DEF Idle, Shows, MacsShow
<1>5. KitTypes
  BY <1>1, <1>2, <1>3, EmptySmall, Zenon DEF KitTypes
<1> QED BY <1>3, <1>4, <1>5 DEF KitInv

(* A table that nobody is rewriting stays as it is.                         *)
LEMMA OthersIdle ==
    ASSUME KitInv, NEW t \in Kit!Tables, ~Kit!Updating(t),
           hw'[t] = hw[t], copy'[t] = copy[t], t = "if" => mac' = mac
    PROVE  Idle(t, hw'[t], mac', copy'[t])
<1>1. Idle(t, hw[t], mac, copy[t])
  BY DEF KitInv
<1> QED BY <1>1 DEF Idle

LEMMA LoadStep ==
    ASSUME KitParameters, KitInv, Kit!Load
    PROVE  KitInv'
<1> DEFINE check == Kit!Loaded(at.t)
           local == Kit!Known(check)
<1>1. KitTypes /\ at \in AtType /\ at.t \in Kit!Tables /\ at.pc = "load"
  BY DEF KitInv, KitTypes, AtType, Kit!Load
<1>2. UNCHANGED <<kernel, copy, hw, mac>>
  BY DEF Kit!Load
<1>3. /\ check \in Small(at.t) /\ local \in Small(at.t)
      /\ check \in AnyList /\ local \in AnyList
  BY <1>1, LoadedSmall DEF KitTypes, AnyList
<1>4. \/ at' = [at EXCEPT !.pc = "delete", !.check = check, !.local = local, !.row = 1]
      \/ at' = [at EXCEPT !.t = Kit!Following(at.t)]
  BY DEF Kit!Load, Kit!FirstToDelete
<1> HIDE DEF check, local
<1>5. \A t \in Kit!Tables : Idle(t, hw[t], mac, copy[t])
  BY <1>1 DEF KitInv, Kit!Updating
<1>6. CASE at' = [at EXCEPT !.pc = "delete", !.check = check, !.local = local, !.row = 1]
  <2>1. /\ at' \in AtType /\ at'.pc = "delete" /\ at'.t = at.t /\ at'.row = 1 /\ at'.local = local
    <3> DEFINE one == 1
    <3>1. at' = [at EXCEPT !.pc = "delete", !.check = check, !.local = local, !.row = one]
          /\ one \in Nat \ {0}
      BY <1>6
    <3> HIDE DEF one
    <3>2. at' \in AtType /\ at'.pc = "delete" /\ at'.t = at.t /\ at'.row = one /\ at'.local = local
      BY <1>1, <1>3, <3>1, Zenon DEF AtType
    <3> QED BY <3>2 DEF one
  <2>2. KitTypes'
    BY <1>1, <1>2, <1>3, <2>1, Zenon DEF KitTypes, KernelOK
  <2>3. Shows(hw[at.t], copy[at.t], 1 .. Len(copy[at.t]), Rest(at.t))
    BY <1>1, <1>5 DEF Idle
  <2>4. Deleting'
    BY <1>2, <2>1, <2>3 DEF Deleting
  <2> QED BY <1>2, <1>5, <2>1, <2>2, <2>4 DEF KitInv
<1>7. CASE at' = [at EXCEPT !.t = Kit!Following(at.t)]
  <2>1. Kit!Following(at.t) \in Kit!Tables
    BY <1>1 DEF Kit!Following, Kit!Tables
  <2>2. at' \in AtType /\ at'.pc = "load"
    BY <1>1, <1>7, <2>1 DEF AtType
  <2>3. KitTypes'
    BY <1>1, <1>2, <2>2 DEF KitTypes, KernelOK
  <2> QED BY <1>2, <1>5, <2>2, <2>3 DEF KitInv
<1> QED BY <1>4, <1>6, <1>7

LEMMA DeleteStep ==
    ASSUME KitParameters, KitInv, Kit!DeleteRow
    PROVE  KitInv'
<1> DEFINE t == at.t
           n == at.row
           c == copy[t]
<1>1. /\ KitTypes /\ at \in AtType /\ t \in Kit!Tables /\ n \in Nat \ {0} /\ at.pc = "delete"
      /\ Deleting /\ c \in Small(t) /\ at.local \in Small(t)
  BY DEF KitInv, KitTypes, AtType, Kit!DeleteRow
<1>2. UNCHANGED <<kernel, copy, mac>>
  BY DEF Kit!DeleteRow
<1>3. Len(c) \in Nat /\ Len(at.local) \in Nat /\ Kit!Clear \in Rest(t)
  BY <1>1, SmallList DEF Rest
<1>4. CASE n <= Len(c)
  <2>1. hw' = [hw EXCEPT ![t][n] = Kit!Clear] /\ at' = [at EXCEPT !.row = n + 1]
    BY <1>4 DEF Kit!DeleteRow, Kit!ToDelete
  <2>2. at' \in AtType /\ at'.pc = "delete" /\ at'.t = t /\ at'.row = n + 1 /\ at'.local = at.local
    BY <1>1, <2>1 DEF AtType
  <2>3. /\ DOMAIN hw' = Kit!Tables /\ \A u \in Kit!Tables : DOMAIN hw'[u] = Kit!Rows
        /\ \A u \in Kit!Tables : u # t => hw'[u] = hw[u]
        /\ \A r \in Kit!Rows : hw'[t][r] = IF r = n THEN Kit!Clear ELSE hw[t][r]
    BY <1>1, <2>1, Zenon DEF KitTypes
  <2>4. KitTypes'
    BY <1>1, <1>2, <2>2, <2>3 DEF KitTypes, KernelOK
  <2>5. Shows(hw'[t], c, n + 1 .. Len(c), Rest(t))
    <3>1. \A r \in Kit!Rows : r # n => (r \in n .. Len(c) <=> r \in n + 1 .. Len(c))
      BY <1>1, <1>3 DEF Kit!Rows
    <3>2. n \notin n + 1 .. Len(c)
      BY <1>1, <1>3
    <3> HIDE DEF n, c, t
    <3>3. Shows(hw[t], c, n .. Len(c), Rest(t))
      BY <1>1, Zenon DEF Deleting, t, n, c
    <3> QED BY <1>3, <2>3, <3>1, <3>2, <3>3 DEF Shows
  <2>6. Deleting'
    BY <1>2, <2>2, <2>5, Zenon DEF Deleting
  <2>7. \A u \in Kit!Tables : ~Kit!Updating(u)' => Idle(u, hw'[u], mac', copy'[u])
    BY <1>1, <1>2, <2>2, <2>3, OthersIdle, Zenon DEF Kit!Updating
  <2> QED BY <2>2, <2>4, <2>6, <2>7 DEF KitInv
<1>5. CASE ~(n <= Len(c))
  <2>1. at' = [at EXCEPT !.pc = "create", !.row = 1] /\ UNCHANGED hw
    BY <1>5 DEF Kit!DeleteRow, Kit!ToDelete
  <2>2. at' \in AtType /\ at'.pc = "create" /\ at'.t = t /\ at'.row = 1 /\ at'.local = at.local
    <3> DEFINE one == 1
    <3>1. at' = [at EXCEPT !.pc = "create", !.row = one] /\ one \in Nat \ {0}
      BY <2>1
    <3> HIDE DEF one
    <3>2. at' \in AtType /\ at'.pc = "create" /\ at'.t = t /\ at'.row = one /\ at'.local = at.local
      BY <1>1, <3>1, Zenon DEF AtType
    <3> QED BY <3>2 DEF one
  <2>3. KitTypes'
    BY <1>1, <1>2, <2>1, <2>2, Zenon DEF KitTypes, KernelOK
  <2>4. Shows(hw[t], at.local, 1 .. 1 - 1, Rest(t))
    <3>1. n .. Len(c) = {} /\ 1 .. 1 - 1 = {}
      BY <1>1, <1>3, <1>5
    <3> QED BY <1>1, <3>1 DEF Deleting, Shows
  <2>5. MacsShow(mac, at.local, 1 .. 1 - 1)
    BY DEF MacsShow
  <2>6. Creating'
    BY <1>2, <1>3, <2>1, <2>2, <2>4, <2>5 DEF Creating
  <2>7. \A u \in Kit!Tables : ~Kit!Updating(u)' => Idle(u, hw'[u], mac', copy'[u])
    BY <1>1, <1>2, <2>1, <2>2, OthersIdle, Zenon DEF Kit!Updating
  <2> QED BY <2>2, <2>3, <2>6, <2>7 DEF KitInv
<1> QED BY <1>4, <1>5

LEMMA CreateStep ==
    ASSUME KitParameters, KitInv, Kit!CreateRow
    PROVE  KitInv'
<1> DEFINE t == at.t
           n == at.row
           s == at.local
<1>1. /\ KitTypes /\ at \in AtType /\ t \in Kit!Tables /\ n \in Nat \ {0} /\ at.pc = "create"
      /\ Creating /\ s \in Small(t) /\ n <= Len(s)
  BY DEF KitInv, KitTypes, AtType, Kit!CreateRow
<1>2. /\ UNCHANGED <<kernel, copy>> /\ hw' = [hw EXCEPT ![t][n] = s[n].val]
      /\ mac' = IF t = "if" THEN Kit!nf_set_mac(n, s[n].dev) ELSE mac
      /\ at' = [at EXCEPT !.row = n + 1]
  BY DEF Kit!CreateRow
<1>3. Len(s) \in Nat /\ n \in Kit!Rows
  BY <1>1, SmallList
<1>4. at' \in AtType /\ at'.pc = "create" /\ at'.t = t /\ at'.row = n + 1 /\ at'.local = s
  BY <1>1, <1>2 DEF AtType
<1>5. /\ DOMAIN hw' = Kit!Tables /\ \A u \in Kit!Tables : DOMAIN hw'[u] = Kit!Rows
      /\ \A u \in Kit!Tables : u # t => hw'[u] = hw[u]
      /\ \A r \in Kit!Rows : hw'[t][r] = IF r = n THEN s[n].val ELSE hw[t][r]
  BY <1>1, <1>2, <1>3 DEF KitTypes
<1>6. /\ DOMAIN mac' = 1 .. MACS
      /\ t # "if" => mac' = mac
      /\ t = "if" => \A r \in 1 .. MACS : mac'[r] = IF r = n THEN s[n].dev ELSE mac[r]
  BY <1>1, <1>2, Zenon DEF KitTypes, Kit!nf_set_mac
<1>7. KitTypes'
  BY <1>1, <1>2, <1>4, <1>5, <1>6 DEF KitTypes, KernelOK
<1>8. /\ n + 1 <= Len(s) + 1 /\ n + 1 - 1 = n /\ n \in 1 .. n
      /\ \A r \in Nat : r # n => (r \in 1 .. n - 1 <=> r \in 1 .. n)
      /\ \A r \in 1 .. n : r \in Nat
      /\ \A r \in Kit!Rows : r \in Nat
  BY <1>1, <1>3 DEF Kit!Rows
<1>9. at'.row - 1 = n /\ at'.row <= Len(at'.local) + 1
  BY <1>4, <1>8
<1> HIDE DEF s, n, t
<1> DEFINE A == 1 .. n - 1
           B == 1 .. n
<1>10. n \in B /\ (\A r \in Nat : r # n => (r \in A <=> r \in B)) /\ \A r \in B : r \in Nat
  BY <1>8
<1>11. Shows(hw[t], s, A, Rest(t)) /\ (t = "if" => MacsShow(mac, s, A))
  BY <1>1, Zenon DEF Creating, s, n, t
<1> HIDE DEF A, B
<1>12. Shows(hw'[t], s, B, Rest(t))
  BY <1>5, <1>8, <1>10, <1>11, Zenon DEF Shows
<1>13. t = "if" => MacsShow(mac', s, B)
  BY <1>6, <1>10, <1>11 DEF MacsShow
<1>14. Creating'
  BY <1>4, <1>9, <1>12, <1>13, Zenon DEF Creating, B
<1>15. \A u \in Kit!Tables : ~Kit!Updating(u)' => Idle(u, hw'[u], mac', copy'[u])
  BY <1>1, <1>2, <1>4, <1>5, <1>6, OthersIdle, Zenon DEF Kit!Updating, t
<1> QED BY <1>4, <1>7, <1>14, <1>15 DEF KitInv

LEMMA FinishStep ==
    ASSUME KitParameters, KitInv, Kit!Finish
    PROVE  KitInv'
<1> DEFINE t == at.t
           n == at.row
           s == at.local
<1>1. /\ KitTypes /\ at \in AtType /\ t \in Kit!Tables /\ n \in Nat \ {0} /\ at.pc = "create"
      /\ Creating /\ s \in Small(t) /\ n > Len(s)
  BY DEF KitInv, KitTypes, AtType, Kit!Finish
<1>2. /\ UNCHANGED <<kernel, mac>>
      /\ hw' = IF t = "if" THEN [hw EXCEPT !["if"][n] = OSPF] ELSE hw
      /\ copy' = [copy EXCEPT ![t] = s]
      /\ at' = [Kit!Start EXCEPT !.t = Kit!Following(t)]
  BY DEF Kit!Finish
<1>3. Len(s) \in Nat /\ n = Len(s) + 1 /\ n \in Kit!Rows /\ 1 .. n - 1 = 1 .. Len(s)
  BY <1>1, SmallList DEF Creating
<1>4. at' \in AtType /\ at'.pc = "load"
  <2>1. Kit!Following(t) \in Kit!Tables
    BY <1>1 DEF Kit!Following, Kit!Tables
  <2> QED BY <1>2, <2>1, EmptySmall DEF AtType, Kit!Start, Kit!Tables
<1> HIDE DEF s, n, t
<1>5. /\ DOMAIN hw' = Kit!Tables /\ \A u \in Kit!Tables : DOMAIN hw'[u] = Kit!Rows
      /\ \A u \in Kit!Tables : u # t => hw'[u] = hw[u]
      /\ t # "if" => hw' = hw
      /\ t = "if" => \A r \in Kit!Rows : hw'[t][r] = IF r = n THEN OSPF ELSE hw[t][r]
  BY <1>1, <1>2, <1>3 DEF KitTypes
<1>6. /\ DOMAIN copy' = Kit!Tables /\ copy'[t] = s
      /\ \A u \in Kit!Tables : u # t => copy'[u] = copy[u]
  BY <1>1, <1>2 DEF KitTypes
<1>7. KitTypes'
  BY <1>1, <1>2, <1>4, <1>5, <1>6 DEF KitTypes, KernelOK
<1>8. Idle(t, hw'[t], mac', copy'[t])
  <2>1. Shows(hw[t], s, 1 .. n - 1, Rest(t)) /\ (t = "if" => MacsShow(mac, s, 1 .. n - 1))
    BY <1>1 DEF Creating, s, n, t
  <2>2. n \notin 1 .. Len(s)
    BY <1>3
  <2>3. t = "if" => OSPF \in Rest(t)
    BY Zenon DEF Rest
  <2>4. Shows(hw'[t], s, 1 .. Len(s), Rest(t))
    BY <1>3, <1>5, <2>1, <2>2, <2>3 DEF Shows
  <2> QED BY <1>2, <1>3, <1>5, <1>6, <2>1, <2>4, Zenon DEF Idle
<1>9. \A u \in Kit!Tables : Idle(u, hw'[u], mac', copy'[u])
  <2> SUFFICES ASSUME NEW u \in Kit!Tables, u # t PROVE Idle(u, hw'[u], mac', copy'[u])
    BY <1>8
  <2>1. ~Kit!Updating(u)
    BY Zenon DEF Kit!Updating, t
  <2> QED BY <1>2, <1>5, <1>6, <2>1, OthersIdle, Zenon
<1> QED BY <1>4, <1>7, <1>9 DEF KitInv

LEMMA RestartStep ==
    ASSUME KitParameters, KitInv, Kit!Restart
    PROVE  KitInv'
<1>1. KitTypes /\ UNCHANGED <<kernel, mac>>
  BY DEF KitInv, Kit!Restart
<1>2. /\ DOMAIN copy' = Kit!Tables /\ \A t \in Kit!Tables : copy'[t] = <<>>
      /\ DOMAIN hw' = Kit!Tables
      /\ \A t \in Kit!Tables : DOMAIN hw'[t] = Kit!Rows /\ \A r \in Kit!Rows : hw'[t][r] = Kit!Clear
  BY DEF Kit!Restart, Kit!Empty, Kit!Cleared
<1>3. at' \in AtType /\ at'.pc = "load"
  BY EmptySmall DEF Kit!Restart, Kit!Start, AtType, Kit!Tables
<1>4. \A t \in Kit!Tables : Idle(t, hw'[t], mac', copy'[t])
  <2> SUFFICES ASSUME NEW t \in Kit!Tables PROVE Idle(t, hw'[t], mac', copy'[t])
    OBVIOUS
  <2>1. copy'[t] = <<>> /\ Len(copy'[t]) = 0 /\ 1 .. 0 = {} /\ Kit!Clear \in Rest(t)
    BY <1>2 DEF Rest
  <2> QED BY <1>2, <2>1 DEF Idle, Shows, MacsShow
<1>5. KitTypes'
  BY <1>1, <1>2, <1>3, EmptySmall DEF KitTypes, KernelOK
<1> QED BY <1>3, <1>4, <1>5 DEF KitInv

LEMMA KernelStep ==
    ASSUME KitParameters, KitInv, NEW t \in Kit!Tables, Kit!KernelChanges(t)
    PROVE  KitInv'
<1>1. KitTypes /\ UNCHANGED <<copy, hw, mac, at>>
  BY DEF KitInv, Kit!KernelChanges
<1>2. PICK k \in Kit!KernelTables(t) : kernel' = [kernel EXCEPT ![t] = k]
  BY Zenon DEF Kit!KernelChanges
<1>3. ASSUME NEW l \in UNION {[1 .. n -> Entries[t]] : n \in 0 .. MAX_KERNEL}
      PROVE  l \in Small(t)
  <2>1. PICK n \in 0 .. MAX_KERNEL : l \in [1 .. n -> Entries[t]]
    BY <1>3
  <2>2. n \in Nat /\ n <= MAX_KERNEL
    BY <2>1 DEF KitParameters
  <2>3. l \in Seq(Entries[t]) /\ Len(l) = n
    BY <2>1, <2>2
  <2> QED BY <2>2, <2>3 DEF Small
<1>4. IF t = "if" THEN Tail(k) \in Small(t) ELSE k \in Small(t)
  <2>1. CASE t # "if"
    BY <1>2, <1>3, <2>1 DEF Kit!KernelTables
  <2>2. CASE t = "if"
    <3>1. PICK l \in UNION {[1 .. n -> Entries[t]] : n \in 0 .. MAX_KERNEL} : k = <<Kit!Lo>> \o l
      BY <1>2, <2>2 DEF Kit!KernelTables
    <3>2. l \in Seq(Entries[t]) /\ l \in Small(t)
      BY <1>3, <3>1 DEF Small
    <3>3. Tail(k) = l
      <4> HIDE DEF Kit!Lo
      <4> QED BY <3>1, <3>2
    <3> QED BY <2>2, <3>2, <3>3, Zenon
  <2> QED BY <2>1, <2>2
<1>5. KernelOK(kernel')
  BY <1>1, <1>2, <1>4, Zenon DEF KitTypes, KernelOK, Kit!Tables
<1>6. KitTypes'
  BY <1>1, <1>5 DEF KitTypes
<1> QED BY <1>1, <1>6, Zenon DEF KitInv, Kit!Updating, Deleting, Creating

LEMMA KitStep ==
    ASSUME KitParameters, KitInv, [Kit!Next]_Kit!vars
    PROVE  KitInv'
<1>1. CASE Kit!rkd
  BY <1>1, LoadStep, DeleteStep, CreateStep, FinishStep DEF Kit!rkd
<1>2. CASE UNCHANGED Kit!vars
  BY <1>2, Zenon DEF Kit!vars, KitInv, KitTypes, KernelOK, Kit!Updating, Deleting, Creating
<1> QED BY <1>1, <1>2, RestartStep, KernelStep DEF Kit!Next

(* What the hardware shows is of the list s, apart from the OSPF address.   *)
LEMMA ShownIsListed ==
    ASSUME KitParameters, NEW t \in Kit!Tables, NEW s \in Small(t), NEW A,
           A \subseteq 1 .. Len(s), Shows(hw[t], s, A, Rest(t))
    PROVE  Kit!InHw(t) \ {OSPF} \subseteq Kit!Vals(s)
<1> SUFFICES ASSUME NEW r \in Kit!Rows, hw[t][r] # Kit!Clear, hw[t][r] # OSPF
             PROVE  hw[t][r] \in Kit!Vals(s)
  BY DEF Kit!InHw
<1>1. r \in A
  BY DEF Shows, Rest
<1>2. hw[t][r] = s[r].val /\ r \in DOMAIN s
  BY <1>1, SmallList, Zenon DEF Shows
<1> QED BY <1>2 DEF Kit!Vals

LEMMA KitNeverMixes ==
    ASSUME KitParameters, KitInv
    PROVE  Kit!NeverMixesTables
<1> SUFFICES ASSUME NEW t \in Kit!Tables, Kit!Updating(t)
             PROVE  \/ Kit!InHw(t) \ {OSPF} \subseteq Kit!Vals(copy[t])
                    \/ Kit!InHw(t) \ {OSPF} \subseteq Kit!Vals(at.local)
  BY Zenon DEF Kit!NeverMixesTables
<1>1. /\ at.t = t /\ at.pc \in {"delete", "create"} /\ copy[t] \in Small(t)
      /\ at.local \in Small(t) /\ at.row \in Nat \ {0}
  BY DEF KitInv, KitTypes, AtType, Kit!Updating
<1>2. CASE at.pc = "delete"
  <2>1. at.row .. Len(copy[t]) \subseteq 1 .. Len(copy[t])
    BY <1>1, SmallList
  <2>2. Shows(hw[t], copy[t], at.row .. Len(copy[t]), Rest(t))
    BY <1>1, <1>2 DEF KitInv, Deleting
  <2> QED BY <1>1, <2>1, <2>2, ShownIsListed, Zenon
<1>3. CASE at.pc = "create"
  <2>1. Creating
    BY <1>3 DEF KitInv
  <2>2. 1 .. at.row - 1 \subseteq 1 .. Len(at.local)
    BY <1>1, <2>1, SmallList DEF Creating
  <2>3. Shows(hw[t], at.local, 1 .. at.row - 1, Rest(t))
    BY <1>1, <2>1 DEF Creating
  <2> QED BY <1>1, <2>2, <2>3, ShownIsListed, Zenon
<1> QED BY <1>1, <1>2, <1>3

LEMMA KitMirrors ==
    ASSUME KitParameters, KitInv
    PROVE  Kit!HwMirrorsCopy
<1>1. \A t \in Kit!Tables : copy[t] \in Small(t)
  BY Zenon DEF KitInv, KitTypes
<1>2. ASSUME NEW t \in {"rt", "arp"}, ~Kit!Updating(t), NEW r \in Kit!Rows
      PROVE  hw[t][r] = IF r \in DOMAIN copy[t] THEN copy[t][r].val ELSE Kit!Clear
  <2>1. t \in Kit!Tables /\ Rest(t) = {Kit!Clear}
    BY DEF Kit!Tables, Rest
  <2>2. DOMAIN copy[t] = 1 .. Len(copy[t])
    BY <1>1, <2>1, SmallList
  <2>3. Shows(hw[t], copy[t], DOMAIN copy[t], Rest(t))
    BY <1>2, <2>1, <2>2, Zenon DEF KitInv, Idle
  <2> QED BY <2>1, <2>3 DEF Shows
<1>3. ASSUME ~Kit!Updating("if")
      PROVE  /\ Kit!InHw("if") \in {Kit!Vals(copy["if"]) \cup {OSPF}, Kit!Vals(copy["if"])}
             /\ copy["if"] # <<>> => OSPF \in Kit!InHw("if")
             /\ \A r \in DOMAIN copy["if"] \cap DOMAIN mac : mac[r] = copy["if"][r].dev
  <2> DEFINE t == "if"
             c == copy[t]
  <2>1. t \in Kit!Tables /\ c \in Small(t) /\ OSPF # Kit!Clear
    BY <1>1 DEF Kit!Tables, KitParameters
  <2>2. /\ DOMAIN c = 1 .. Len(c) /\ Len(c) + 1 \in Kit!Rows /\ DOMAIN c \subseteq Kit!Rows
        /\ \A r \in DOMAIN c : c[r].val # Kit!Clear
    BY <2>1, SmallList, Zenon
  <2>3. /\ Shows(hw[t], c, DOMAIN c, Rest(t)) /\ (c # <<>> => hw[t][Len(c) + 1] = OSPF)
        /\ MacsShow(mac, c, DOMAIN c)
    BY <1>3, <2>1, <2>2 DEF KitInv, Idle
  <2>4. Kit!InHw(t) \ {OSPF} \subseteq Kit!Vals(c)
    BY <2>1, <2>2, <2>3, ShownIsListed, Zenon
  <2>5. Kit!Vals(c) \subseteq Kit!InHw(t)
    <3> SUFFICES ASSUME NEW r \in DOMAIN c PROVE c[r].val \in Kit!InHw(t)
      BY DEF Kit!Vals
    <3>1. r \in Kit!Rows /\ hw[t][r] = c[r].val /\ c[r].val # Kit!Clear
      BY <2>2, <2>3 DEF Shows
    <3> QED BY <3>1 DEF Kit!InHw
  <2>6. DOMAIN mac = 1 .. MACS
    BY Zenon DEF KitInv, KitTypes
  <2> HIDE DEF c, t
  <2>7. c # <<>> => OSPF \in Kit!InHw(t)
    BY <2>1, <2>2, <2>3, Zenon DEF Kit!InHw
  <2>8. \A r \in DOMAIN c \cap DOMAIN mac : mac[r] = c[r].dev
    BY <2>3, <2>6 DEF MacsShow
  <2>9. Kit!InHw(t) \in {Kit!Vals(c) \cup {OSPF}, Kit!Vals(c)}
    BY <2>4, <2>5
  <2> QED BY <2>7, <2>8, <2>9 DEF c, t
<1> QED BY <1>2, <1>3, Zenon DEF Kit!HwMirrorsCopy

(* sume_mon.cc:220-305, for kernel tables of any entries and devices that fit    *)
(* the hardware, however often they change and however often the daemon is       *)
(* killed and started again: while a table is not being rewritten the hardware   *)
(* shows the monitor's copy of it and nothing else, and while it is, the rows    *)
(* are those of the old table or those of the new one, never of both.           *)
THEOREM KitKeepsTablesApart ==
    ASSUME KitParameters
    PROVE  Kit!Spec => [](Kit!NeverMixesTables /\ Kit!HwMirrorsCopy)
<1>1. Kit!Init => KitInv
  BY KitInit
<1>2. KitInv /\ [Kit!Next]_Kit!vars => KitInv'
  BY KitStep
<1>3. KitInv => Kit!NeverMixesTables /\ Kit!HwMirrorsCopy
  BY KitNeverMixes, KitMirrors
<1> QED BY <1>1, <1>2, <1>3, PTL DEF Kit!Spec
============================================================================
