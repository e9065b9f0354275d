---------------------------- MODULE BoundedQueue ----------------------------
(***************************************************************************)
(* What the FIFOs of the library promise: a first-in first-out queue of at *)
(* most CAPACITY values that may take a value and give one in one cycle.   *)
(***************************************************************************)
EXTENDS Naturals, Sequences

CONSTANTS Values, CAPACITY

VARIABLE q

Init == q = <<>>

Put(v) == q' = Append(q, v)
Get == q # <<>> /\ q' = Tail(q)
PutGet(v) == q # <<>> /\ q' = Append(Tail(q), v)

Next == (Get \/ \E v \in Values : Put(v) \/ PutGet(v)) /\ Len(q') <= CAPACITY

Spec == Init /\ [][Next]_q
=============================================================================
