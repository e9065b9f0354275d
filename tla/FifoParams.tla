----------------------------- MODULE FifoParams -----------------------------
(***************************************************************************)
(* The parameters of small_fifo.v and fallthrough_small_fifo.v: the values *)
(* a word can have and the depth, in the code 2 ** MAX_DEPTH_BITS.         *)
(***************************************************************************)
EXTENDS Naturals, Sequences

CONSTANTS Values, MAX_DEPTH

ASSUME FifoAssumption == Values # {} /\ MAX_DEPTH \in Nat \ {0}
=============================================================================
