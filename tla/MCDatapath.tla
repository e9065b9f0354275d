----------------------------- MODULE MCDatapath -----------------------------
(***************************************************************************)
(* The parts of the datapath that store packets: input_arbiter, the           *)
(* fall-through FIFO and output_queues.  They share no state; in a behaviour  *)
(* one of them, unit, is clocked, and the others keep their reset state.      *)
(***************************************************************************)
EXTENDS OutputQueues, FifoParams

VARIABLES
    unit,
    in_fifo, ia_state, ia_cur_queue, sent, received, passed,
    queue, rd_ptr, wr_ptr, depth, fifo_dout, fifo_valid, middle_valid, dout_valid,
    middle_dout, dout, hidden

arbiterVars == <<in_fifo, ia_state, ia_cur_queue, sent, received, passed>>
fifoVars == <<queue, rd_ptr, wr_ptr, depth, fifo_dout, fifo_valid, middle_valid, dout_valid,
              middle_dout, dout, hidden>>
mcVars == <<unit, vars, arbiterVars, fifoVars>>

(* Two inputs, FIFOs of two words and packets of up to two.                   *)
IA == INSTANCE InputArbiter WITH
        NUM_QUEUES <- 2, MAX_DEPTH <- 2, MAX_WORDS <- 2,
        state <- ia_state, cur_queue <- ia_cur_queue
FF == INSTANCE FallthroughFifo

(* The memory of the FIFO powers up with any contents.                        *)
MCInit ==
    /\ unit \in {"output_queues", "input_arbiter", "fifo"}
    /\ Init /\ IA!Init /\ FF!Init
    /\ unit # "fifo" => fifo_dout = dout /\ \A i \in DOMAIN queue : queue[i] = dout

MCNext ==
    \/ unit = "output_queues" /\ Next /\ UNCHANGED <<unit, arbiterVars, fifoVars>>
    \/ unit = "input_arbiter" /\ IA!Next /\ UNCHANGED <<unit, vars, fifoVars>>
    \/ unit = "fifo" /\ FF!Next /\ UNCHANGED <<unit, vars, arbiterVars>>

MCSpec == MCInit /\ [][MCNext]_mcVars

-----------------------------------------------------------------------------
(* An input with a packet to send waits for at most one packet of every other    *)
(* input, and what the arbiter sends on is one whole packet after the other         *)
(* (input_arbiter.v, "cycle between input queues until one is not empty").  The       *)
(* types of the arbiter and of the FIFO are checked with it.                        *)
InputsTakeTurns ==
    /\ IA!TypeOK /\ FF!TypeOK
    /\ unit = "input_arbiter" => IA!BoundedBypass /\ IA!PacketsAreWhole

(* Across the small_fifo and the registers behind it no word is lost, doubled or   *)
(* overtaken: the FIFO implements BoundedQueue, and its cycle is the one of FifoOps  *)
(* that the modules of the datapath use; a word it holds is on its output within    *)
(* two cycles (fallthrough_small_fifo.v).                                           *)
ImplementsQueue ==
    /\ unit = "fifo" => FF!Queue!Init
    /\ [][unit = "fifo" => /\ FF!StepIsFifoClock /\ hidden' <= 2
                          /\ [FF!Queue!Next]_(FF!Ops!Words(FF!State))]_mcVars
=============================================================================
