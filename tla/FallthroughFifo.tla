-------------------------- MODULE FallthroughFifo --------------------------
(***************************************************************************)
(* fallthrough_small_fifo.v, the FIFO at every interface of the data path: *)
(* a small_fifo and the registers that make its oldest word visible before *)
(* it is read.  Its user writes only when there is room and reads only     *)
(* when empty is low.                                                      *)
(***************************************************************************)
EXTENDS FifoParams

VARIABLES
    queue, rd_ptr, wr_ptr, depth, fifo_dout,    \* the small_fifo
    fifo_valid, middle_valid, dout_valid, middle_dout, dout,
    hidden  \* history: cycles for which empty has been high over a word

vars == <<queue, rd_ptr, wr_ptr, depth, fifo_dout, fifo_valid, middle_valid, dout_valid,
          middle_dout, dout, hidden>>

fifo == INSTANCE SmallFifo WITH dout <- fifo_dout

\* The contents of the small_fifo, and of the registers, as FifoOps has them.
State == [fifo |-> fifo!Contents, fifo_dout |-> fifo_dout, fifo_valid |-> fifo_valid,
          middle |-> middle_dout, middle_valid |-> middle_valid,
          dout |-> dout, dout_valid |-> dout_valid]

Ops == INSTANCE FifoOps

Init ==
    /\ fifo!Init
    /\ fifo_valid = FALSE /\ middle_valid = FALSE /\ dout_valid = FALSE
    /\ dout = (CHOOSE v \in Values : TRUE) /\ middle_dout = dout
    /\ hidden = 0

empty == ~dout_valid
will_update_dout(rd_en) == (middle_valid \/ fifo_valid) /\ (rd_en \/ ~dout_valid)

will_update_middle(rd_en) == fifo_valid /\ middle_valid = will_update_dout(rd_en)

fifo_rd_en == ~fifo!empty /\ ~(middle_valid /\ dout_valid /\ fifo_valid)

\* Mutant: a fetch does not keep fifo_valid up while the register moves on.
RegistersDropFetch(rd_en) ==
    LET to_dout   == will_update_dout(rd_en)
        to_middle == will_update_middle(rd_en)
    IN  /\ middle_dout' = IF to_middle THEN fifo_dout ELSE middle_dout
        /\ dout' = IF ~to_dout THEN dout ELSE IF middle_valid THEN middle_dout ELSE fifo_dout
        /\ fifo_valid' = ((fifo_rd_en \/ fifo_valid) /\ ~to_middle /\ ~to_dout)
        /\ middle_valid' = (to_middle \/ (middle_valid /\ ~to_dout))
        /\ dout_valid' = (to_dout \/ (dout_valid /\ ~rd_en))

Registers(rd_en) ==
    LET to_dout   == will_update_dout(rd_en)
        to_middle == will_update_middle(rd_en)
    IN  /\ middle_dout' = IF to_middle THEN fifo_dout ELSE middle_dout
        /\ dout' = IF ~to_dout THEN dout ELSE IF middle_valid THEN middle_dout ELSE fifo_dout
        /\ fifo_valid' = (fifo_rd_en \/ (fifo_valid /\ ~to_middle /\ ~to_dout))
        /\ middle_valid' = (to_middle \/ (middle_valid /\ ~to_dout))
        /\ dout_valid' = (to_dout \/ (dout_valid /\ ~rd_en))

Clock(wr_en, din, rd_en) ==
    /\ fifo!Clock(wr_en, din, fifo_rd_en)
    /\ Registers(rd_en)
    /\ hidden' = IF ~dout_valid' /\ Ops!Words(State)' # <<>> THEN hidden + 1 ELSE 0

Next ==
    \E wr_en, rd_en \in BOOLEAN, din \in Values :
        /\ wr_en => ~fifo!full
        /\ rd_en => ~empty
        /\ Clock(wr_en, din, rd_en)

Spec == Init /\ [][Next]_vars

-----------------------------------------------------------------------------
\* The types of the variables.
TypeOK ==
    /\ fifo!TypeOK
    /\ middle_dout \in Values /\ dout \in Values
    /\ fifo_valid \in BOOLEAN /\ middle_valid \in BOOLEAN /\ dout_valid \in BOOLEAN

(* A cycle of the circular buffer and the registers is a cycle of FifoOps, *)
(* the form in which the modules of the data path use this FIFO.           *)
StepIsFifoClock ==
    \E wr_en, rd_en \in BOOLEAN, din \in Values :
        State' = Ops!FifoClock(State, wr_en, din, rd_en)

Queue == INSTANCE BoundedQueue WITH q <- Ops!Words(State), CAPACITY <- MAX_DEPTH + 3

=============================================================================
