------------------------------ MODULE FifoOps ------------------------------
(***************************************************************************)
(* One clock cycle of fallthrough_small_fifo.v as an operator on a record: *)
(* the small_fifo (its contents as a sequence, see SmallFifo), its output  *)
(* register and the two registers that make the oldest word visible before *)
(* it is read.  A register keeps its word when it is no longer valid.      *)
(***************************************************************************)
EXTENDS Naturals, Sequences

\* The states of a FIFO of words in S.
Fifo(S) ==
    [fifo : Seq(S), fifo_dout : S, fifo_valid : BOOLEAN,
     middle : S, middle_valid : BOOLEAN, dout : S, dout_valid : BOOLEAN]

\* After reset, with output word d.
NewFifo(d) ==
    [fifo |-> <<>>, fifo_dout |-> d, fifo_valid |-> FALSE,
     middle |-> d, middle_valid |-> FALSE, dout |-> d, dout_valid |-> FALSE]

Empty(f) == ~f.dout_valid
Depth(f) == Len(f.fifo)

WillUpdateDout(f, rd_en) ==
    (f.middle_valid \/ f.fifo_valid) /\ (rd_en \/ ~f.dout_valid)
WillUpdateMiddle(f, rd_en) ==
    f.fifo_valid /\ f.middle_valid = WillUpdateDout(f, rd_en)

FifoRdEn(f) ==
    f.fifo # <<>> /\ ~(f.middle_valid /\ f.dout_valid /\ f.fifo_valid)

FifoClock(f, wr_en, din, rd_en) ==
    LET to_dout   == WillUpdateDout(f, rd_en)
        to_middle == WillUpdateMiddle(f, rd_en)
        fetch     == FifoRdEn(f)
    IN  [fifo         |-> (IF fetch THEN Tail(f.fifo) ELSE f.fifo)
                            \o (IF wr_en THEN <<din>> ELSE <<>>),
         fifo_dout    |-> IF fetch THEN Head(f.fifo) ELSE f.fifo_dout,
         fifo_valid   |-> fetch \/ (f.fifo_valid /\ ~to_middle /\ ~to_dout),
         middle       |-> IF to_middle THEN f.fifo_dout ELSE f.middle,
         middle_valid |-> to_middle \/ (f.middle_valid /\ ~to_dout),
         dout         |-> IF ~to_dout THEN f.dout
                          ELSE IF f.middle_valid THEN f.middle ELSE f.fifo_dout,
         dout_valid   |-> to_dout \/ (f.dout_valid /\ ~rd_en)]

\* The words in the FIFO, oldest first.
Words(f) == (IF f.dout_valid THEN <<f.dout>> ELSE <<>>)
              \o (IF f.middle_valid THEN <<f.middle>> ELSE <<>>)
              \o (IF f.fifo_valid THEN <<f.fifo_dout>> ELSE <<>>)
              \o f.fifo
=============================================================================
