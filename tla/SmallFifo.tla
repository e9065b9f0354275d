----------------------------- MODULE SmallFifo -----------------------------
(***************************************************************************)
(* small_fifo.v: a circular buffer of MAX_DEPTH words with read and write  *)
(* pointers that wrap at MAX_DEPTH and a depth counter one bit wider.  A   *)
(* step is a clock cycle; wr_en, din and rd_en are its inputs.             *)
(***************************************************************************)
EXTENDS FifoParams

VARIABLES queue, rd_ptr, wr_ptr, depth, dout
vars == <<queue, rd_ptr, wr_ptr, depth, dout>>

full == depth = MAX_DEPTH
empty == depth = 0

\* The memory is not initialised.
Init ==
    /\ queue \in [0 .. MAX_DEPTH - 1 -> Values]
    /\ rd_ptr = 0 /\ wr_ptr = 0 /\ depth = 0
    /\ dout \in Values

Pointer(p) == (p + 1) % MAX_DEPTH

DepthClock(wr_en, rd_en) ==
    depth' = CASE wr_en /\ ~rd_en -> (depth + 1) % (2 * MAX_DEPTH)
               [] ~wr_en /\ rd_en -> (depth - 1) % (2 * MAX_DEPTH)
               [] OTHER           -> depth

Clock(wr_en, din, rd_en) ==
    /\ queue' = IF wr_en THEN [queue EXCEPT ![wr_ptr] = din] ELSE queue
    /\ dout' = IF rd_en THEN queue[rd_ptr] ELSE dout
    /\ wr_ptr' = IF wr_en THEN Pointer(wr_ptr) ELSE wr_ptr
    /\ rd_ptr' = IF rd_en THEN Pointer(rd_ptr) ELSE rd_ptr
    /\ DepthClock(wr_en, rd_en)

\* The user never writes to the full FIFO, save while reading, and never
\* reads the empty one: the two errors the simulation reports.
Next ==
    \E wr_en, rd_en \in BOOLEAN, din \in Values :
        /\ wr_en => ~full \/ rd_en
        /\ rd_en => ~empty
        /\ Clock(wr_en, din, rd_en)

Spec == Init /\ [][Next]_vars

-----------------------------------------------------------------------------
\* The types of the variables.
TypeOK ==
    /\ queue \in [0 .. MAX_DEPTH - 1 -> Values] /\ dout \in Values
    /\ rd_ptr \in 0 .. MAX_DEPTH - 1 /\ wr_ptr \in 0 .. MAX_DEPTH - 1
    /\ depth \in 0 .. MAX_DEPTH

(* The depth counter and the two pointers agree: nothing is counted that   *)
(* is not stored, also when the FIFO is full and the pointers are equal.   *)
DepthMatchesPointers == wr_ptr = (rd_ptr + depth) % MAX_DEPTH

Contents == [k \in 1 .. depth |-> queue[(rd_ptr + k - 1) % MAX_DEPTH]]

Queue == INSTANCE BoundedQueue WITH q <- Contents, CAPACITY <- MAX_DEPTH

(* The circular buffer implements the bounded queue, wrap-around included. *)
ImplementsQueue == Queue!Spec
=============================================================================
