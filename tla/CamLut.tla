------------------------------- MODULE CamLut -------------------------------
(***************************************************************************)
(* unencoded_cam_lut_sm.v: a CAM (or TCAM) that finds the rows matching a  *)
(* key and a look-up table (LUT) that holds each row's data.  The LPM, ARP *)
(* and destination-filter tables of the router are three instances of it.  *)
(*                                                                         *)
(* One step is one clock cycle.  A lookup takes four cycles: the CAM       *)
(* compares, the match vector is latched, the lowest row is encoded, the   *)
(* LUT is read.  Register reads and writes share the LUT with the lookups. *)
(* The CAM itself is an external core that takes WRITE_CYCLES cycles to    *)
(* rewrite a row, during which that row may match the old key, the new     *)
(* key, or neither.                                                        *)
(***************************************************************************)
EXTENDS Naturals, FiniteSets, FiniteSetsExt

CONSTANTS
    ROWS,           \* LUT_DEPTH
    Keys, Data,     \* lookup keys and row data
    NoKey,          \* RESET_CMP_DATA: what a row holds after reset
    NoData,         \* RESET_DATA
    None,           \* no request in this cycle
    WRITE_CYCLES    \* cycles the CAM is busy with one write (16)

Rows == 0 .. ROWS - 1
Row == [key : Keys \cup {NoKey}, data : Data \cup {NoData}]
ResetRow == [key |-> NoKey, data |-> NoData]

\* What the constants have to be: a table has rows, a write takes time.
Parameters ==
    /\ ROWS \in Nat \ {0} /\ WRITE_CYCLES \in Nat \ {0}
    /\ None \notin [row : Rows, val : Row]

VARIABLES
    state,      \* "RESET" or "READY"
    reset_count,\* rows initialised so far
    cam,        \* the key stored in each CAM row
    busy,       \* cycles the CAM still needs for its current write
    wr,         \* cam_we with its address and row, or None
    writing,    \* the write the CAM is performing, or None
    lut,        \* the look-up table
    lookup,     \* the lookup in flight
    lut_rd_addr, lut_rd_data,
    rd,         \* the register read in flight
    ack         \* lookup_ack with its result, or None

vars == <<state, reset_count, cam, busy, wr, writing, lut, lookup,
          lut_rd_addr, lut_rd_data, rd, ack>>

-----------------------------------------------------------------------------
MatchRows(c, k) == {r \in Rows : c[r] = k}

\* The match vectors the CAM may report for key k (external).
CamMatches(k) ==
    IF writing = None THEN {MatchRows(cam, k)}
    ELSE LET others == MatchRows(cam, k) \ {writing.row}
         IN  IF k \in {cam[writing.row], writing.val.key}
             THEN {others, others \cup {writing.row}} ELSE {others}

\* The answer when the rows of set m match and the table is t.
Found(m, t) ==
    IF m = {} THEN [hit |-> FALSE, data |-> NoData]
    ELSE [hit |-> TRUE, data |-> t[Min(m)].data]

\* What a lookup of key k may answer when it meets write w, or None: what the
\* table holds for k.  Only if k is the key that leaves the row, or the one
\* that enters it, the row may count or not, and its data are the new ones.
Expected(k, w) ==
    LET m == MatchRows(cam, k)
    IN  IF w = None \/ k \notin {cam[w.row], w.val.key} THEN {Found(m, lut)}
        ELSE {Found(s, [lut EXCEPT ![w.row] = w.val]) :
                 s \in {m \ {w.row}, m \cup {w.row}}}

\* The lookup pipeline: stage 1 is lookup_latched, 2 cam_match_found (or
\* cam_lookup_done alone, on a miss), 3 cam_match_found_d1.  The history
\* field holds the answers that are right.
NoLookup == [stage |-> 0, rows |-> {}, expected |-> {}]
MatchFound == lookup.stage = 2 /\ lookup.rows # {}
MatchFoundD1 == lookup.stage = 3 /\ lookup.rows # {}

\* Mutant: the write guard does not look at the pipeline.
CanWriteUnguarded == busy = 0

\* Handle writes: the condition under which wr_req is honoured.
CanWrite == busy = 0 /\ lookup.stage # 1 /\ ~MatchFound /\ ~MatchFoundD1

\* The write that a lookup meets when it is requested together with write
\* request wq: on its way to the memories, in the CAM, or accepted now (the
\* condition tests lookup_latched, not lookup_req).
Meets(wq) ==
    IF wr # None THEN wr
    ELSE IF writing # None THEN writing
    ELSE IF wq # None /\ CanWrite THEN wq ELSE None

-----------------------------------------------------------------------------
\* The memories hold anything before reset.
Init ==
    /\ state = "RESET" /\ reset_count = 0
    /\ cam \in [Rows -> Keys \cup {NoKey}]
    /\ busy = 0 /\ wr = None /\ writing = None
    /\ lut \in [Rows -> Row]
    /\ lookup = NoLookup
    /\ lut_rd_addr = 0 /\ lut_rd_data = ResetRow
    /\ rd = [stage |-> 0, row |-> 0, expected |-> None]
    /\ ack = None

\* The CAM's own clocked behaviour: it takes a write when it is not busy.
CamClock ==
    CASE busy = 0 /\ wr # None -> /\ busy' = WRITE_CYCLES
                                  /\ writing' = wr
                                  /\ UNCHANGED cam
      [] busy = 1 -> /\ busy' = 0 /\ writing' = None
                     /\ cam' = [cam EXCEPT ![writing.row] = writing.val.key]
      [] busy > 1 -> busy' = busy - 1 /\ UNCHANGED <<cam, writing>>
      [] OTHER    -> UNCHANGED <<busy, cam, writing>>

LutClock ==
    lut' = IF wr # None THEN [lut EXCEPT ![wr.row] = wr.val] ELSE lut

\* A cycle in state RESET: the next row is reset when the CAM is free.
ResetClock ==
    /\ state = "RESET"
    /\ CamClock /\ LutClock
    /\ IF busy # 0 THEN UNCHANGED <<state, reset_count, wr>>
       ELSE IF reset_count = ROWS
       THEN state' = "READY" /\ wr' = None /\ UNCHANGED reset_count
       ELSE /\ reset_count' = reset_count + 1
            /\ wr' = [row |-> reset_count, val |-> ResetRow]
            /\ UNCHANGED state
    /\ UNCHANGED <<lookup, lut_rd_addr, lut_rd_data, rd, ack>>

\* The pipeline, when lk is the key requested in this cycle (or None) and
\* wq the write requested.
LookupClock(lk, wq) ==
    /\ \/ /\ lk # None /\ lookup.stage = 0
          /\ \E m \in CamMatches(lk) :
                lookup' = [stage |-> 1, rows |-> m, expected |-> Expected(lk, Meets(wq))]
       \/ /\ lk = None
          /\ lookup' = IF lookup.stage \in {0, 3} THEN NoLookup
                       ELSE [lookup EXCEPT !.stage = @ + 1]
    /\ ack' = IF lookup.stage # 3 THEN None
              ELSE [hit |-> lookup.rows # {}, data |-> lut[lut_rd_addr].data,
                    expected |-> lookup.expected]

\* Register reads: a request in the cycle of a match is dropped.  In a cycle
\* with neither, the encoder's default row is read and nobody looks.
ReadClock(rq) ==
    /\ lut_rd_addr' = IF rq # None /\ ~MatchFound THEN rq
                      ELSE IF MatchFound THEN Min(lookup.rows) ELSE ROWS - 1
    /\ rd' = IF rq # None /\ ~MatchFound THEN [stage |-> 1, row |-> rq, expected |-> None]
             ELSE IF rd.stage = 1 THEN [rd EXCEPT !.stage = 2, !.expected = lut[rd.row]]
             ELSE [stage |-> 0, row |-> 0, expected |-> None]
    /\ lut_rd_data' = lut[lut_rd_addr]

\* A cycle in state READY.  A write request that finds the table in use is
\* ignored: nothing latches it.
ReadyClock(lk, rq, wq) ==
    /\ state = "READY"
    /\ CamClock /\ LutClock
    /\ LookupClock(lk, wq)
    /\ ReadClock(rq)
    /\ wr' = IF wq # None /\ CanWrite THEN wq ELSE None
    /\ UNCHANGED <<state, reset_count>>

\* The indirect-access registers issue one command at a time and never in
\* two consecutive cycles.
Requests ==
    [row : Rows, val : [key : Keys, data : Data]]

Next ==
    \/ ResetClock
    \/ \E lk \in Keys \cup {None} : ReadyClock(lk, None, None)
    \/ \E lk \in Keys \cup {None}, rq \in Rows : ReadyClock(lk, rq, None)
    \/ \E lk \in Keys \cup {None}, wq \in Requests :
          wr = None /\ ReadyClock(lk, None, wq)

Spec == Init /\ [][Next]_vars /\ WF_vars(Next)

-----------------------------------------------------------------------------
\* The types of the variables.
TypeOK ==
    /\ state \in {"RESET", "READY"} /\ reset_count \in 0 .. ROWS
    /\ cam \in [Rows -> Keys \cup {NoKey}]
    /\ busy \in 0 .. WRITE_CYCLES /\ (busy = 0 <=> writing = None)
    /\ lut \in [Rows -> Row]
    /\ lookup.stage \in 0 .. 3 /\ lookup.rows \subseteq Rows
    /\ lut_rd_addr \in Rows /\ lut_rd_data \in Row
    /\ rd.stage \in 0 .. 2

(* When no write is under way, the CAM and the LUT describe the same table *)
(* (the two memories are written by one cam_we, at different speeds).      *)
MemoriesAgree ==
    /\ TypeOK
    /\ state = "READY" /\ wr = None /\ writing = None =>
          \A r \in Rows : cam[r] = lut[r].key

(* Every lookup answers as the table would in the one cycle of its request, *)
(* whatever reads and writes come in its four cycles.  When the request    *)
(* meets a write, on its way, in the CAM or accepted in the very cycle of  *)
(* the request ("Handle writes", unencoded_cam_lut_sm.v:201, looks only at *)
(* the stages behind it), that still holds for every key but two: a lookup *)
(* of the row's old key may find the new key's data there, and one of      *)
(* either key may miss the row.                                            *)
LookupIsExact ==
    ack # None =>
       \E a \in ack.expected : ack.hit = a.hit /\ (ack.hit => ack.data = a.data)

(* A register read that is acknowledged returns the row that was asked for *)
(* and not the row of a packet's lookup that runs in the same cycles.      *)
ReadReturnsRow == rd.stage = 2 => lut_rd_data = rd.expected

(* A lookup answers as the table does when it is requested, but for the    *)
(* two keys of a row that is being rewritten just then, which may see the  *)
(* row's new data or not see the row; a register read returns the row      *)
(* asked for, and the CAM and the LUT hold the same table when no write is *)
(* under way (unencoded_cam_lut_sm.v:176-215).                             *)
TableIsCoherent == LookupIsExact /\ ReadReturnsRow /\ MemoriesAgree

=============================================================================
