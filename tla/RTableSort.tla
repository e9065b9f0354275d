----------------------------- MODULE RTableSort -----------------------------
(***************************************************************************)
(* The bubble sort inside trigger_rtable_modified (or_rtable.c), step by   *)
(* step: a pass walks the list with cur and exchanges the data of two       *)
(* neighbours, and passes repeat until one makes no exchange.  The rtable   *)
(* lock is held meanwhile, so a sort that cycles stops the router.          *)
(***************************************************************************)
EXTENDS RouteOrder

CONSTANTS
    Entries,    \* entries a list is made of
    MAX_LEN     \* bound on the length of the list

VARIABLES
    list,       \* rs->rtable
    cur,        \* position of the walker
    swapped,    \* the flag of the do-while loop
    done,       \* the loop has been left
    orig        \* history: the list before the sort

sortVars == <<list, cur, swapped, done, orig>>

Init ==
    /\ \E n \in 0 .. MAX_LEN : list \in [1 .. n -> Entries]
    /\ cur = 1
    /\ swapped = FALSE
    /\ done = FALSE
    /\ orig = list

Exchange(s, i) == [s EXCEPT ![i] = s[i + 1], ![i + 1] = s[i]]

\* One iteration of while (cur && cur->next).
Step ==
    /\ ~done /\ cur < Len(list)
    /\ LET x == Swap(list[cur], list[cur + 1])
       IN  /\ list' = IF x THEN Exchange(list, cur) ELSE list
           /\ swapped' = (swapped \/ x)
    /\ cur' = cur + 1
    /\ UNCHANGED <<done, orig>>

\* Mutant: the loop is left after its first pass.
PassEndNoRepeat ==
    /\ ~done /\ cur >= Len(list)
    /\ done' = TRUE
    /\ UNCHANGED <<list, cur, swapped, orig>>

\* The end of a pass: while (swapped).
PassEnd ==
    /\ ~done /\ cur >= Len(list)
    /\ IF swapped THEN cur' = 1 /\ swapped' = FALSE /\ UNCHANGED done
                  ELSE done' = TRUE /\ UNCHANGED <<cur, swapped>>
    /\ UNCHANGED <<list, orig>>

Next == Step \/ PassEnd

Spec == Init /\ [][Next]_sortVars /\ WF_sortVars(Next)

-----------------------------------------------------------------------------
\* The types of the variables.
TypeOK ==
    /\ list \in Seq(Entries) /\ orig \in Seq(Entries) /\ Len(list) = Len(orig)
    /\ cur = 1 \/ cur \in DOMAIN list
    /\ swapped \in BOOLEAN /\ done \in BOOLEAN

(* The list the loop leaves behind is the stable sort of the one it found, *)
(* the result that the model of trigger_rtable_modified in RTable assumes   *)
(* (or_rtable.c:230-250).                                                   *)
SortsStably == TypeOK /\ (done => list = SortedSeq(orig, DOMAIN orig))

=============================================================================
