---------------------------- MODULE TableAccess ----------------------------
(***************************************************************************)
(* How SCONE's threads reach the hardware tables.  Every table row is      *)
(* written (or read back) through one shared set of indirect registers:    *)
(* data words, INDIRECTADDRESS, INDIRECTCOMMAND and the reply words.       *)
(* output_port_lookup_cpu_regs.v turns a command into a one-cycle request  *)
(* to the selected table.                                                  *)
(*                                                                         *)
(* A user is a thread in one of the functions below.  Each holds the lock  *)
(* of its own software table, or none (the "show hw" commands), so users   *)
(* of different tables do not exclude each other.                          *)
(*                                                                         *)
(* INDIRECTCONFIG keeps its default 0, since no software writes it: a      *)
(* write waits for no acknowledgement and a read "times out" at once.  An  *)
(* access is a system call and takes far longer than a table write, hence  *)
(* Settled in the guard of Access.                                         *)
(***************************************************************************)
EXTENDS Naturals, Sequences

CONSTANTS
    Users,      \* the threads that access the tables
    ROWS,       \* rows of each table
    LOOKUPS,    \* TRUE when packets are looked up meanwhile
    PASSES      \* bound: passes over its table that each user makes

Writers == {"rtable", "arp", "filter"}
Readers == {"show_rtable", "show_arp", "show_filter"}

Mems == {"lpm", "arp", "dst"}
Rows == 0 .. ROWS - 1
Words == {"A_HI", "A_LOW", "B_HI", "B_LOW"}

Mem(u) == CASE u \in {"rtable", "show_rtable"} -> "lpm"
            [] u \in {"arp", "show_arp"}       -> "arp"
            [] OTHER                           -> "dst"

VARIABLES
    pc, row,    \* each user's place in its script, and the row it is at
    ver,        \* the version a user is writing or reading, 0 before the first
    got,        \* what a reader read
    data, addr, \* INDIRECTWRDATA_*, INDIRECTADDRESS
    cmd,        \* INDIRECTCOMMAND: "none", "write" or "read"
    istate,     \* indirect_state
    iaddr,      \* indirect_address with indirect_memory_select
    pulse,      \* the registered command to the tables: "none", "write", "read"
    mem,        \* the contents of each table
    reply,      \* the last answer of each table
    want, seen, \* history: the row last ordered, the row when it was read
    met,        \* history: the users disturbed in the row they are at
    hurt        \* history: the rows written or read by a user disturbed

soft == <<pc, row, ver, got>>
vars == <<soft, data, addr, cmd, istate, iaddr, pulse, mem, reply, want, seen, met, hurt>>

Blank == [w \in Words |-> <<>>]

-----------------------------------------------------------------------------
\* Mutant: the command is issued before the row number is set.
WriteCommandFirst == <<"A_HI", "B_HI", "A_LOW", "B_LOW", "COMMAND", "ADDRESS">>

\* The registers each function accesses for one row, in order: a writer
\* writes the data words, a "show" function reads the reply words.
write_rtable_to_hw == <<"A_HI", "B_HI", "A_LOW", "B_LOW", "ADDRESS", "COMMAND">>
write_arp_cache_entry_to_hw == <<"A_HI", "A_LOW", "B_LOW", "ADDRESS", "COMMAND">>
trigger_local_ip_filters_change == <<"B_LOW", "ADDRESS", "COMMAND">>

sprint_hw_rtable == <<"ADDRESS", "COMMAND", "A_HI", "B_HI", "A_LOW", "B_LOW">>
sprint_hw_arp_cache == <<"ADDRESS", "COMMAND", "B_LOW", "A_HI", "A_LOW">>
sprint_hw_local_ip_filter == <<"ADDRESS", "COMMAND", "B_LOW">>

Script(u) == CASE u = "rtable"      -> write_rtable_to_hw
               [] u = "arp"         -> write_arp_cache_entry_to_hw
               [] u = "filter"      -> trigger_local_ip_filters_change
               [] u = "show_rtable" -> sprint_hw_rtable
               [] u = "show_arp"    -> sprint_hw_arp_cache
               [] u = "show_filter" -> sprint_hw_local_ip_filter

Finished(u) == row[u] = ROWS

\* No command is under way.
Settled == cmd = "none" /\ istate = "IDLE" /\ pulse = "none"

Init ==
    /\ pc = [u \in Users |-> 1] /\ row = [u \in Users |-> ROWS]
    /\ ver = [u \in Users |-> 0]
    /\ got = [u \in Users \cap Readers |-> [r \in Rows |-> Blank]]
    /\ seen = got
    /\ data = Blank /\ addr = <<"lpm", 0>> /\ cmd = "none"
    /\ istate = "IDLE" /\ iaddr = <<"lpm", 0>> /\ pulse = "none"
    /\ mem = [m \in Mems |-> [r \in Rows |-> Blank]]
    /\ reply = [m \in Mems |-> Blank]
    /\ want = mem /\ met = {} /\ hurt = {}

\* A user starts a pass over its table: a writer with new contents.
Start(u) ==
    /\ Finished(u) /\ Settled /\ ver[u] < PASSES
    /\ row' = [row EXCEPT ![u] = 0]
    /\ ver' = [ver EXCEPT ![u] = @ + 1]
    /\ UNCHANGED <<pc, got, data, addr, cmd, istate, iaddr, pulse, mem, reply,
                   want, seen, met, hurt>>

\* The word a writer stores: it identifies the writer, the row and the version.
Word(u) == <<u, row[u], ver[u]>>

\* The words a table has room for: the bits of the data bus it takes.
Kept(m) == CASE m = "lpm" -> Words
             [] m = "arp" -> {"A_HI", "A_LOW", "B_LOW"}
             [] m = "dst" -> {"B_LOW"}
Stored(m, d) == [w \in Words |-> IF w \in Kept(m) THEN d[w] ELSE <<>>]

\* The loop over the rows: the next access of this row, or the next row.
Advance(u) ==
    IF pc[u] < Len(Script(u))
    THEN pc' = [pc EXCEPT ![u] = @ + 1] /\ UNCHANGED row
    ELSE pc' = [pc EXCEPT ![u] = 1] /\ row' = [row EXCEPT ![u] = @ + 1]

Place(u) == <<Mem(u), row[u]>>

\* What the history records of an access to register reg.  A user is met
\* when another one sets a register between two accesses of its row.  The
\* row of a user that was met is hurt, and so is the row its command goes
\* to, until a user that was not met writes or reads the row again.
Record(u, reg) ==
    LET last == pc[u] = Len(Script(u))
        mine == IF u \in Readers THEN <<u, row[u]>> ELSE Place(u)
    IN  /\ met' = (met \ (IF last THEN {u} ELSE {}))
                   \cup (IF u \in Readers /\ reg \in Words THEN {}
                         ELSE {v \in Users \ {u} : pc[v] # 1})
        /\ hurt' = IF ~last THEN hurt
                   ELSE IF u \notin met THEN hurt \ {mine}
                   ELSE hurt \cup {mine} \cup (IF u \in Writers THEN {addr} ELSE {})
        /\ want' = IF last /\ u \in Writers
                   THEN [want EXCEPT ![Mem(u)][row[u]] =
                            Stored(Mem(u), [w \in Words |-> Word(u)])] ELSE want
        /\ seen' = IF last /\ u \in Readers
                   THEN [seen EXCEPT ![u][row[u]] = mem[Mem(u)][row[u]]] ELSE seen

\* One register access of user u.
Access(u) ==
    /\ ~Finished(u) /\ Settled
    /\ LET reg == Script(u)[pc[u]]
       IN  /\ addr' = IF reg = "ADDRESS" THEN Place(u) ELSE addr
           /\ cmd' = IF reg = "COMMAND"
                     THEN IF u \in Writers THEN "write" ELSE "read" ELSE cmd
           /\ data' = IF reg \in Words /\ u \in Writers
                      THEN [data EXCEPT ![reg] = Word(u)] ELSE data
           /\ got' = IF reg \in Words /\ u \in Readers
                     THEN [got EXCEPT ![u][row[u]][reg] = reply[iaddr[1]][reg]] ELSE got
           /\ Record(u, reg)
    /\ Advance(u)
    /\ UNCHANGED <<ver, istate, iaddr, pulse, mem, reply>>

-----------------------------------------------------------------------------
\* The indirect-access state machine and its registered outputs.
Indirect ==
    /\ istate' = CASE istate = "IDLE"  -> IF cmd = "write" THEN "WRITE"
                                          ELSE IF cmd = "read" THEN "READ" ELSE "IDLE"
                   [] istate = "WRITE" -> "WRITE_WAIT"
                   [] istate = "READ"  -> "READ_WAIT"
                   [] istate \in {"WRITE_WAIT", "READ_WAIT"} -> "DONE"
                   [] istate = "DONE"  -> "IDLE"
    /\ iaddr' = IF istate = "IDLE" /\ cmd # "none" THEN addr ELSE iaddr
    /\ cmd' = IF istate = "DONE" THEN "none" ELSE cmd
    /\ pulse' = IF istate \in {"WRITE", "READ"} THEN cmd ELSE "none"

\* The selected table takes the request in the cycle it is offered, or, when
\* a lookup is in its pipeline, not at all (CanWrite and ReadClock of CamLut).
Table ==
    \E free \in IF LOOKUPS THEN BOOLEAN ELSE {TRUE} :
        LET m == iaddr[1]
            r == iaddr[2]
        IN  /\ mem' = IF pulse = "write" /\ free
                      THEN [mem EXCEPT ![m][r] = Stored(m, data)] ELSE mem
            /\ reply' = IF pulse = "read" /\ free
                        THEN [reply EXCEPT ![m] = mem[m][r]] ELSE reply
            /\ hurt' = IF pulse = "write" /\ ~free THEN hurt \cup {iaddr} ELSE hurt
            /\ met' = IF pulse = "read" /\ ~free
                      THEN met \cup {u \in Users : pc[u] # 1} ELSE met

Clock ==
    /\ ~Settled
    /\ Indirect /\ Table
    /\ UNCHANGED <<soft, data, addr, want, seen>>

Next == Clock \/ \E u \in Users : Start(u) \/ Access(u)

Spec == Init /\ [][Next]_vars /\ WF_vars(Clock)

-----------------------------------------------------------------------------
\* The types of the variables.
TypeOK ==
    /\ \A u \in Users : pc[u] \in 1 .. Len(Script(u)) /\ row[u] \in 0 .. ROWS /\ ver[u] \in 0 .. PASSES
    /\ addr \in Mems \X Rows /\ iaddr \in Mems \X Rows
    /\ cmd \in {"none", "write", "read"} /\ pulse \in {"none", "write", "read"}
    /\ istate \in {"IDLE", "WRITE", "WRITE_WAIT", "READ", "READ_WAIT", "DONE"}
    /\ \A m \in Mems, r \in Rows : DOMAIN mem[m][r] = Words

(* A writer that has been through all the rows of its table, and whose     *)
(* last command has been carried out, finds every row of the hardware      *)
(* table updated to what it wrote: or_rtable.c:258, "naively iterate       *)
(* through the 32 slots in hardware updating all entries", and             *)
(* write_arp_cache_to_hw and trigger_local_ip_filters_change alike.        *)
AllRowsUpdated ==
    \A u \in Users \cap Writers :
        Finished(u) /\ Settled /\ ver[u] # 0 =>
            \A r \in Rows : mem[Mem(u)][r] =
                               Stored(Mem(u), [w \in Words |-> <<u, r, ver[u]>>])

(* However the threads' accesses interleave, and whatever packets are      *)
(* looked up meanwhile: a row of a table is the last one that was written  *)
(* to it, and a row that "show hw" has read is the one the table held.     *)
(* The only rows that are not are those a thread was at when another       *)
(* thread set a register between two of its accesses, or a lookup made the *)
(* table ignore the request, and the row that such a thread's command went *)
(* to; and such a row is right again once it is written undisturbed        *)
(* (or_rtable.c:267-301, or_arp.c:711-743, or_output.c:1009-1098: no lock  *)
(* covers the registers).                                                  *)
DamageIsLocal ==
    /\ TypeOK
    /\ Settled => \A m \in Mems, r \in Rows :
                      <<m, r>> \notin hurt => mem[m][r] = want[m][r]
    /\ \A u \in Users \cap Readers, r \in Rows :
          r < row[u] /\ ver[u] # 0 /\ <<u, r>> \notin hurt => got[u][r] = seen[u][r]

=============================================================================
