------------------------- MODULE TableAccess_proofs -------------------------
(***************************************************************************)
(* For tables of every size and any set of users, whose accesses interleave   *)
(* in any way while packets are looked up: what SCONE writes through the      *)
(* indirect registers is what the tables hold, and what its "show hw"         *)
(* commands read is what the tables hold, except for the rows at which a user *)
(* was disturbed.                                                            *)
(***************************************************************************)
EXTENDS TableAccess, Integers, TLAPS

AccessParameters ==
    /\ Users \subseteq Writers \cup Readers
    /\ ROWS \in Nat \ {0} /\ LOOKUPS \in BOOLEAN /\ PASSES \in Nat

WritersHere == Users \cap Writers
ReadersHere == Users \cap Readers
Last(u) == Len(Script(u))

Val == {<<>>} \cup (Users \X (0 .. ROWS) \X (0 .. PASSES))
Contents == [Rows -> [Words -> Val]]

AccTypes ==
    /\ pc \in [Users -> Nat \ {0}] /\ row \in [Users -> 0 .. ROWS]
    /\ ver \in [Users -> 0 .. PASSES]
    /\ got \in [ReadersHere -> Contents] /\ seen \in [ReadersHere -> Contents]
    /\ data \in [Words -> Val] /\ addr \in Mems \X Rows /\ iaddr \in Mems \X Rows
    /\ mem \in [Mems -> Contents] /\ want \in [Mems -> Contents]
    /\ reply \in [Mems -> [Words -> Val]]
    /\ \A u \in Users : pc[u] <= Last(u) /\ (Finished(u) => pc[u] = 1)

(* A command on its way through the indirect registers.                       *)
Under(c, before, at) ==
    /\ cmd = c /\ istate \in {"IDLE", before, at, "DONE"}
    /\ pulse = IF istate = at THEN c ELSE "none"
    /\ istate # "IDLE" => iaddr = addr

Bus ==
    \/ Settled
    \/ Under("write", "WRITE", "WRITE_WAIT")
    \/ Under("read", "READ", "READ_WAIT")

(* Words a table has no room for stay empty.                                  *)
Narrow ==
    /\ \A m \in Mems, r \in Rows : \A w \in Words \ Kept(m) : mem[m][r][w] = <<>>
    /\ \A u \in ReadersHere, r \in Rows :
          \A w \in Words \ Kept(Mem(u)) : got[u][r][w] = <<>>

(* A row that is not hurt is the one ordered, or the order is on its way.       *)
Ordered(m, r) ==
    /\ cmd = "write" /\ istate # "DONE" /\ addr = <<m, r>>
    /\ Stored(m, data) = want[m][r]
Written ==
    \A m \in Mems, r \in Rows :
        <<m, r>> \notin hurt => mem[m][r] = want[m][r] \/ Ordered(m, r)

(* A command on its way is an order, or the row it goes to is hurt.            *)
Pending ==
    cmd = "write" /\ istate # "DONE" =>
        \A m \in Mems, r \in Rows : addr = <<m, r>> /\ addr \notin hurt => Ordered(m, r)

(* A writer that was not met finds in the registers what it has put there.       *)
WritingAt(u) ==
    ~Finished(u) /\ u \notin met =>
        /\ \A i \in 1 .. Last(u) - 2 : i < pc[u] => data[Script(u)[i]] = Word(u)
        /\ pc[u] = Last(u) => addr = Place(u)
Writing == \A u \in WritersHere : WritingAt(u)

(* A reader that was not met is answered with the row it asked for.             *)
ReadingAt(u) ==
    ~Finished(u) /\ u \notin met /\ pc[u] # 1 =>
        /\ cmd # "write" /\ addr = Place(u)
        /\ pc[u] > 2 => \/ cmd = "read" /\ istate # "DONE"
                        \/ iaddr = Place(u) /\ reply[Mem(u)] = mem[Mem(u)][row[u]]
        /\ \A i \in 3 .. Last(u) : i < pc[u] =>
              got[u][row[u]][Script(u)[i]] = mem[Mem(u)][row[u]][Script(u)[i]]
Reading == \A u \in ReadersHere : ReadingAt(u)

Printed ==
    \A u \in ReadersHere, r \in Rows :
        r < row[u] /\ <<u, r>> \notin hurt => got[u][r] = seen[u][r]

AccInv ==
    AccTypes /\ Bus /\ Narrow /\ Written /\ Pending /\ Writing /\ Reading /\ Printed

(* The order of the accesses of a writer and of a reader.                     *)
WriterScript(s, m) ==
    /\ Len(s) \in Nat /\ Len(s) >= 3 /\ s[Len(s)] = "COMMAND" /\ s[Len(s) - 1] = "ADDRESS"
    /\ \A i \in 1 .. Len(s) - 2 : s[i] \in Kept(m)
    /\ \A w \in Kept(m) : \E i \in 1 .. Len(s) - 2 : s[i] = w

ReaderScript(s, m) ==
    /\ Len(s) \in Nat /\ Len(s) >= 3 /\ s[1] = "ADDRESS" /\ s[2] = "COMMAND"
    /\ \A i \in 3 .. Len(s) : s[i] \in Kept(m)
    /\ \A w \in Kept(m) : \E i \in 3 .. Len(s) : s[i] = w

LEMMA Narrowing ==
    ASSUME NEW m \in Mems
    PROVE  Kept(m) \subseteq Words /\ "ADDRESS" \notin Words /\ "COMMAND" \notin Words
BY DEF Kept, Words, Mems

LEMMA WriterScripts ==
    ASSUME NEW u \in WritersHere
    PROVE  WriterScript(Script(u), Mem(u))
<1>1. CASE u = "rtable"
  <2>1. Script(u) = <<"A_HI", "B_HI", "A_LOW", "B_LOW", "ADDRESS", "COMMAND">>
    BY <1>1 DEF Script, write_rtable_to_hw
  <2>2. Kept(Mem(u)) = {"A_HI", "B_HI", "A_LOW", "B_LOW"}
    BY <1>1 DEF Mem, Kept, Words
  <2> QED BY <2>1, <2>2 DEF WriterScript
<1>2. CASE u = "arp"
  <2>1. Script(u) = <<"A_HI", "A_LOW", "B_LOW", "ADDRESS", "COMMAND">>
    BY <1>2 DEF Script, write_arp_cache_entry_to_hw
  <2>2. Kept(Mem(u)) = {"A_HI", "A_LOW", "B_LOW"}
    BY <1>2 DEF Mem, Kept, Words
  <2> QED BY <2>1, <2>2 DEF WriterScript
<1>3. CASE u = "filter"
  <2>1. Script(u) = <<"B_LOW", "ADDRESS", "COMMAND">>
    BY <1>3 DEF Script, trigger_local_ip_filters_change
  <2>2. Kept(Mem(u)) = {"B_LOW"}
    BY <1>3 DEF Mem, Kept, Words
  <2> QED BY <2>1, <2>2 DEF WriterScript
<1> QED BY <1>1, <1>2, <1>3 DEF WritersHere, Writers

LEMMA ReaderScripts ==
    ASSUME NEW u \in ReadersHere
    PROVE  ReaderScript(Script(u), Mem(u))
<1>1. CASE u = "show_rtable"
  <2>1. Script(u) = <<"ADDRESS", "COMMAND", "A_HI", "B_HI", "A_LOW", "B_LOW">>
    BY <1>1 DEF Script, sprint_hw_rtable
  <2>2. Kept(Mem(u)) = {"A_HI", "B_HI", "A_LOW", "B_LOW"}
    BY <1>1 DEF Mem, Kept, Words
  <2> QED BY <2>1, <2>2 DEF ReaderScript
<1>2. CASE u = "show_arp"
  <2>1. Script(u) = <<"ADDRESS", "COMMAND", "B_LOW", "A_HI", "A_LOW">>
    BY <1>2 DEF Script, sprint_hw_arp_cache
  <2>2. Kept(Mem(u)) = {"A_HI", "A_LOW", "B_LOW"}
    BY <1>2 DEF Mem, Kept, Words
  <2> QED BY <2>1, <2>2 DEF ReaderScript
<1>3. CASE u = "show_filter"
  <2>1. Script(u) = <<"ADDRESS", "COMMAND", "B_LOW">>
    BY <1>3 DEF Script, sprint_hw_local_ip_filter
  <2>2. Kept(Mem(u)) = {"B_LOW"}
    BY <1>3 DEF Mem, Kept, Words
  <2> QED BY <2>1, <2>2 DEF ReaderScript
<1> QED BY <1>1, <1>2, <1>3 DEF ReadersHere, Readers

(* Nobody both reads and writes, and no reader is taken for a table.           *)
LEMMA UserKinds ==
    ASSUME AccessParameters
    PROVE  /\ \A u \in Users : Mem(u) \in Mems
           /\ \A u \in Users : u \in WritersHere <=> u \notin ReadersHere
           /\ \A u \in WritersHere : u \in Users /\ u \in Writers /\ u \notin Readers
           /\ \A u \in ReadersHere : u \in Users /\ u \in Readers /\ u \notin Writers
           /\ \A u \in ReadersHere : u \notin Mems
BY DEF AccessParameters, WritersHere, ReadersHere, Writers, Readers, Mem, Mems

LEMMA ScriptLength ==
    ASSUME AccessParameters, NEW u \in Users
    PROVE  Last(u) \in Nat /\ Last(u) >= 3
<1>1. CASE u \in WritersHere
  BY <1>1, WriterScripts DEF WriterScript, Last
<1>2. CASE u \in ReadersHere
  BY <1>2, ReaderScripts DEF ReaderScript, Last
<1> QED BY <1>1, <1>2, UserKinds

LEMMA StoredType ==
    ASSUME NEW m, NEW d \in [Words -> Val]
    PROVE  /\ Stored(m, d) \in [Words -> Val]
           /\ \A w \in Words : Stored(m, d)[w] = IF w \in Kept(m) THEN d[w] ELSE <<>>
BY DEF Stored, Val

-----------------------------------------------------------------------------
(* What an access of a user does to the places of the users.                  *)
Moves(u) ==
    /\ pc' \in [Users -> Nat \ {0}] /\ row' \in [Users -> 0 .. ROWS]
    /\ \A v \in Users : v # u => pc'[v] = pc[v] /\ row'[v] = row[v]
    /\ \/ pc[u] < Last(u) /\ pc'[u] = pc[u] + 1 /\ row'[u] = row[u]
       \/ pc[u] = Last(u) /\ pc'[u] = 1 /\ row'[u] = row[u] + 1
    /\ \A v \in Users : pc'[v] <= Last(v) /\ (Finished(v)' => pc'[v] = 1)
    /\ pc[u] \in 1 .. Last(u) /\ row[u] \in Rows /\ row[u] \in Nat /\ row[u] # ROWS
    /\ Last(u) \in Nat /\ Last(u) >= 3
    /\ cmd = "none" /\ istate = "IDLE" /\ pulse = "none"
    /\ UNCHANGED <<ver, istate, iaddr, pulse, mem, reply>>

LEMMA AccessMoves ==
    ASSUME AccessParameters, AccInv, NEW u \in Users, Access(u)
    PROVE  Moves(u)
<1>1. AccTypes
  BY DEF AccInv
<1>2. /\ ~Finished(u) /\ Settled /\ Advance(u)
      /\ UNCHANGED <<ver, istate, iaddr, pulse, mem, reply>>
  BY DEF Access
<1>3. Last(u) \in Nat /\ Last(u) >= 3
  BY ScriptLength
<1>4. pc[u] \in 1 .. Last(u) /\ row[u] \in Rows /\ row[u] \in Nat /\ row[u] # ROWS
  <2>1. pc[u] \in Nat \ {0} /\ pc[u] <= Last(u) /\ row[u] \in 0 .. ROWS /\ row[u] # ROWS
    BY <1>1, <1>2, Zenon DEF AccTypes, Finished
  <2> QED BY <1>3, <2>1 DEF Rows, AccessParameters
<1>5. CASE pc[u] < Last(u)
  <2> DEFINE p == pc[u] + 1
  <2>1. pc' = [pc EXCEPT ![u] = p] /\ row' = row /\ p \in Nat \ {0} /\ p <= Last(u)
    BY <1>2, <1>3, <1>4, <1>5 DEF Advance, Last
  <2>2. p = pc[u] + 1
    OBVIOUS
  <2> HIDE DEF p
  <2>3. /\ pc' \in [Users -> Nat \ {0}] /\ pc'[u] = p
        /\ \A v \in Users : v # u => pc'[v] = pc[v]
    BY <1>1, <2>1 DEF AccTypes
  <2>4. ASSUME NEW v \in Users
        PROVE  pc'[v] <= Last(v) /\ (Finished(v)' => pc'[v] = 1)
    BY <1>1, <1>2, <2>1, <2>3 DEF AccTypes, Finished
  <2> QED BY <1>1, <1>2, <1>3, <1>4, <1>5, <2>1, <2>2, <2>3, <2>4
          DEF Moves, AccTypes, Settled
<1>6. CASE ~(pc[u] < Last(u))
  <2> DEFINE x == row[u] + 1
             one == 1
  <2>1. pc' = [pc EXCEPT ![u] = one] /\ row' = [row EXCEPT ![u] = x]
    BY <1>2, <1>6 DEF Advance, Last
  <2>2. x \in 0 .. ROWS /\ one \in Nat \ {0} /\ one <= Last(u) /\ pc[u] = Last(u)
    BY <1>3, <1>4, <1>6 DEF AccessParameters, Rows
  <2>3. x = row[u] + 1 /\ one = 1
    OBVIOUS
  <2> HIDE DEF x, one
  <2>4. /\ pc' \in [Users -> Nat \ {0}] /\ pc'[u] = one
        /\ row' \in [Users -> 0 .. ROWS] /\ row'[u] = x
        /\ \A v \in Users : v # u => pc'[v] = pc[v] /\ row'[v] = row[v]
    BY <1>1, <2>1, <2>2 DEF AccTypes
  <2>5. ASSUME NEW v \in Users
        PROVE  pc'[v] <= Last(v) /\ (Finished(v)' => pc'[v] = 1)
    BY <1>1, <2>2, <2>3, <2>4, Zenon DEF AccTypes, Finished
  <2> QED BY <1>2, <1>3, <1>4, <2>2, <2>3, <2>4, <2>5 DEF Moves, Settled
<1> QED BY <1>5, <1>6

(* A user that is not met in a step was not met before, and the step did not     *)
(* change the registers behind its back.                                      *)
LEMMA Undisturbed ==
    ASSUME AccessParameters, AccInv, NEW u \in Users, Access(u),
           NEW v \in Users, v \notin met', v # u
    PROVE  v \notin met /\ (pc[v] = 1 \/ UNCHANGED <<data, addr, cmd>>)
<1> DEFINE reg == Script(u)[pc[u]]
<1>1. /\ addr' = IF reg = "ADDRESS" THEN Place(u) ELSE addr
      /\ cmd' = IF reg = "COMMAND"
                THEN IF u \in Writers THEN "write" ELSE "read" ELSE cmd
      /\ data' = IF reg \in Words /\ u \in Writers
                 THEN [data EXCEPT ![reg] = Word(u)] ELSE data
      /\ Record(u, reg)
  BY DEF Access
<1> HIDE DEF reg
<1>2. v \notin met /\ (pc[v] = 1 \/ (u \in Readers /\ reg \in Words))
  BY <1>1, Zenon DEF Record
<1>3. CASE u \in Readers /\ reg \in Words
  <2>1. u \notin Writers /\ reg # "ADDRESS" /\ reg # "COMMAND"
    BY <1>3 DEF Readers, Writers, Words
  <2> QED BY <1>1, <1>2, <2>1
<1> QED BY <1>2, <1>3

(* The history of an access, case by case.                                     *)
LEMMA HistoryKeeps ==
    ASSUME AccessParameters, AccInv, NEW u \in Users, Access(u), pc[u] < Last(u)
    PROVE  UNCHANGED <<hurt, want, seen>> /\ (u \notin met' => u \notin met)
<1>1. Record(u, Script(u)[pc[u]])
  BY DEF Access
<1>2. pc[u] # Len(Script(u))
  <2>1. pc[u] \in Nat /\ Last(u) \in Nat
    BY ScriptLength DEF AccInv, AccTypes
  <2> QED BY <2>1 DEF Last
<1>3. UNCHANGED <<hurt, want, seen>>
  BY <1>1, <1>2, Zenon DEF Record
<1>4. u \in met => u \in met'
  BY <1>1, <1>2, Zenon DEF Record
<1> QED BY <1>3, <1>4

LEMMA HistoryOfWriter ==
    ASSUME AccessParameters, AccInv, NEW u \in WritersHere, Access(u), pc[u] = Last(u)
    PROVE  /\ seen' = seen
           /\ hurt' = IF u \notin met THEN hurt \ {Place(u)} ELSE hurt \cup {Place(u), addr}
           /\ want' = [want EXCEPT ![Mem(u)][row[u]] =
                          Stored(Mem(u), [w \in Words |-> Word(u)])]
<1>1. Record(u, Script(u)[pc[u]])
  BY DEF Access
<1>2. u \in Writers /\ u \notin Readers
  BY UserKinds
<1>3. seen' = seen /\ want' = [want EXCEPT ![Mem(u)][row[u]] =
                                  Stored(Mem(u), [w \in Words |-> Word(u)])]
  BY <1>1, <1>2, Zenon DEF Record, Last
<1>4. hurt' = IF u \notin met THEN hurt \ {Place(u)} ELSE hurt \cup {Place(u)} \cup {addr}
  BY <1>1, <1>2, Zenon DEF Record, Last
<1> QED BY <1>3, <1>4

LEMMA HistoryOfReader ==
    ASSUME AccessParameters, AccInv, NEW u \in ReadersHere, Access(u), pc[u] = Last(u)
    PROVE  /\ want' = want
           /\ hurt' = IF u \notin met THEN hurt \ {<<u, row[u]>>} ELSE hurt \cup {<<u, row[u]>>}
           /\ seen' = [seen EXCEPT ![u][row[u]] = mem[Mem(u)][row[u]]]
<1>1. Record(u, Script(u)[pc[u]])
  BY DEF Access
<1>2. u \in Readers /\ u \notin Writers
  BY UserKinds
<1>3. want' = want /\ seen' = [seen EXCEPT ![u][row[u]] = mem[Mem(u)][row[u]]]
  BY <1>1, <1>2, Zenon DEF Record, Last
<1>4. hurt' = IF u \notin met THEN hurt \ {<<u, row[u]>>} ELSE hurt \cup {<<u, row[u]>>} \cup {}
  BY <1>1, <1>2, Zenon DEF Record, Last
<1> QED BY <1>3, <1>4

-----------------------------------------------------------------------------
(* A writer writes a data word, the row number or the command.                *)
LEMMA WriterStep ==
    ASSUME AccessParameters, AccInv, NEW u \in WritersHere, Access(u)
    PROVE  AccInv'
<1>0. u \in Users /\ u \in Writers /\ u \notin Readers /\ u \notin ReadersHere /\ Mem(u) \in Mems
  BY UserKinds
<1>1. Moves(u) /\ Place(u) = <<Mem(u), row[u]>>
  BY <1>0, AccessMoves DEF Place
<1> DEFINE reg == Script(u)[pc[u]]
<1>2. /\ addr' = IF reg = "ADDRESS" THEN Place(u) ELSE addr
      /\ cmd' = IF reg = "COMMAND" THEN "write" ELSE cmd
      /\ data' = IF reg \in Words THEN [data EXCEPT ![reg] = Word(u)] ELSE data
      /\ got' = got
  BY <1>0 DEF Access
<1> HIDE DEF reg
<1>3. AccTypes /\ Bus /\ Narrow /\ Written /\ Writing /\ Reading /\ Printed /\ ~Finished(u)
  BY DEF AccInv, Access
<1>4. WriterScript(Script(u), Mem(u)) /\ Kept(Mem(u)) \subseteq Words
      /\ "ADDRESS" \notin Words /\ "COMMAND" \notin Words
  BY <1>0, WriterScripts, Narrowing
<1>5. Word(u) \in Val /\ Word(u) = <<u, row[u], ver[u]>>
  BY <1>0, <1>3 DEF Word, Val, AccTypes
<1>6. data' \in [Words -> Val] /\ addr' \in Mems \X Rows
  <2>1. data' \in [Words -> Val]
    BY <1>2, <1>3, <1>5 DEF AccTypes
  <2>2. addr' \in Mems \X Rows
    BY <1>0, <1>1, <1>2, <1>3 DEF AccTypes, Moves
  <2> QED BY <2>1, <2>2
<1>7. ASSUME want' \in [Mems -> Contents], seen' = seen
      PROVE  AccTypes'
  BY <1>1, <1>2, <1>3, <1>6, <1>7, Zenon DEF AccTypes, Moves, Last
<1>8. Narrow'
  BY <1>1, <1>2, <1>3 DEF Narrow, Moves
<1>9. \A m \in Mems, r \in Rows : <<m, r>> \notin hurt => mem[m][r] = want[m][r]
  BY <1>1, <1>3 DEF Written, Ordered, Moves
<1>10. ASSUME NEW v \in WritersHere, v # u
       PROVE  WritingAt(v)'
  <2> SUFFICES ASSUME ~Finished(v)', v \notin met'
               PROVE  /\ \A i \in 1 .. Last(v) - 2 : i < pc'[v] => data'[Script(v)[i]] = Word(v)'
                      /\ pc'[v] = Last(v) => addr' = Place(v)'
    BY Zenon DEF WritingAt, Last
  <2>1. v \in Users /\ pc'[v] = pc[v] /\ row'[v] = row[v] /\ ver' = ver
    BY <1>1, <1>10, UserKinds DEF Moves
  <2>2. v \notin met /\ (pc[v] = 1 \/ UNCHANGED <<data, addr, cmd>>)
    BY <1>0, <1>10, <2>1, Undisturbed
  <2>3. Word(v)' = Word(v) /\ Place(v)' = Place(v) /\ ~Finished(v)
    BY <2>1 DEF Word, Place, Finished
  <2>4. CASE pc[v] = 1
    <3>1. Last(v) \in Nat /\ Last(v) >= 3
      BY <2>1, ScriptLength
    <3> QED BY <2>1, <2>4, <3>1
  <2>5. CASE UNCHANGED <<data, addr, cmd>>
    <3>1. WritingAt(v)
      BY <1>3 DEF Writing
    <3> QED BY <2>1, <2>2, <2>3, <2>5, <3>1 DEF WritingAt
  <2> QED BY <2>2, <2>4, <2>5
<1>11. Reading'
  <2> SUFFICES ASSUME NEW v \in ReadersHere
               PROVE  ReadingAt(v)'
    BY Zenon DEF Reading
  <2> SUFFICES ASSUME ~Finished(v)', v \notin met', pc'[v] # 1
               PROVE  /\ cmd' # "write" /\ addr' = Place(v)'
                      /\ pc'[v] > 2 => \/ cmd' = "read" /\ istate' # "DONE"
                                       \/ iaddr' = Place(v)' /\ reply'[Mem(v)] = mem'[Mem(v)][row'[v]]
                      /\ \A i \in 3 .. Last(v) : i < pc'[v] =>
                           got'[v][row'[v]][Script(v)[i]] = mem'[Mem(v)][row'[v]][Script(v)[i]]
    BY Zenon DEF ReadingAt, Last
  <2>1. v \in Users /\ v # u
    BY <1>0, UserKinds, Zenon
  <2>2. /\ pc'[v] = pc[v] /\ row'[v] = row[v]
        /\ UNCHANGED <<istate, iaddr, mem, reply, got>>
    BY <1>1, <1>2, <2>1 DEF Moves
  <2>3. v \notin met /\ UNCHANGED <<data, addr, cmd>>
    BY <1>0, <2>1, <2>2, Undisturbed
  <2>4. Place(v)' = Place(v) /\ ~Finished(v)
    BY <2>2 DEF Place, Finished
  <2>5. ReadingAt(v)
    BY <1>3 DEF Reading
  <2> QED BY <2>2, <2>3, <2>4, <2>5, Zenon DEF ReadingAt
<1>12. ASSUME NEW v \in ReadersHere, NEW r \in Rows, seen' = seen,
              <<v, r>> \notin hurt' => <<v, r>> \notin hurt,
              r < row'[v], <<v, r>> \notin hurt'
       PROVE  got'[v][r] = seen'[v][r]
  <2>1. v \in Users /\ v # u
    BY <1>0, UserKinds, Zenon
  <2>2. row'[v] = row[v] /\ got' = got
    BY <1>1, <1>2, <2>1 DEF Moves
  <2> QED BY <1>3, <1>12, <2>2, Zenon DEF Printed
<1>13. CASE pc[u] < Last(u)
  <2>1. pc'[u] = pc[u] + 1 /\ row'[u] = row[u] /\ pc[u] \in Nat /\ Last(u) \in Nat
    BY <1>1, <1>13 DEF Moves
  <2>2. reg # "COMMAND" /\ (reg = "ADDRESS" <=> pc[u] = Last(u) - 1)
        /\ (pc[u] <= Last(u) - 2 => reg \in Words)
    <3>1. CASE pc[u] = Last(u) - 1
      BY <1>4, <2>1, <3>1 DEF reg, WriterScript, Last
    <3>2. CASE pc[u] \in 1 .. Last(u) - 2
      <4>1. reg \in Words
        BY <1>4, <3>2, Zenon DEF reg, WriterScript, Last
      <4> QED BY <1>4, <2>1, <3>2, <4>1
    <3> QED BY <1>1, <1>13, <2>1, <3>1, <3>2 DEF Moves
  <2>3. cmd' = "none"
    BY <1>1, <1>2, <2>2, Zenon DEF Moves
  <2>4. Bus' /\ Pending'
    BY <1>1, <2>3 DEF Bus, Settled, Moves, Pending
  <2>5. UNCHANGED <<hurt, want, seen>> /\ (u \notin met' => u \notin met)
    BY <1>0, <1>13, HistoryKeeps
  <2>6. AccTypes'
    BY <1>3, <1>7, <2>5 DEF AccTypes
  <2>7. Written'
    BY <1>1, <1>9, <2>5, Zenon DEF Written, Moves
  <2>8. WritingAt(u)'
    <3> SUFFICES ASSUME u \notin met'
                 PROVE  /\ \A i \in 1 .. Last(u) - 2 : i < pc'[u] => data'[Script(u)[i]] = Word(u)'
                        /\ pc'[u] = Last(u) => addr' = Place(u)'
      BY Zenon DEF WritingAt, Last
    <3>1. Word(u)' = Word(u) /\ Place(u)' = Place(u)
      BY <1>1, <2>1 DEF Word, Place, Moves
    <3>2. \A i \in 1 .. Last(u) - 2 : i < pc[u] => data[Script(u)[i]] = Word(u)
      BY <1>3, <2>5 DEF Writing, WritingAt
    <3>3. ASSUME NEW i \in 1 .. Last(u) - 2, i < pc'[u]
          PROVE  data'[Script(u)[i]] = Word(u)
      <4>1. Script(u)[i] \in Words
        BY <1>4 DEF WriterScript, Last
      <4>2. CASE i = pc[u]
        <5>1. reg = Script(u)[i]
          BY <4>2 DEF reg
        <5> QED BY <1>2, <1>3, <4>1, <5>1 DEF AccTypes
      <4>3. CASE i < pc[u]
        BY <1>2, <1>3, <3>2, <4>1, <4>3 DEF AccTypes
      <4> QED BY <2>1, <3>3, <4>2, <4>3
    <3>4. pc'[u] = Last(u) => addr' = Place(u)
      BY <1>2, <2>1, <2>2
    <3> QED BY <3>1, <3>3, <3>4
  <2>9. Writing'
    BY <1>10, <2>8, Zenon DEF Writing
  <2>10. Printed'
    BY <1>12, <2>5, Zenon DEF Printed
  <2> QED BY <1>8, <1>11, <2>4, <2>6, <2>7, <2>9, <2>10 DEF AccInv
<1>14. CASE pc[u] = Last(u)
  <2>1. pc'[u] = 1 /\ row'[u] = row[u] + 1 /\ row[u] \in Nat /\ row[u] \in Rows
        /\ Last(u) \in Nat /\ Last(u) >= 3
    BY <1>1, <1>14 DEF Moves
  <2>2. reg = "COMMAND"
    BY <1>4, <1>14 DEF reg, WriterScript, Last
  <2>3. cmd' = "write" /\ addr' = addr /\ data' = data
    BY <1>2, <1>4, <2>2
  <2> DEFINE new == Stored(Mem(u), [w \in Words |-> Word(u)])
             x == row[u]
             m == Mem(u)
  <2>4. /\ seen' = seen /\ want' = [want EXCEPT ![m][x] = new]
        /\ hurt' = IF u \notin met THEN hurt \ {<<m, x>>} ELSE hurt \cup {<<m, x>>, addr}
    BY <1>1, <1>14, HistoryOfWriter, Zenon
  <2>5. new \in [Words -> Val]
    <3>1. [w \in Words |-> Word(u)] \in [Words -> Val]
      BY <1>5
    <3> QED BY <3>1, StoredType
  <2>6. u \notin met => addr = <<m, x>> /\ Stored(m, data) = new
    <3> SUFFICES ASSUME u \notin met PROVE addr = <<m, x>> /\ Stored(m, data) = new
      OBVIOUS
    <3>1. WritingAt(u)
      BY <1>3 DEF Writing
    <3>2. addr = Place(u)
      BY <1>3, <1>14, <3>1 DEF WritingAt
    <3>3. \A w \in Kept(m) : data[w] = Word(u)
      <4> TAKE w \in Kept(m)
      <4>1. PICK i \in 1 .. Last(u) - 2 : Script(u)[i] = w
        BY <1>4 DEF WriterScript, Last
      <4>2. i < pc[u]
        BY <1>14, <2>1
      <4> QED BY <1>3, <3>1, <4>1, <4>2 DEF WritingAt
    <3>4. Stored(m, data) = new
      <4> DEFINE f == [w \in Words |-> Word(u)]
      <4>1. new = [w \in Words |-> IF w \in Kept(m) THEN f[w] ELSE <<>>]
        BY DEF Stored
      <4>2. Stored(m, data) = [w \in Words |-> IF w \in Kept(m) THEN data[w] ELSE <<>>]
        BY DEF Stored
      <4>3. \A w \in Words : w \in Kept(m) => f[w] = data[w]
        BY <3>3
      <4> HIDE DEF f, new, m
      <4> QED BY <4>1, <4>2, <4>3
    <3> QED BY <1>1, <3>2, <3>4
  <2>7. m \in Mems /\ x \in Rows
    BY <1>0, <2>1
  <2> HIDE DEF new, x, m
  <2>8. /\ want' \in [Mems -> Contents] /\ want'[m][x] = new
        /\ \A n \in Mems, r \in Rows : n # m \/ r # x => want'[n][r] = want[n][r]
    BY <1>3, <2>4, <2>5, <2>7, Zenon DEF AccTypes, Contents
  <2>9. AccTypes'
    BY <1>7, <2>4, <2>8
  <2>10. Bus'
    BY <1>1, <2>3 DEF Bus, Under, Moves
  <2>11. Pending'
    <3> SUFFICES ASSUME NEW n \in Mems, NEW r \in Rows, addr' = <<n, r>>, addr' \notin hurt'
                 PROVE  Ordered(n, r)'
      BY Zenon DEF Pending
    <3>1. u \notin met
      BY <2>3, <2>4
    <3>2. n = m /\ r = x
      BY <2>3, <2>6, <3>1
    <3>3. istate' # "DONE"
      BY <1>1 DEF Moves
    <3> QED BY <2>3, <2>6, <2>8, <3>1, <3>2, <3>3 DEF Ordered
  <2>12. Written'
    <3> SUFFICES ASSUME NEW n \in Mems, NEW r \in Rows, <<n, r>> \notin hurt'
                 PROVE  mem'[n][r] = want'[n][r] \/ Ordered(n, r)'
      BY Zenon DEF Written
    <3>1. CASE n = m /\ r = x
      <4>1. u \notin met
        BY <2>4, <3>1
      <4>2. istate' # "DONE"
        BY <1>1 DEF Moves
      <4> QED BY <2>3, <2>6, <2>8, <3>1, <4>1, <4>2 DEF Ordered
    <3>2. CASE n # m \/ r # x
      <4>1. <<n, r>> \notin hurt
        BY <2>4, <3>2
      <4>2. mem' = mem
        BY <1>1 DEF Moves
      <4> QED BY <1>9, <2>8, <3>2, <4>1, <4>2
    <3> QED BY <3>1, <3>2
  <2>13. WritingAt(u)'
    <3> SUFFICES /\ \A i \in 1 .. Last(u) - 2 : ~(i < pc'[u])
                 /\ pc'[u] # Last(u)
      BY Zenon DEF WritingAt, Last
    <3> QED BY <2>1
  <2>14. Writing'
    BY <1>10, <2>13, Zenon DEF Writing
  <2>15. Printed'
    <3> SUFFICES ASSUME NEW v \in ReadersHere, NEW r \in Rows,
                        r < row'[v], <<v, r>> \notin hurt'
                 PROVE  got'[v][r] = seen'[v][r]
      BY Zenon DEF Printed
    <3>1. v \notin Mems
      BY UserKinds
    <3>2. <<v, r>> # <<m, x>>
      BY <2>7, <3>1
    <3>3. <<v, r>> \notin hurt
      BY <2>4, <3>2
    <3> QED BY <1>12, <2>4, <3>3
  <2> QED BY <1>8, <1>11, <2>9, <2>10, <2>11, <2>12, <2>14, <2>15 DEF AccInv
<1> QED BY <1>1, <1>13, <1>14 DEF Moves

-----------------------------------------------------------------------------
(* A reader writes the row number or the command, or reads a reply word.      *)
LEMMA ReaderStep ==
    ASSUME AccessParameters, AccInv, NEW u \in ReadersHere, Access(u)
    PROVE  AccInv'
<1>0. u \in Users /\ u \in Readers /\ u \notin Writers /\ u \notin WritersHere /\ Mem(u) \in Mems
  BY UserKinds
<1>1. Moves(u) /\ Place(u) = <<Mem(u), row[u]>>
  BY <1>0, AccessMoves DEF Place
<1> DEFINE reg == Script(u)[pc[u]]
<1>2. /\ addr' = IF reg = "ADDRESS" THEN Place(u) ELSE addr
      /\ cmd' = IF reg = "COMMAND" THEN "read" ELSE cmd
      /\ got' = IF reg \in Words
                THEN [got EXCEPT ![u][row[u]][reg] = reply[iaddr[1]][reg]] ELSE got
      /\ data' = data
  BY <1>0 DEF Access
<1> HIDE DEF reg
<1>3. /\ AccTypes /\ Bus /\ Narrow /\ Written /\ Writing /\ Reading /\ Printed
      /\ ~Finished(u) /\ got \in [ReadersHere -> Contents]
  BY DEF AccInv, AccTypes, Access
<1>4. /\ ReaderScript(Script(u), Mem(u)) /\ Kept(Mem(u)) \subseteq Words
      /\ "ADDRESS" \notin Words /\ "COMMAND" \notin Words
  BY <1>0, ReaderScripts, Narrowing
<1>5. pc[u] \in 1 .. Last(u) /\ Last(u) \in Nat /\ Last(u) >= 3
  BY <1>1 DEF Moves
<1>6. /\ reg = "ADDRESS" <=> pc[u] = 1
      /\ reg = "COMMAND" <=> pc[u] = 2
      /\ reg \in Words <=> pc[u] \in 3 .. Last(u)
  <2>1. CASE pc[u] = 1 \/ pc[u] = 2
    BY <1>4, <1>5, <2>1 DEF reg, ReaderScript, Last
  <2>2. CASE pc[u] \in 3 .. Last(u)
    <3>1. reg \in Words
      BY <1>4, <2>2, Zenon DEF reg, ReaderScript, Last
    <3> QED BY <1>4, <2>2, <3>1
  <2> QED BY <1>5, <2>1, <2>2
<1>7. addr' \in Mems \X Rows
  BY <1>0, <1>1, <1>2, <1>3 DEF AccTypes, Moves
<1> DEFINE x == row[u]
           d == reply[iaddr[1]][reg]
<1>8. x \in Rows /\ x \in Nat /\ x # ROWS
  BY <1>1 DEF Moves
<1>9. reg \in Words => d \in Val
  <2>1. iaddr[1] \in Mems
    BY <1>3 DEF AccTypes
  <2> QED BY <1>3, <2>1 DEF AccTypes
<1>10. got' = IF reg \in Words THEN [got EXCEPT ![u][x][reg] = d] ELSE got
  BY <1>2
<1>11. x = row[u] /\ d = reply[iaddr[1]][reg]
  OBVIOUS
<1> HIDE DEF x, d
<1>12. got' \in [ReadersHere -> Contents]
  <2>1. CASE reg \in Words
    <3> DEFINE g == [got[u][x] EXCEPT ![reg] = d]
    <3>1. g \in [Words -> Val]
      BY <1>3, <1>8, <1>9, <2>1 DEF Contents
    <3>2. got' = [got EXCEPT ![u] = [got[u] EXCEPT ![x] = g]]
      BY <1>10, <2>1
    <3> HIDE DEF g
    <3>3. [got[u] EXCEPT ![x] = g] \in Contents
      BY <1>3, <1>8, <3>1 DEF Contents
    <3> QED BY <1>3, <3>2, <3>3
  <2>2. CASE reg \notin Words
    BY <1>3, <1>10, <2>2
  <2> QED BY <2>1, <2>2
<1>13. /\ \A v \in ReadersHere, r \in Rows : v # u \/ r # x => got'[v][r] = got[v][r]
       /\ \A w \in Words : got'[u][x][w] = IF w = reg THEN d ELSE got[u][x][w]
  <2>1. CASE reg \in Words
    BY <1>3, <1>8, <1>10, <2>1 DEF Contents
  <2>2. CASE reg \notin Words
    BY <1>10, <2>2
  <2> QED BY <2>1, <2>2
<1>14. ASSUME seen' \in [ReadersHere -> Contents], want' = want
       PROVE  AccTypes'
  BY <1>1, <1>2, <1>3, <1>7, <1>12, <1>14, Zenon DEF AccTypes, Moves, Last
<1>15. u \notin met /\ pc[u] \in 3 .. Last(u) =>
          d = mem[Mem(u)][x][reg] /\ addr = Place(u)
  <2> SUFFICES ASSUME u \notin met, pc[u] \in 3 .. Last(u)
               PROVE  d = mem[Mem(u)][x][reg] /\ addr = Place(u)
    OBVIOUS
  <2>1. ReadingAt(u) /\ pc[u] # 1 /\ pc[u] > 2 /\ cmd = "none"
    BY <1>1, <1>3 DEF Reading, Moves
  <2>2. addr = Place(u) /\ iaddr = Place(u) /\ reply[Mem(u)] = mem[Mem(u)][row[u]]
    BY <1>3, <2>1 DEF ReadingAt
  <2>3. iaddr[1] = Mem(u)
    BY <1>1, <2>2
  <2> QED BY <1>11, <2>2, <2>3
<1>16. Bus' /\ Pending'
  <2>1. cmd' \in {"none", "read"} /\ istate' = "IDLE" /\ pulse' = "none"
    BY <1>1, <1>2 DEF Moves
  <2> QED BY <2>1 DEF Bus, Settled, Under, Pending
<1>17. \A m \in Mems, r \in Rows : <<m, r>> \notin hurt => mem[m][r] = want[m][r]
  BY <1>1, <1>3 DEF Written, Ordered, Moves
<1>18. Narrow'
  <2>1. ASSUME NEW v \in ReadersHere, NEW r \in Rows, NEW w \in Words \ Kept(Mem(v))
        PROVE  got'[v][r][w] = <<>>
    <3>1. CASE v = u /\ r = x
      <4>1. w # reg
        <5>1. CASE pc[u] \in 3 .. Last(u)
          BY <1>4, <3>1, <5>1 DEF reg, ReaderScript, Last
        <5>2. CASE pc[u] \notin 3 .. Last(u)
          BY <1>6, <5>2
        <5> QED BY <5>1, <5>2
      <4> QED BY <1>3, <1>13, <3>1, <4>1 DEF Narrow
    <3>2. CASE v # u \/ r # x
      BY <1>3, <1>13, <3>2 DEF Narrow
    <3> QED BY <3>1, <3>2
  <2>2. mem' = mem
    BY <1>1 DEF Moves
  <2> QED BY <1>3, <2>1, <2>2 DEF Narrow
<1>19. Writing'
  <2> SUFFICES ASSUME NEW v \in WritersHere, ~Finished(v)', v \notin met'
               PROVE  /\ \A i \in 1 .. Last(v) - 2 : i < pc'[v] => data'[Script(v)[i]] = Word(v)'
                      /\ pc'[v] = Last(v) => addr' = Place(v)'
    BY Zenon DEF Writing, WritingAt, Last
  <2>0. v \in Users /\ v # u
    BY <1>0, UserKinds, Zenon
  <2>1. pc'[v] = pc[v] /\ row'[v] = row[v] /\ ver' = ver
    BY <1>1, <2>0 DEF Moves
  <2>2. v \notin met /\ (pc[v] = 1 \/ UNCHANGED <<data, addr, cmd>>)
    BY <1>0, <2>0, Undisturbed
  <2>3. Word(v)' = Word(v) /\ Place(v)' = Place(v) /\ ~Finished(v)
    BY <2>1 DEF Word, Place, Finished
  <2>4. CASE pc[v] = 1
    <3>1. Last(v) \in Nat /\ Last(v) >= 3
      BY <2>0, ScriptLength
    <3> QED BY <2>1, <2>4, <3>1
  <2>5. CASE UNCHANGED <<data, addr, cmd>>
    <3>1. WritingAt(v)
      BY <1>3 DEF Writing
    <3> QED BY <2>1, <2>2, <2>3, <2>5, <3>1 DEF WritingAt
  <2> QED BY <2>2, <2>4, <2>5
<1>20. ASSUME NEW v \in ReadersHere, v # u
       PROVE  ReadingAt(v)'
  <2> SUFFICES ASSUME ~Finished(v)', v \notin met', pc'[v] # 1
               PROVE  /\ cmd' # "write" /\ addr' = Place(v)'
                      /\ pc'[v] > 2 => \/ cmd' = "read" /\ istate' # "DONE"
                                       \/ iaddr' = Place(v)' /\ reply'[Mem(v)] = mem'[Mem(v)][row'[v]]
                      /\ \A i \in 3 .. Last(v) : i < pc'[v] =>
                           got'[v][row'[v]][Script(v)[i]] = mem'[Mem(v)][row'[v]][Script(v)[i]]
    BY Zenon DEF ReadingAt, Last
  <2>1. v \in Users
    BY UserKinds
  <2>2. /\ pc'[v] = pc[v] /\ row'[v] = row[v]
        /\ UNCHANGED <<istate, iaddr, mem, reply>>
    BY <1>1, <1>20, <2>1 DEF Moves
  <2>3. v \notin met /\ UNCHANGED <<data, addr, cmd>>
    BY <1>0, <1>20, <2>1, <2>2, Undisturbed
  <2>4. Place(v)' = Place(v) /\ ~Finished(v) /\ row[v] \in Rows
    <3>1. row[v] \in 0 .. ROWS /\ ~Finished(v) /\ Place(v)' = Place(v)
      BY <1>3, <2>1, <2>2 DEF Place, Finished, AccTypes
    <3> QED BY <3>1 DEF Finished, Rows, AccessParameters
  <2>5. got'[v][row[v]] = got[v][row[v]]
    BY <1>13, <1>20, <2>4
  <2>6. ReadingAt(v)
    BY <1>3 DEF Reading
  <2> QED BY <2>2, <2>3, <2>4, <2>5, <2>6, Zenon DEF ReadingAt
<1>21. CASE pc[u] < Last(u)
  <2>1. pc'[u] = pc[u] + 1 /\ row'[u] = x /\ UNCHANGED <<istate, iaddr, mem, reply>>
    BY <1>1, <1>11, <1>21 DEF Moves
  <2>2. UNCHANGED <<hurt, want, seen>> /\ (u \notin met' => u \notin met)
    BY <1>0, <1>21, HistoryKeeps
  <2>3. AccTypes'
    BY <1>3, <1>14, <2>2 DEF AccTypes
  <2>4. Written'
    BY <1>1, <1>17, <2>2, Zenon DEF Written, Moves
  <2>5. ReadingAt(u)'
    <3> SUFFICES ASSUME u \notin met
                 PROVE  /\ cmd' # "write" /\ addr' = Place(u)'
                        /\ pc'[u] > 2 => \/ cmd' = "read" /\ istate' # "DONE"
                                         \/ iaddr' = Place(u)' /\ reply'[Mem(u)] = mem'[Mem(u)][row'[u]]
                        /\ \A i \in 3 .. Last(u) : i < pc'[u] =>
                              got'[u][row'[u]][Script(u)[i]] = mem'[Mem(u)][row'[u]][Script(u)[i]]
      BY <2>2, Zenon DEF ReadingAt, Last
    <3>1. Place(u)' = Place(u) /\ cmd = "none"
      BY <1>1, <1>11, <2>1 DEF Place, Moves
    <3>2. ReadingAt(u)
      BY <1>3 DEF Reading
    <3>3. CASE pc[u] = 1
      BY <1>2, <1>6, <2>1, <3>1, <3>3
    <3>4. CASE pc[u] = 2
      <4>1. addr' = Place(u) /\ cmd' = "read" /\ istate' = "IDLE"
        BY <1>1, <1>2, <1>3, <1>6, <3>2, <3>4 DEF ReadingAt, Moves
      <4> QED BY <2>1, <3>1, <3>4, <4>1
    <3>5. CASE pc[u] \in 3 .. Last(u)
      <4>1. addr' = Place(u) /\ cmd' = "none"
        BY <1>2, <1>6, <1>15, <3>1, <3>5
      <4>2. iaddr = Place(u) /\ reply[Mem(u)] = mem[Mem(u)][x]
        <5>1. pc[u] # 1 /\ pc[u] > 2
          BY <3>5
        <5> QED BY <1>3, <1>11, <3>1, <3>2, <5>1 DEF ReadingAt
      <4>3. ASSUME NEW i \in 3 .. Last(u), i < pc'[u]
            PROVE  got'[u][x][Script(u)[i]] = mem[Mem(u)][x][Script(u)[i]]
        <5>1. Script(u)[i] \in Words
          BY <1>4 DEF ReaderScript, Last
        <5>2. CASE Script(u)[i] = reg
          BY <1>13, <1>15, <3>5, <5>1, <5>2
        <5>3. CASE Script(u)[i] # reg
          <6>1. i < pc[u]
            BY <2>1, <3>5, <4>3, <5>3 DEF reg
          <6>2. got[u][x][Script(u)[i]] = mem[Mem(u)][x][Script(u)[i]]
            <7>1. pc[u] # 1
              BY <3>5
            <7> QED BY <1>3, <1>11, <3>2, <6>1, <7>1 DEF ReadingAt
          <6> QED BY <1>13, <5>1, <5>3, <6>2
        <5> QED BY <5>2, <5>3
      <4> QED BY <2>1, <3>1, <4>1, <4>2, <4>3
    <3> QED BY <1>5, <3>3, <3>4, <3>5
  <2>6. Reading'
    BY <1>20, <2>5, Zenon DEF Reading
  <2>7. Printed'
    <3> SUFFICES ASSUME NEW v \in ReadersHere, NEW r \in Rows,
                        r < row'[v], <<v, r>> \notin hurt
                 PROVE  got'[v][r] = seen[v][r]
      BY <2>2, Zenon DEF Printed
    <3>1. row'[v] = row[v]
      BY <1>1, <1>11, <2>1, UserKinds DEF Moves
    <3>2. v # u \/ r # x
      BY <1>8, <1>11, <3>1
    <3>3. got'[v][r] = got[v][r]
      BY <1>13, <3>2
    <3> QED BY <1>3, <3>1, <3>3, Zenon DEF Printed
  <2> QED BY <1>16, <1>18, <1>19, <2>3, <2>4, <2>6, <2>7 DEF AccInv
<1>22. CASE pc[u] = Last(u)
  <2>1. pc'[u] = 1 /\ row'[u] = x + 1 /\ pc[u] \in 3 .. Last(u) /\ mem' = mem
    BY <1>1, <1>5, <1>11, <1>22 DEF Moves
  <2> DEFINE now == mem[Mem(u)][x]
  <2>2. /\ want' = want /\ seen' = [seen EXCEPT ![u][x] = now]
        /\ hurt' = IF u \notin met THEN hurt \ {<<u, x>>} ELSE hurt \cup {<<u, x>>}
    BY <1>11, <1>22, HistoryOfReader
  <2>3. now \in [Words -> Val] /\ seen \in [ReadersHere -> Contents]
    BY <1>0, <1>3, <1>8 DEF AccTypes, Contents
  <2>4. now = mem[Mem(u)][x]
    OBVIOUS
  <2> HIDE DEF now
  <2>5. /\ seen' \in [ReadersHere -> Contents] /\ seen'[u][x] = now
        /\ \A v \in ReadersHere, r \in Rows : v # u \/ r # x => seen'[v][r] = seen[v][r]
    BY <1>8, <2>2, <2>3, Zenon DEF Contents
  <2>6. AccTypes'
    BY <1>14, <2>2, <2>5
  <2>7. Written'
    <3> SUFFICES ASSUME NEW m \in Mems, NEW r \in Rows, <<m, r>> \notin hurt'
                 PROVE  mem'[m][r] = want'[m][r]
      BY Zenon DEF Written
    <3>1. <<m, r>> # <<u, x>>
      BY UserKinds
    <3>2. <<m, r>> \notin hurt
      BY <2>2, <3>1
    <3> QED BY <1>17, <2>1, <2>2, <3>2
  <2>8. ReadingAt(u)'
    BY <2>1, Zenon DEF ReadingAt
  <2>9. Reading'
    BY <1>20, <2>8, Zenon DEF Reading
  <2>10. u \notin met => got'[u][x] = now
    <3> SUFFICES ASSUME u \notin met PROVE got'[u][x] = now
      OBVIOUS
    <3>1. ASSUME NEW w \in Words
          PROVE  got'[u][x][w] = now[w]
      <4>1. CASE w = reg
        BY <1>13, <1>15, <2>1, <2>4, <4>1
      <4>2. CASE w # reg /\ w \in Kept(Mem(u))
        <5>1. PICK i \in 3 .. Last(u) : Script(u)[i] = w
          BY <1>4, <4>2 DEF ReaderScript, Last
        <5>2. i < pc[u] /\ pc[u] # 1
          BY <1>5, <1>22, <4>2, <5>1 DEF reg
        <5>3. ReadingAt(u)
          BY <1>3 DEF Reading
        <5>4. got[u][x][w] = now[w]
          BY <1>3, <1>11, <2>4, <5>1, <5>2, <5>3 DEF ReadingAt
        <5> QED BY <1>13, <4>2, <5>4
      <4>3. CASE w # reg /\ w \notin Kept(Mem(u))
        <5>1. got[u][x][w] = <<>> /\ now[w] = <<>>
          BY <1>0, <1>3, <1>8, <2>4, <4>3 DEF Narrow
        <5> QED BY <1>13, <4>3, <5>1
      <4> QED BY <4>1, <4>2, <4>3
    <3>2. got'[u][x] \in [Words -> Val]
      BY <1>8, <1>12 DEF Contents
    <3> QED BY <2>3, <3>1, <3>2
  <2>11. Printed'
    <3> SUFFICES ASSUME NEW v \in ReadersHere, NEW r \in Rows,
                        r < row'[v], <<v, r>> \notin hurt'
                 PROVE  got'[v][r] = seen'[v][r]
      BY Zenon DEF Printed
    <3>1. CASE v = u /\ r = x
      BY <2>2, <2>5, <2>10, <3>1
    <3>2. CASE v # u \/ r # x
      <4>1. <<v, r>> \notin hurt
        BY <2>2, <3>2
      <4>2. r < row[v]
        <5>1. CASE v = u
          BY <1>8, <1>11, <2>1, <3>2, <5>1 DEF Rows
        <5>2. CASE v # u
          BY <1>1, <5>2, UserKinds DEF Moves
        <5> QED BY <5>1, <5>2
      <4> QED BY <1>3, <1>13, <2>5, <3>2, <4>1, <4>2, Zenon DEF Printed
    <3> QED BY <3>1, <3>2
  <2> QED BY <1>16, <1>18, <1>19, <2>6, <2>7, <2>9, <2>11 DEF AccInv
<1> QED BY <1>5, <1>21, <1>22

-----------------------------------------------------------------------------
(* A cycle of the indirect registers: a command goes on its way, the table      *)
(* carries it out or ignores it, or it is released.                             *)
Onward ==
    /\ UNCHANGED <<mem, reply, cmd, hurt, met>> /\ istate # "DONE" /\ istate' # "DONE"
    /\ iaddr' = addr \/ iaddr' = iaddr
RowWritten ==
    /\ cmd = "write" /\ istate # "DONE" /\ istate' = "DONE"
    /\ UNCHANGED <<cmd, iaddr, reply, hurt, met>>
    /\ mem' = [mem EXCEPT ![addr[1]][addr[2]] = Stored(addr[1], data)]
WriteLost ==
    /\ cmd = "write" /\ istate # "DONE" /\ istate' = "DONE"
    /\ UNCHANGED <<cmd, iaddr, mem, reply, met>>
    /\ hurt' = hurt \cup {addr}
RowRead ==
    /\ cmd = "read" /\ istate # "DONE" /\ istate' = "DONE" /\ UNCHANGED <<cmd, mem, hurt, met>>
    /\ iaddr' = addr /\ reply' = [reply EXCEPT ![addr[1]] = mem[addr[1]][addr[2]]]
ReadLost ==
    /\ cmd = "read" /\ istate # "DONE" /\ istate' = "DONE"
    /\ UNCHANGED <<cmd, iaddr, mem, reply, hurt>>
    /\ met' = met \cup {u \in Users : pc[u] # 1}
Released ==
    /\ istate = "DONE" /\ cmd' = "none"
    /\ UNCHANGED <<mem, reply, iaddr, hurt, met>>

LEMMA ClockCases ==
    ASSUME AccessParameters, AccInv, Clock
    PROVE  /\ Bus' /\ (iaddr' = iaddr \/ iaddr' = addr)
           /\ Onward \/ RowWritten \/ WriteLost \/ RowRead \/ ReadLost \/ Released
<1>1. UNCHANGED <<pc, row, ver, got, seen, want, data, addr>> /\ ~Settled /\ Indirect
  BY DEF Clock, soft
<1>2. PICK free \in BOOLEAN :
      /\ mem' = IF pulse = "write" /\ free
                THEN [mem EXCEPT ![iaddr[1]][iaddr[2]] = Stored(iaddr[1], data)] ELSE mem
      /\ reply' = IF pulse = "read" /\ free
                  THEN [reply EXCEPT ![iaddr[1]] = mem[iaddr[1]][iaddr[2]]] ELSE reply
      /\ hurt' = IF pulse = "write" /\ ~free THEN hurt \cup {iaddr} ELSE hurt
      /\ met' = IF pulse = "read" /\ ~free
                THEN met \cup {u \in Users : pc[u] # 1} ELSE met
  BY Zenon DEF Clock, Table
<1>3. Under("write", "WRITE", "WRITE_WAIT") \/ Under("read", "READ", "READ_WAIT")
  BY <1>1 DEF AccInv, Bus
<1>4. CASE Under("write", "WRITE", "WRITE_WAIT")
  <2>1. CASE istate = "IDLE"
    BY <1>1, <1>2, <1>4, <2>1 DEF Under, Indirect, Bus, Onward
  <2>2. CASE istate = "WRITE"
    BY <1>1, <1>2, <1>4, <2>2 DEF Under, Indirect, Bus, Onward
  <2>3. CASE istate = "WRITE_WAIT" /\ free
    BY <1>1, <1>2, <1>4, <2>3 DEF Under, Indirect, Bus, RowWritten
  <2>4. CASE istate = "WRITE_WAIT" /\ ~free
    BY <1>1, <1>2, <1>4, <2>4 DEF Under, Indirect, Bus, WriteLost
  <2>5. CASE istate = "DONE"
    BY <1>1, <1>2, <1>4, <2>5 DEF Under, Indirect, Bus, Settled, Released
  <2> QED BY <1>4, <2>1, <2>2, <2>3, <2>4, <2>5 DEF Under
<1>5. CASE Under("read", "READ", "READ_WAIT")
  <2>1. CASE istate = "IDLE"
    BY <1>1, <1>2, <1>5, <2>1 DEF Under, Indirect, Bus, Onward
  <2>2. CASE istate = "READ"
    BY <1>1, <1>2, <1>5, <2>2 DEF Under, Indirect, Bus, Onward
  <2>3. CASE istate = "READ_WAIT" /\ free
    BY <1>1, <1>2, <1>5, <2>3 DEF Under, Indirect, Bus, RowRead
  <2>4. CASE istate = "READ_WAIT" /\ ~free
    BY <1>1, <1>2, <1>5, <2>4 DEF Under, Indirect, Bus, ReadLost
  <2>5. CASE istate = "DONE"
    BY <1>1, <1>2, <1>5, <2>5 DEF Under, Indirect, Bus, Settled, Released
  <2> QED BY <1>5, <2>1, <2>2, <2>3, <2>4, <2>5 DEF Under
<1> QED BY <1>3, <1>4, <1>5

LEMMA ClockStep ==
    ASSUME AccessParameters, AccInv, Clock
    PROVE  AccInv'
<1>1. UNCHANGED <<pc, row, ver, got, seen, want, data, addr>>
  BY DEF Clock, soft
<1>2. /\ Bus' /\ (iaddr' = iaddr \/ iaddr' = addr)
      /\ Onward \/ RowWritten \/ WriteLost \/ RowRead \/ ReadLost \/ Released
  BY ClockCases
<1>3. AccTypes /\ Narrow /\ Written /\ Pending /\ Writing /\ Reading /\ Printed
  BY DEF AccInv
<1>4. PICK m \in Mems, x \in Rows : addr = <<m, x>>
  BY <1>3 DEF AccTypes
<1>5. addr[1] = m /\ addr[2] = x
  BY <1>4
<1>6. \A u \in Users : /\ Finished(u)' = Finished(u) /\ Word(u)' = Word(u)
                       /\ Place(u)' = Place(u)
  BY <1>1 DEF Finished, Word, Place
<1>7. hurt \subseteq hurt' /\ met \subseteq met'
  BY <1>2, Zenon DEF Onward, RowWritten, WriteLost, RowRead, ReadLost, Released
<1>8. Writing'
  <2> SUFFICES ASSUME NEW u \in WritersHere, ~Finished(u)', u \notin met'
               PROVE  /\ \A i \in 1 .. Last(u) - 2 : i < pc'[u] => data'[Script(u)[i]] = Word(u)'
                      /\ pc'[u] = Last(u) => addr' = Place(u)'
    BY Zenon DEF Writing, WritingAt, Last
  <2>1. u \in Users /\ u \notin met /\ WritingAt(u)
    BY <1>3, <1>7, UserKinds, Zenon DEF Writing
  <2> QED BY <1>1, <1>6, <2>1, Zenon DEF WritingAt
<1>9. Printed'
  BY <1>1, <1>3, <1>7, Zenon DEF Printed
<1>10. ASSUME mem' \in [Mems -> Contents], reply' \in [Mems -> [Words -> Val]]
       PROVE  AccTypes'
  <2>1. iaddr' \in Mems \X Rows
    BY <1>2, <1>3, Zenon DEF AccTypes
  <2> QED BY <1>1, <1>3, <1>6, <1>10, <2>1, Zenon DEF AccTypes, Last
<1>11. ASSUME NEW u \in ReadersHere, ~Finished(u)', u \notin met', pc'[u] # 1
       PROVE  /\ u \in Users /\ pc[u] # 1 /\ cmd # "write" /\ addr = Place(u) /\ addr' = Place(u)'
              /\ pc[u] > 2 => \/ cmd = "read" /\ istate # "DONE"
                              \/ iaddr = Place(u) /\ reply[Mem(u)] = mem[Mem(u)][row[u]]
              /\ \A i \in 3 .. Last(u) : i < pc'[u] =>
                    got'[u][row'[u]][Script(u)[i]] = mem[Mem(u)][row'[u]][Script(u)[i]]
  <2>1. u \in Users /\ u \notin met /\ ReadingAt(u)
    BY <1>3, <1>7, <1>11, UserKinds, Zenon DEF Reading
  <2> QED BY <1>1, <1>6, <1>11, <2>1, Zenon DEF ReadingAt
<1>12. ASSUME \A u \in ReadersHere :
                 ~Finished(u)' /\ u \notin met' /\ pc'[u] # 1 =>
                    /\ cmd' # "write" /\ addr' = Place(u)' /\ mem' = mem
                    /\ pc'[u] > 2 => \/ cmd' = "read" /\ istate' # "DONE"
                                     \/ iaddr' = Place(u)' /\ reply'[Mem(u)] = mem'[Mem(u)][row'[u]]
       PROVE  Reading'
  <2> SUFFICES ASSUME NEW u \in ReadersHere, ~Finished(u)', u \notin met', pc'[u] # 1
               PROVE  /\ cmd' # "write" /\ addr' = Place(u)'
                      /\ pc'[u] > 2 => \/ cmd' = "read" /\ istate' # "DONE"
                                       \/ iaddr' = Place(u)' /\ reply'[Mem(u)] = mem'[Mem(u)][row'[u]]
                      /\ \A i \in 3 .. Last(u) : i < pc'[u] =>
                            got'[u][row'[u]][Script(u)[i]] = mem'[Mem(u)][row'[u]][Script(u)[i]]
    BY Zenon DEF Reading, ReadingAt, Last
  <2>1. /\ cmd' # "write" /\ addr' = Place(u)' /\ mem' = mem
        /\ pc'[u] > 2 => \/ cmd' = "read" /\ istate' # "DONE"
                         \/ iaddr' = Place(u)' /\ reply'[Mem(u)] = mem'[Mem(u)][row'[u]]
    BY <1>12
  <2>2. \A i \in 3 .. Last(u) : i < pc'[u] =>
           got'[u][row'[u]][Script(u)[i]] = mem[Mem(u)][row'[u]][Script(u)[i]]
    BY <1>11, Zenon
  <2> QED BY <2>1, <2>2, Zenon
<1>13. CASE Onward \/ WriteLost \/ ReadLost \/ Released
  <2>0. UNCHANGED <<mem, reply>>
    BY <1>13, Zenon DEF Onward, WriteLost, ReadLost, Released
  <2> SUFFICES Written' /\ Pending' /\ Reading'
    <3>1. AccTypes'
      BY <1>3, <1>10, <2>0, Zenon DEF AccTypes
    <3>2. Narrow'
      BY <1>1, <1>3, <2>0, Zenon DEF Narrow
    <3> QED BY <1>2, <1>8, <1>9, <3>1, <3>2 DEF AccInv
  <2>1. CASE Onward
    <3>1. \A n \in Mems, r \in Rows : Ordered(n, r)' = Ordered(n, r)
      BY <1>1, <2>1 DEF Ordered, Onward
    <3>2. Written' /\ Pending'
      BY <1>1, <1>3, <2>1, <3>1, Zenon DEF Onward, Written, Pending
    <3>3. Reading'
      <4> SUFFICES ASSUME NEW u \in ReadersHere, ~Finished(u)', u \notin met', pc'[u] # 1
                   PROVE  /\ cmd' # "write" /\ addr' = Place(u)' /\ mem' = mem
                          /\ pc'[u] > 2 => \/ cmd' = "read" /\ istate' # "DONE"
                                           \/ iaddr' = Place(u)' /\ reply'[Mem(u)] = mem'[Mem(u)][row'[u]]
        BY <1>12, Zenon
      <4>1. /\ u \in Users /\ cmd # "write" /\ addr = Place(u) /\ addr' = Place(u)'
            /\ pc[u] > 2 => \/ cmd = "read" /\ istate # "DONE"
                            \/ iaddr = Place(u) /\ reply[Mem(u)] = mem[Mem(u)][row[u]]
        BY <1>11, Zenon
      <4> QED BY <1>1, <2>1, <4>1, Zenon DEF Onward
    <3> QED BY <3>2, <3>3
  <2>2. CASE WriteLost
    <3>1. Pending'
      BY <2>2 DEF WriteLost, Pending
    <3>2. Written'
      <4> SUFFICES ASSUME NEW n \in Mems, NEW r \in Rows, <<n, r>> \notin hurt'
                   PROVE  mem'[n][r] = want'[n][r]
        BY Zenon DEF Written
      <4>1. <<n, r>> \notin hurt /\ addr # <<n, r>>
        BY <2>2 DEF WriteLost
      <4> QED BY <1>1, <1>3, <2>0, <4>1 DEF Written, Ordered
    <3>3. Reading'
      <4> SUFFICES ASSUME NEW u \in ReadersHere, ~Finished(u)', u \notin met', pc'[u] # 1
                   PROVE  FALSE
        BY <1>12, Zenon
      <4>1. cmd # "write"
        BY <1>11, Zenon
      <4> QED BY <2>2, <4>1 DEF WriteLost
    <3> QED BY <3>1, <3>2, <3>3
  <2>3. CASE ReadLost
    <3>1. Written' /\ Pending'
      BY <1>1, <1>3, <2>3, Zenon DEF ReadLost, Written, Pending, Ordered
    <3>2. Reading'
      <4> SUFFICES ASSUME NEW u \in ReadersHere, ~Finished(u)', u \notin met', pc'[u] # 1
                   PROVE  FALSE
        BY <1>12, Zenon
      <4>1. u \in Users /\ pc[u] # 1
        BY <1>11, Zenon
      <4> QED BY <2>3, <4>1 DEF ReadLost
    <3> QED BY <3>1, <3>2
  <2>4. CASE Released
    <3>1. cmd' = "none" /\ istate = "DONE" /\ UNCHANGED <<mem, reply, iaddr, hurt, met>>
      BY <2>4, Zenon DEF Released
    <3>2. Written' /\ Pending'
      BY <1>1, <1>3, <3>1 DEF Written, Pending, Ordered
    <3>3. Reading'
      <4> SUFFICES ASSUME NEW u \in ReadersHere, ~Finished(u)', u \notin met', pc'[u] # 1
                   PROVE  /\ cmd' # "write" /\ addr' = Place(u)' /\ mem' = mem
                          /\ pc'[u] > 2 => iaddr' = Place(u)' /\ reply'[Mem(u)] = mem'[Mem(u)][row'[u]]
        BY <1>12, Zenon
      <4>1. /\ u \in Users /\ addr' = Place(u)'
            /\ pc[u] > 2 => \/ cmd = "read" /\ istate # "DONE"
                            \/ iaddr = Place(u) /\ reply[Mem(u)] = mem[Mem(u)][row[u]]
        BY <1>11, Zenon
      <4> QED BY <1>1, <1>6, <3>1, <4>1
    <3> QED BY <3>2, <3>3
  <2> QED BY <1>13, <2>1, <2>2, <2>3, <2>4
<1>14. CASE RowWritten
  <2> DEFINE d == Stored(m, data)
  <2>1. /\ d \in [Words -> Val]
        /\ \A w \in Words : d[w] = IF w \in Kept(m) THEN data[w] ELSE <<>>
    BY <1>3, StoredType DEF AccTypes
  <2>2. mem' = [mem EXCEPT ![m][x] = d] /\ UNCHANGED <<reply, hurt, met>> /\ cmd = "write"
        /\ istate # "DONE" /\ istate' = "DONE"
    BY <1>5, <1>14 DEF RowWritten
  <2>3. d = Stored(m, data)
    OBVIOUS
  <2> HIDE DEF d
  <2>4. /\ mem' \in [Mems -> Contents]
        /\ mem'[m][x] = d
        /\ \A n \in Mems, r \in Rows : n # m \/ r # x => mem'[n][r] = mem[n][r]
    BY <1>3, <2>1, <2>2, Zenon DEF AccTypes, Contents
  <2>5. AccTypes'
    BY <1>3, <1>10, <2>2, <2>4, Zenon DEF AccTypes
  <2>6. Narrow'
    <3>1. ASSUME NEW n \in Mems, NEW r \in Rows, NEW w \in Words \ Kept(n)
          PROVE  mem'[n][r][w] = <<>>
      <4>1. CASE n = m /\ r = x
        BY <2>1, <2>4, <4>1, Zenon
      <4>2. CASE n # m \/ r # x
        BY <1>3, <2>4, <4>2 DEF Narrow
      <4> QED BY <4>1, <4>2
    <3> QED BY <1>1, <1>3, <3>1 DEF Narrow
  <2>7. Written'
    <3> SUFFICES ASSUME NEW n \in Mems, NEW r \in Rows, <<n, r>> \notin hurt
                 PROVE  mem'[n][r] = want'[n][r]
      BY <2>2, Zenon DEF Written
    <3>1. CASE n = m /\ r = x
      <4>1. Ordered(m, x)
        BY <1>3, <1>4, <2>2, <3>1 DEF Pending
      <4> QED BY <1>1, <2>3, <2>4, <3>1, <4>1 DEF Ordered
    <3>2. CASE n # m \/ r # x
      <4>1. ~Ordered(n, r)
        BY <1>4, <3>2 DEF Ordered
      <4> QED BY <1>1, <1>3, <2>4, <3>2, <4>1 DEF Written
    <3> QED BY <3>1, <3>2
  <2>8. Pending'
    BY <2>2 DEF Pending
  <2>9. Reading'
    <3> SUFFICES ASSUME NEW u \in ReadersHere, ~Finished(u)', u \notin met', pc'[u] # 1
                 PROVE  FALSE
      BY <1>12, Zenon
    <3>1. cmd # "write"
      BY <1>11, Zenon
    <3> QED BY <2>2, <3>1
  <2> QED BY <1>2, <1>8, <1>9, <2>5, <2>6, <2>7, <2>8, <2>9 DEF AccInv
<1>15. CASE RowRead
  <2> DEFINE d == mem[m][x]
  <2>1. /\ reply' = [reply EXCEPT ![m] = d] /\ UNCHANGED <<mem, hurt, met>> /\ iaddr' = addr
        /\ cmd' = "read" /\ cmd = "read"
    BY <1>5, <1>15 DEF RowRead
  <2>2. d \in [Words -> Val]
    BY <1>3, <1>4 DEF AccTypes, Contents
  <2>3. AccTypes' /\ Narrow' /\ reply'[m] = mem[m][x]
    BY <1>1, <1>3, <1>4, <1>10, <2>1, <2>2 DEF AccTypes, Narrow
  <2>4. Written' /\ Pending'
    BY <1>1, <1>3, <2>1, Zenon DEF Written, Pending, Ordered
  <2>5. Reading'
    <3> SUFFICES ASSUME NEW u \in ReadersHere, ~Finished(u)', u \notin met', pc'[u] # 1
                 PROVE  /\ cmd' # "write" /\ addr' = Place(u)' /\ mem' = mem
                        /\ iaddr' = Place(u)' /\ reply'[Mem(u)] = mem'[Mem(u)][row'[u]]
      BY <1>12, Zenon
    <3>1. u \in Users /\ addr = Place(u) /\ addr' = Place(u)'
      BY <1>11, Zenon
    <3>2. Mem(u) = m /\ row[u] = x
      BY <1>4, <3>1 DEF Place
    <3> QED BY <1>1, <2>1, <2>3, <3>1, <3>2
  <2> QED BY <1>2, <1>8, <1>9, <2>3, <2>4, <2>5 DEF AccInv
<1> QED BY <1>2, <1>13, <1>14, <1>15

LEMMA StartStep ==
    ASSUME AccessParameters, AccInv, NEW u \in Users, Start(u)
    PROVE  AccInv'
<1>1. /\ Finished(u) /\ Settled /\ ver[u] < PASSES
      /\ row' = [row EXCEPT ![u] = 0] /\ ver' = [ver EXCEPT ![u] = @ + 1]
      /\ UNCHANGED <<pc, got, data, addr, cmd, istate, iaddr, pulse, mem, reply, want, seen, met, hurt>>
  BY DEF Start
<1>2. AccTypes /\ Bus /\ Narrow /\ Written /\ Writing /\ Reading /\ Printed
  BY DEF AccInv
<1>3. cmd = "none" /\ pc[u] = 1 /\ 0 \in 0 .. ROWS /\ 0 # ROWS
  BY <1>1, <1>2 DEF AccTypes, Settled, AccessParameters
<1>4. /\ row' \in [Users -> 0 .. ROWS] /\ row'[u] = 0 /\ \A v \in Users : v # u => row'[v] = row[v]
  BY <1>1, <1>2, <1>3 DEF AccTypes
<1>5. /\ ver' \in [Users -> 0 .. PASSES] /\ \A v \in Users : v # u => ver'[v] = ver[v]
  <2> DEFINE n == ver[u] + 1
  <2>1. n \in 0 .. PASSES
    BY <1>1, <1>2 DEF AccTypes, AccessParameters
  <2>2. ver' = [ver EXCEPT ![u] = n]
    BY <1>1
  <2> HIDE DEF n
  <2> QED BY <1>2, <2>1, <2>2 DEF AccTypes
<1>6. AccTypes'
  <2>1. \A v \in Users : Finished(v)' => pc'[v] = 1
    BY <1>1, <1>2, <1>3, <1>4, Zenon DEF AccTypes, Finished
  <2> QED BY <1>1, <1>2, <1>4, <1>5, <2>1, Zenon DEF AccTypes, Last
<1>7. Bus' /\ Narrow' /\ Pending'
  BY <1>1, <1>2, <1>3 DEF Bus, Under, Settled, Narrow, Pending
<1>8. Written'
  BY <1>1, <1>2, <1>3, Zenon DEF Written, Ordered
<1>9. Printed'
  <2> SUFFICES ASSUME NEW v \in ReadersHere, NEW r \in Rows, r < row'[v], <<v, r>> \notin hurt
               PROVE  got[v][r] = seen[v][r]
    BY <1>1, Zenon DEF Printed
  <2>1. ~(r < 0)
    BY DEF Rows, AccessParameters
  <2>2. v \in Users /\ v # u
    BY <1>4, <2>1, UserKinds, Zenon
  <2> QED BY <1>2, <1>4, <2>2, Zenon DEF Printed
<1>10. Writing'
  <2> SUFFICES ASSUME NEW v \in WritersHere
               PROVE  WritingAt(v)'
    BY Zenon DEF Writing
  <2>1. CASE v = u
    <3> SUFFICES /\ \A i \in 1 .. Last(u) - 2 : ~(i < pc'[u])
                 /\ pc'[u] # Last(u)
      BY <2>1, Zenon DEF WritingAt, Last
    <3>1. Last(u) \in Nat /\ Last(u) >= 3 /\ pc'[u] = 1
      BY <1>1, <1>3, ScriptLength
    <3> QED BY <3>1
  <2>2. CASE v # u
    <3>1. v \in Users /\ WritingAt(v)
      BY <1>2, UserKinds, Zenon DEF Writing
    <3>2. Finished(v)' = Finished(v) /\ Word(v)' = Word(v) /\ Place(v)' = Place(v)
      BY <1>4, <1>5, <2>2, <3>1 DEF Finished, Word, Place
    <3> SUFFICES ASSUME ~Finished(v)', v \notin met'
                 PROVE  /\ \A i \in 1 .. Last(v) - 2 : i < pc'[v] => data'[Script(v)[i]] = Word(v)'
                        /\ pc'[v] = Last(v) => addr' = Place(v)'
      BY Zenon DEF WritingAt, Last
    <3> QED BY <1>1, <3>1, <3>2, Zenon DEF WritingAt
  <2> QED BY <2>1, <2>2
<1>11. Reading'
  <2> SUFFICES ASSUME NEW v \in ReadersHere
               PROVE  ReadingAt(v)'
    BY Zenon DEF Reading
  <2>1. CASE v = u
    BY <1>1, <1>3, <2>1, Zenon DEF ReadingAt
  <2>2. CASE v # u
    <3>1. v \in Users /\ ReadingAt(v)
      BY <1>2, UserKinds, Zenon DEF Reading
    <3>2. Finished(v)' = Finished(v) /\ Place(v)' = Place(v) /\ row'[v] = row[v]
      BY <1>4, <2>2, <3>1 DEF Finished, Place
    <3> SUFFICES ASSUME ~Finished(v)', v \notin met', pc'[v] # 1
                 PROVE  /\ cmd' # "write" /\ addr' = Place(v)'
                        /\ pc'[v] > 2 => \/ cmd' = "read" /\ istate' # "DONE"
                                         \/ iaddr' = Place(v)' /\ reply'[Mem(v)] = mem'[Mem(v)][row'[v]]
                        /\ \A i \in 3 .. Last(v) : i < pc'[v] =>
                              got'[v][row'[v]][Script(v)[i]] = mem'[Mem(v)][row'[v]][Script(v)[i]]
      BY Zenon DEF ReadingAt, Last
    <3> QED BY <1>1, <3>1, <3>2, Zenon DEF ReadingAt
  <2> QED BY <2>1, <2>2
<1> QED BY <1>6, <1>7, <1>8, <1>9, <1>10, <1>11 DEF AccInv

LEMMA AccInit == ASSUME AccessParameters, Init PROVE AccInv
<1>1. 0 \in Rows /\ "lpm" \in Mems /\ ROWS \in 0 .. ROWS /\ 0 \in 0 .. PASSES
  BY DEF AccessParameters, Rows, Mems
<1>2. Blank \in [Words -> Val] /\ \A w \in Words : Blank[w] = <<>>
  BY DEF Blank, Val
<1>3. \A u \in Users : Last(u) \in Nat /\ 1 <= Last(u)
  <2> SUFFICES ASSUME NEW u \in Users PROVE Last(u) \in Nat /\ 1 <= Last(u)
    BY Zenon
  <2> QED BY ScriptLength
<1>4. AccTypes
  <2> HIDE DEF Blank
  <2>1. /\ pc \in [Users -> Nat \ {0}] /\ row \in [Users -> 0 .. ROWS] /\ ver \in [Users -> 0 .. PASSES]
        /\ \A u \in Users : pc[u] <= Last(u) /\ pc[u] = 1
    BY <1>1, <1>3 DEF Init
  <2>2. addr \in Mems \X Rows /\ iaddr \in Mems \X Rows
    BY <1>1, Zenon DEF Init
  <2>3. /\ got \in [ReadersHere -> Contents] /\ seen \in [ReadersHere -> Contents]
        /\ data \in [Words -> Val] /\ reply \in [Mems -> [Words -> Val]]
        /\ mem \in [Mems -> Contents] /\ want \in [Mems -> Contents]
    BY <1>2 DEF Init, ReadersHere, Contents
  <2> QED BY <2>1, <2>2, <2>3 DEF AccTypes
<1>5. Settled /\ (\A u \in Users : Finished(u)) /\ want = mem /\ seen = got /\ cmd = "none"
  BY DEF Init, Settled, Finished
<1>6. Narrow
  <2> HIDE DEF Blank
  <2> QED BY <1>2 DEF Init, Narrow, ReadersHere
<1> QED BY <1>4, <1>5, <1>6, UserKinds, Zenon
        DEF AccInv, Bus, Written, Pending, Writing, WritingAt, Reading, ReadingAt, Printed

LEMMA AccStep == ASSUME AccessParameters, AccInv, [Next]_vars PROVE AccInv'
<1>1. CASE Clock
  BY <1>1, ClockStep
<1>2. ASSUME NEW u \in Users, Start(u) PROVE AccInv'
  BY <1>2, StartStep
<1>3. ASSUME NEW u \in Users, Access(u) PROVE AccInv'
  <2>1. u \in WritersHere \/ u \in ReadersHere
    BY UserKinds
  <2> QED BY <1>3, <2>1, WriterStep, ReaderStep
<1>4. CASE UNCHANGED vars
  <2>1. UNCHANGED <<pc, row, ver, got, seen, want, data, addr, cmd, istate, iaddr, pulse, mem, reply, met, hurt>>
    BY <1>4 DEF vars, soft
  <2>2. AccTypes'
    BY <2>1, Zenon DEF AccInv, AccTypes, Last, Finished
  <2>3. Bus' /\ Narrow'
    BY <2>1, Zenon DEF AccInv, Bus, Under, Settled, Narrow
  <2>4. Written' /\ Pending'
    BY <2>1, Zenon DEF AccInv, Written, Pending, Ordered
  <2>5. Writing' /\ Reading' /\ Printed'
    BY <2>1, Zenon DEF AccInv, Writing, WritingAt, Reading, ReadingAt, Printed, Last, Finished, Word, Place
  <2> QED BY <2>2, <2>3, <2>4, <2>5 DEF AccInv
<1> QED BY <1>1, <1>2, <1>3, <1>4 DEF Next

LEMMA AccHolds == ASSUME AccessParameters, AccInv PROVE DamageIsLocal
<1>1. AccTypes /\ Bus /\ Written /\ Printed
  BY DEF AccInv
<1>2. TypeOK
  <2>1. \A u \in Users : pc[u] \in 1 .. Len(Script(u)) /\ row[u] \in 0 .. ROWS /\ ver[u] \in 0 .. PASSES
    <3> SUFFICES ASSUME NEW u \in Users
                 PROVE  pc[u] \in 1 .. Len(Script(u)) /\ row[u] \in 0 .. ROWS /\ ver[u] \in 0 .. PASSES
      BY Zenon
    <3>1. Last(u) \in Nat
      BY ScriptLength
    <3>2. pc[u] \in Nat \ {0} /\ pc[u] <= Last(u) /\ row[u] \in 0 .. ROWS /\ ver[u] \in 0 .. PASSES
      BY <1>1, Zenon DEF AccTypes
    <3> QED BY <3>1, <3>2 DEF Last
  <2>2. /\ cmd \in {"none", "write", "read"} /\ pulse \in {"none", "write", "read"}
        /\ istate \in {"IDLE", "WRITE", "WRITE_WAIT", "READ", "READ_WAIT", "DONE"}
    BY <1>1 DEF Bus, Under, Settled
  <2>3. \A m \in Mems, r \in Rows : DOMAIN mem[m][r] = Words
    BY <1>1 DEF AccTypes, Contents
  <2> QED BY <1>1, <2>1, <2>2, <2>3 DEF AccTypes, TypeOK
<1>3. Settled => \A m \in Mems, r \in Rows : <<m, r>> \notin hurt => mem[m][r] = want[m][r]
  BY <1>1 DEF Written, Ordered, Settled
<1> QED BY <1>1, <1>2, <1>3 DEF DamageIsLocal, Printed, ReadersHere

(* Whatever the number of rows, whichever of the six functions run, however   *)
(* their register accesses interleave and whatever packets are looked up      *)
(* meanwhile: a row of a hardware table is the one last ordered, and a row    *)
(* that "show hw" printed is the one the table held, except the rows of users *)
(* that were disturbed at them and the rows those users' commands went to.    *)
THEOREM DamageStaysLocal ==
    ASSUME AccessParameters
    PROVE  Spec => []DamageIsLocal
<1>1. Init => AccInv
  BY AccInit
<1>2. AccInv /\ [Next]_vars => AccInv'
  BY AccStep
<1>3. AccInv => DamageIsLocal
  BY AccHolds
<1> QED BY <1>1, <1>2, <1>3, PTL DEF Spec
=============================================================================
