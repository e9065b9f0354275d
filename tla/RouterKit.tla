------------------------------ MODULE RouterKit ------------------------------
(***************************************************************************)
(* rkd, the router kit: a daemon that polls the kernel's routes, ARP cache   *)
(* and interfaces (rkd.cc, linux_proc_net.cc, iflist.hh) and copies those of  *)
(* the nf devices into the tables of the output port lookup (sume_mon.cc).    *)
(* The kernel may change its tables between any two steps of the daemon, and  *)
(* the daemon may be killed and started again at any step.                   *)
(***************************************************************************)
EXTENDS Integers, Sequences, FiniteSets

CONSTANTS
    Entries,        \* table -> the entries the kernel may have: [dev, val]
    MAX_KERNEL,     \* bound: entries of a kernel table
    DevMaps,        \* what devtoport may know: sets of devices
    NoMac,          \* the value of an unresolved ARP entry
    OSPF,           \* 224.0.0.5
    FIXME_MAX,      \* FIXME_RT_MAX, FIXME_ARP_MAX, FIXME_DST_FILTER_MAX
    MACS,           \* MAC registers
    CHANGES,        \* bound: changes of the kernel's tables
    RESTARTS        \* bound: restarts of the daemon

Tables == {"rt", "arp", "if"}
Rows == 1 .. FIXME_MAX

VARIABLES
    kernel,         \* table -> its entries
    cur,            \* rtcur, arpcur, ifcur: what rkd handed on last
    copy,           \* rt, at, ifl: the monitor's copy of the hardware
    hw,             \* table -> the rows of the hardware
    mac,            \* the MAC registers: the device whose address they hold
    devtoport,      \* the devices the monitor knows
    at,             \* [pc, t, row, check, local]: where the daemon is
    changes, restarts

vars == <<kernel, cur, copy, hw, mac, devtoport, at, changes, restarts>>

Clear == "clear"
Empty == [t \in Tables |-> <<>>]
Cleared == [t \in Tables |-> [r \in Rows |-> Clear]]

(* The kernel lists the loopback interface first.                            *)
Lo == [dev |-> "lo", val |-> "lo"]
KernelTables(t) ==
    LET lists == UNION {[1 .. n -> Entries[t]] : n \in 0 .. MAX_KERNEL}
    IN  IF t = "if" THEN {<<Lo>> \o l : l \in lists} ELSE lists

-----------------------------------------------------------------------------
(* The constructor of sume_mon clears the tables and fills devtoport from     *)
(* atoi(&interface[4]), and interface is never set: any numbering may result. *)
Start == [pc |-> "load", t |-> "rt", row |-> 1, check |-> <<>>, local |-> <<>>]

Init ==
    /\ kernel = [Empty EXCEPT !["if"] = <<Lo>>] /\ cur = Empty /\ copy = Empty /\ hw = Cleared
    /\ mac = [r \in 1 .. MACS |-> Clear]
    /\ devtoport \in DevMaps
    /\ at = Start
    /\ changes = 0 /\ restarts = 0

Restart ==
    /\ restarts < RESTARTS
    /\ restarts' = restarts + 1
    /\ cur' = Empty /\ copy' = Empty /\ hw' = Cleared
    /\ devtoport' \in DevMaps
    /\ at' = Start
    /\ UNCHANGED <<kernel, mac, changes>>

(* The kernel, or its administrator.                                         *)
KernelChanges(t) ==
    /\ changes < CHANGES
    /\ changes' = changes + 1
    /\ \E k \in KernelTables(t) : k # kernel[t] /\ kernel' = [kernel EXCEPT ![t] = k]
    /\ UNCHANGED <<cur, copy, hw, mac, devtoport, at, restarts>>

-----------------------------------------------------------------------------
(* The list of the entries of s at the positions K, in their order.           *)
Keep(s, K) ==
    [i \in 1 .. Cardinality(K) |->
       s[CHOOSE k \in K : Cardinality({j \in K : j < k}) = i - 1]]

linux_proc_net_load_rtable == kernel["rt"]

(* Entries without a MAC are left out.                                       *)
linux_proc_net_load_arptable ==
    LET s == kernel["arp"] IN Keep(s, {k \in DOMAIN s : s[k].val # NoMac})

(* The first of the list is skipped.                                         *)
fill_iflist == Tail(kernel["if"])

Loaded(t) ==
    CASE t = "rt" -> linux_proc_net_load_rtable
      [] t = "arp" -> linux_proc_net_load_arptable
      [] t = "if" -> fill_iflist

(* rtable_update, arptable_update, interface_update: the devices known.       *)
Known(table) == Keep(table, {k \in DOMAIN table : table[k].dev \in devtoport})

Following(t) == CASE t = "rt" -> "arp" [] t = "arp" -> "if" [] t = "if" -> "rt"

\* Mutant: only the lengths are compared.
Changed_size(t, check) ==
    Len(check) # Len(cur[t]) /\ Len(Known(check)) # Len(copy[t])

(* main's comparison, and that of sume_mon after it.                         *)
Changed(t, check) == check # cur[t] /\ Known(check) # copy[t]

\* Mutant: rows that are going to be overwritten are not cleared.
FirstToDelete_past(local) == Len(local) + 1

FirstToDelete(local) == 1

(* One table of the loop of main, up to the comparison in sume_mon.           *)
Load ==
    /\ at.pc = "load"
    /\ LET check == Loaded(at.t)
       IN  IF Changed(at.t, check)
           THEN /\ at' = [at EXCEPT !.pc = "delete", !.check = check, !.local = Known(check),
                                    !.row = FirstToDelete(Known(check))]
                /\ UNCHANGED cur
           ELSE /\ cur' = [cur EXCEPT ![at.t] = check]
                /\ at' = [at EXCEPT !.t = Following(at.t)]
    /\ UNCHANGED <<kernel, copy, hw, mac, devtoport, changes, restarts>>

(* The rows of the table that is replaced; the OSPF row after the interfaces   *)
(* is not one of them.                                                       *)
ToDelete(t) == Len(copy[t])

DeleteRow ==
    /\ at.pc = "delete"
    /\ IF at.row <= ToDelete(at.t)
       THEN /\ hw' = [hw EXCEPT ![at.t][at.row] = Clear]
            /\ at' = [at EXCEPT !.row = @ + 1]
       ELSE at' = [at EXCEPT !.pc = "create", !.row = 1] /\ UNCHANGED hw
    /\ UNCHANGED <<kernel, cur, copy, mac, devtoport, changes, restarts>>

(* The register has the number of the row, whatever the device.              *)
nf_set_mac(index, dev) == IF index \in DOMAIN mac THEN [mac EXCEPT ![index] = dev] ELSE mac

(* A row of the new table; an interface also has a MAC register set.          *)
CreateRow ==
    /\ at.pc = "create" /\ at.row <= Len(at.local)
    /\ hw' = [hw EXCEPT ![at.t][at.row] = at.local[at.row].val]
    /\ mac' = IF at.t = "if" THEN nf_set_mac(at.row, at.local[at.row].dev) ELSE mac
    /\ at' = [at EXCEPT !.row = @ + 1]
    /\ UNCHANGED <<kernel, cur, copy, devtoport, changes, restarts>>

(* The OSPF address, rt = local and the like, rtcur = rtcheck and the like     *)
(* (arpcur is set before arptable_update; only this thread reads it).         *)
Finish ==
    /\ at.pc = "create" /\ at.row > Len(at.local)
    /\ hw' = IF at.t = "if" THEN [hw EXCEPT !["if"][at.row] = OSPF] ELSE hw
    /\ copy' = [copy EXCEPT ![at.t] = at.local]
    /\ cur' = [cur EXCEPT ![at.t] = at.check]
    /\ at' = [Start EXCEPT !.t = Following(at.t)]
    /\ UNCHANGED <<kernel, mac, devtoport, changes, restarts>>

rkd == Load \/ DeleteRow \/ CreateRow \/ Finish

Next == rkd \/ Restart \/ (\E t \in Tables : KernelChanges(t))

(* The daemon goes on polling.                                               *)
Spec == Init /\ [][Next]_vars /\ WF_vars(rkd)

-----------------------------------------------------------------------------
Updating(t) == at.t = t /\ at.pc # "load"
Vals(table) == {table[i].val : i \in DOMAIN table}
InHw(t) == {hw[t][r] : r \in Rows} \ {Clear}

(* sume_mon.cc:251-275, 281-305, 220-247: while the monitor is not rewriting a *)
(* table, the hardware has exactly the rows of its copy, in their order, and   *)
(* nothing of longer tables it had before or of a daemon that was killed; the  *)
(* address filter accepts the interfaces and OSPF and nothing else, and the    *)
(* MAC registers of the rows in use are those of the interfaces listed.       *)
HwMirrorsCopy ==
    /\ \A t \in {"rt", "arp"} : ~Updating(t) =>
          \A r \in Rows : hw[t][r] = IF r \in DOMAIN copy[t] THEN copy[t][r].val ELSE Clear
    /\ ~Updating("if") =>
          /\ InHw("if") \in {Vals(copy["if"]) \cup {OSPF}, Vals(copy["if"])}
          /\ copy["if"] # <<>> => OSPF \in InHw("if")
          /\ \A r \in DOMAIN copy["if"] \cap DOMAIN mac : mac[r] = copy["if"][r].dev

(* sume_mon.cc:254-262: rows are written when the old ones are all cleared, so  *)
(* a packet meets rows of the old table or of the new one, never of both.      *)
NeverMixesTables ==
    \A t \in Tables : Updating(t) =>
        \/ InHw(t) \ {OSPF} \subseteq Vals(copy[t])
        \/ InHw(t) \ {OSPF} \subseteq Vals(at.local)

(* The hardware holds the kernel's entries of the known devices, in order.     *)
InSync ==
    \A t \in Tables :
        /\ copy[t] = Known(Loaded(t)) /\ ~Updating(t)
        /\ \A r \in DOMAIN copy[t] : hw[t][r] = copy[t][r].val
=============================================================================
