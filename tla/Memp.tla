-------------------------------- MODULE Memp --------------------------------
(***************************************************************************)
(* The pools of fixed-size blocks of the lwip port (memp.c), each a list of *)
(* free blocks, and the threads that share them: the thread that receives    *)
(* packets, the transport thread, and the threads that close connections.   *)
(* memp_mallocp and memp_freep take a mutex, memp_malloc and memp_free do   *)
(* not.                                                                     *)
(***************************************************************************)
EXTENDS Naturals, Sequences, FiniteSets

CONSTANTS
    Workers,        \* threads of the servers
    memp_num,       \* the blocks of each pool: MEMP_NUM_NETCONN, ...
    CONNECTIONS,    \* bound on the connections of a behaviour
    NULL            \* no block

VARIABLES
    memp_tab,   \* the first free block of each pool
    next,       \* memp->next of each block
    mutex,      \* sem->c of the mutex
    pc,         \* what each thread does
    call,       \* its call of memp.c
    mem,        \* what the call returned
    conn, apimsg,   \* the blocks a worker works with
    mbox,       \* messages to the transport thread
    acceptmbox, \* connections accepted and not yet taken
    opened,     \* connections so far
    spoilt      \* history: pools that a call without the mutex met in use, or
                \* that were given a block of another pool

mempVars == <<memp_tab, next, mutex, pc, call, mem, conn, apimsg, mbox, acceptmbox,
              opened, spoilt>>
callers == <<pc, conn, apimsg, mbox, acceptmbox, opened>>

Pools == {"NETCONN", "API_MSG", "TCP_MSG"}
Block(type, i) == <<type, i>>
BlocksOf(type) == {Block(type, i) : i \in 1 .. memp_num[type]}
Blocks == UNION {BlocksOf(type) : type \in Pools}
Threads == Workers \cup {"net", "transport"}

NoCall == [fn |-> "none", type |-> NULL, block |-> NULL, locked |-> FALSE, step |-> "done"]

\* memp_init chains the blocks of each pool.
Init ==
    /\ memp_tab = [type \in Pools |-> IF memp_num[type] > 0 THEN Block(type, 1) ELSE NULL]
    /\ next = [b \in Blocks |-> IF b[2] < memp_num[b[1]] THEN Block(b[1], b[2] + 1) ELSE NULL]
    /\ mutex = 1
    /\ pc = [t \in Threads |-> "idle"] /\ call = [t \in Threads |-> NoCall]
    /\ mem = [t \in Threads |-> NULL]
    /\ conn = [w \in Workers |-> NULL] /\ apimsg = [w \in Workers |-> NULL]
    /\ mbox = <<>> /\ acceptmbox = <<>> /\ opened = 0 /\ spoilt = {}

-----------------------------------------------------------------------------
(* The calls, step by step.                                                  *)

\* Mutated form: memp_mallocp does not take the mutex.
memp_mallocp_unlocked(type) ==
    [fn |-> "malloc", type |-> type, block |-> NULL, locked |-> FALSE, step |-> "first"]

memp_mallocp(type) ==
    [fn |-> "malloc", type |-> type, block |-> NULL, locked |-> TRUE, step |-> "lock"]
memp_free(type, b) ==
    [fn |-> "free", type |-> type, block |-> b, locked |-> FALSE, step |-> "first"]
memp_freep(type, b) ==
    [fn |-> "free", type |-> type, block |-> b, locked |-> TRUE, step |-> "lock"]

InPool(t, type) == call[t].type = type /\ call[t].step \in {"first", "second"}

\* t goes on with step s of its call, or has returned from it.
Goes(t, s) == call' = [call EXCEPT ![t].step = s]
Returns(t, b) ==
    /\ mem' = [mem EXCEPT ![t] = b]
    /\ Goes(t, IF call[t].locked THEN "unlock" ELSE "done")

Lock(t) ==
    /\ call[t].step = "lock" /\ mutex = 1
    /\ mutex' = 0 /\ Goes(t, "first")
    /\ UNCHANGED <<memp_tab, next, mem, spoilt, callers>>

Unlock(t) ==
    /\ call[t].step = "unlock"
    /\ mutex' = 1 /\ Goes(t, "done")
    /\ UNCHANGED <<memp_tab, next, mem, spoilt, callers>>

\* A call enters the pool: memp_free may meet another call there, or be met by one.
Unguarded(t) == call[t].fn = "free" /\ ~call[t].locked
Enters(t) ==
    spoilt' = IF \E u \in Threads \ {t} : /\ InPool(u, call[t].type)
                                          /\ Unguarded(t) \/ Unguarded(u)
              THEN spoilt \cup {call[t].type} ELSE spoilt

\* memp_malloc: look at the first block, then take it off the list.
MallocLook(t) ==
    /\ call[t].fn = "malloc" /\ call[t].step = "first"
    /\ Enters(t)
    /\ LET b == memp_tab[call[t].type]
       IN  IF b = NULL THEN Returns(t, NULL)
           ELSE call' = [call EXCEPT ![t].block = b, ![t].step = "second"] /\ UNCHANGED mem
    /\ UNCHANGED <<memp_tab, next, mutex, callers>>

MallocTake(t) ==
    /\ call[t].fn = "malloc" /\ call[t].step = "second"
    /\ LET b == call[t].block
       IN  /\ memp_tab' = [memp_tab EXCEPT ![call[t].type] = next[b]]
           /\ next' = [next EXCEPT ![b] = NULL]
           /\ Returns(t, b)
    /\ UNCHANGED <<mutex, spoilt, callers>>

\* memp_free: chain the block before the first one, then make it the first.
FreeChain(t) ==
    /\ call[t].fn = "free" /\ call[t].step = "first"
    /\ Enters(t)
    /\ next' = [next EXCEPT ![call[t].block] = memp_tab[call[t].type]]
    /\ Goes(t, "second")
    /\ UNCHANGED <<memp_tab, mutex, mem, callers>>

FreeFirst(t) ==
    /\ call[t].fn = "free" /\ call[t].step = "second"
    /\ memp_tab' = [memp_tab EXCEPT ![call[t].type] = call[t].block]
    /\ Returns(t, NULL)
    /\ UNCHANGED <<next, mutex, spoilt, callers>>

-----------------------------------------------------------------------------
(* The callers.  A thread goes on when its call has returned.                *)

Does(t, from, to, c) ==
    /\ pc[t] = from /\ call[t].step = "done"
    /\ pc' = [pc EXCEPT ![t] = to]
    /\ call' = [call EXCEPT ![t] = c]
    /\ UNCHANGED <<memp_tab, next, mutex, mem>>

\* tcp_msg_input: a packet of a new connection is posted, or dropped.
NetArrives ==
    /\ opened < CONNECTIONS /\ opened' = opened + 1
    /\ Does("net", "idle", "post", memp_mallocp("TCP_MSG"))
    /\ UNCHANGED <<conn, apimsg, mbox, acceptmbox, spoilt>>
NetPosts ==
    /\ Does("net", "post", "idle", NoCall)
    /\ mbox' = IF mem["net"] = NULL THEN mbox ELSE Append(mbox, [msg |-> mem["net"], from |-> "net"])
    /\ UNCHANGED <<conn, apimsg, acceptmbox, opened, spoilt>>

\* transport_thread: a new connection is given a netconn by accept_function, a
\* call of a worker is answered; then the message is freed.
Fetched == Head(mbox)
TransportAccepts ==
    /\ mbox # <<>> /\ Fetched.from = "net"
    /\ Does("transport", "idle", "accept", memp_mallocp("NETCONN"))
    /\ UNCHANGED <<conn, apimsg, mbox, acceptmbox, opened, spoilt>>
TransportAccepted ==
    /\ Does("transport", "accept", "free", memp_freep("TCP_MSG", Fetched.msg))
    /\ acceptmbox' = IF mem["transport"] = NULL THEN acceptmbox
                     ELSE Append(acceptmbox, mem["transport"])
    /\ UNCHANGED <<conn, apimsg, mbox, opened, spoilt>>
TransportAnswers ==
    /\ mbox # <<>> /\ Fetched.from \in Workers
    /\ pc["transport"] = "idle" /\ call["transport"].step = "done"
    /\ pc' = [pc EXCEPT !["transport"] = "free", ![Fetched.from] = "answered"]
    /\ call' = [call EXCEPT !["transport"] = memp_freep("TCP_MSG", Fetched.msg)]
    /\ UNCHANGED <<memp_tab, next, mutex, mem, conn, apimsg, mbox, acceptmbox, opened, spoilt>>
TransportFreed ==
    /\ Does("transport", "free", "idle", NoCall)
    /\ mbox' = Tail(mbox)
    /\ UNCHANGED <<conn, apimsg, acceptmbox, opened, spoilt>>

\* netconn_accept, then netconn_delete.
WorkerAccepts(w) ==
    /\ acceptmbox # <<>>
    /\ conn' = [conn EXCEPT ![w] = Head(acceptmbox)] /\ acceptmbox' = Tail(acceptmbox)
    /\ Does(w, "idle", "apimsg", memp_mallocp("API_MSG"))
    /\ UNCHANGED <<apimsg, mbox, opened, spoilt>>

\* Without an API message the netconn is never freed.
WorkerLeaks(w) ==
    /\ mem[w] = NULL
    /\ Does(w, "apimsg", "idle", NoCall)
    /\ UNCHANGED <<conn, apimsg, mbox, acceptmbox, opened, spoilt>>
WorkerCalls(w) ==
    /\ mem[w] # NULL
    /\ Does(w, "apimsg", "post", memp_mallocp("TCP_MSG"))
    /\ apimsg' = [apimsg EXCEPT ![w] = mem[w]]
    /\ UNCHANGED <<conn, mbox, acceptmbox, opened, spoilt>>

\* transport_apimsg: without a message to the transport thread it gives the API
\* message to the wrong pool, and nobody answers the worker.
WorkerPosts(w) ==
    /\ mem[w] # NULL
    /\ Does(w, "post", "wait", NoCall)
    /\ mbox' = Append(mbox, [msg |-> mem[w], from |-> w])
    /\ UNCHANGED <<conn, apimsg, acceptmbox, opened, spoilt>>
WorkerMisfiles(w) ==
    /\ mem[w] = NULL
    /\ Does(w, "post", "stuck", memp_free("TCP_MSG", apimsg[w]))
    /\ spoilt' = spoilt \cup {"TCP_MSG", "API_MSG"}
    /\ UNCHANGED <<conn, apimsg, mbox, acceptmbox, opened>>

WorkerAnswered(w) ==
    /\ Does(w, "answered", "delete", memp_freep("API_MSG", apimsg[w]))
    /\ UNCHANGED <<conn, apimsg, mbox, acceptmbox, opened, spoilt>>
WorkerDeletes(w) ==
    /\ Does(w, "delete", "close", memp_free("NETCONN", conn[w]))
    /\ apimsg' = [apimsg EXCEPT ![w] = NULL]
    /\ UNCHANGED <<conn, mbox, acceptmbox, opened, spoilt>>
WorkerCloses(w) ==
    /\ Does(w, "close", "idle", NoCall)
    /\ conn' = [conn EXCEPT ![w] = NULL]
    /\ UNCHANGED <<apimsg, mbox, acceptmbox, opened, spoilt>>

Call(t) ==
    \/ Lock(t) \/ Unlock(t) \/ MallocLook(t) \/ MallocTake(t) \/ FreeChain(t) \/ FreeFirst(t)
Worker(w) ==
    \/ WorkerAccepts(w) \/ WorkerLeaks(w) \/ WorkerCalls(w) \/ WorkerPosts(w)
    \/ WorkerMisfiles(w) \/ WorkerAnswered(w) \/ WorkerDeletes(w) \/ WorkerCloses(w)

Next ==
    \/ NetArrives \/ NetPosts
    \/ TransportAccepts \/ TransportAccepted \/ TransportAnswers \/ TransportFreed
    \/ \E t \in Threads : Call(t)
    \/ \E w \in Workers : Worker(w)

-----------------------------------------------------------------------------
\* The blocks somebody works with, each with its owner.
Owned ==
    {<<"mem", t, mem[t]>> : t \in {u \in Threads : /\ call[u].fn = "malloc"
                                                 /\ call[u].step \in {"unlock", "done"}}}
    \cup {<<"conn", w, conn[w]>> : w \in {v \in Workers : pc[v] \notin {"idle", "close"}}}
    \cup {<<"apimsg", w, apimsg[w]>> :
             w \in {v \in Workers : pc[v] \in {"post", "wait", "answered"}}}
    \cup {<<"mbox", i, mbox[i].msg>> :
             i \in {j \in DOMAIN mbox : j > 1 \/ pc["transport"] # "free"}}
    \cup {<<"acceptmbox", i, acceptmbox[i]>> : i \in DOMAIN acceptmbox}

\* The free list of a pool, as far as it can reach.
FreeList(type) ==
    LET at[n \in 0 .. memp_num[type]] ==
            IF n = 0 THEN memp_tab[type]
            ELSE IF at[n - 1] = NULL THEN NULL ELSE next[at[n - 1]]
    IN  at

(* A pool holds only blocks of its own, each of them once, and none that         *)
(* somebody works with; nobody works with a block of somebody else -- in every    *)
(* pool but those that the two calls without the mutex spoil: netconn_delete,     *)
(* when it meets another call in the pool (api_lib.c:297), and transport_apimsg,  *)
(* which gives a block to the wrong pool (transport_subsys.c:175).               *)
PoolsAreSound ==
    \A type \in Pools \ spoilt :
        LET list == FreeList(type)
            free == {list[n] : n \in DOMAIN list} \ {NULL}
        IN  /\ list[memp_num[type]] = NULL /\ free \subseteq BlocksOf(type)
            /\ \A o \in Owned : o[3] \notin free
            /\ \A o, p \in Owned : o[3] = p[3] /\ o[3] \in BlocksOf(type) => o = p
=============================================================================
