----------------------------- MODULE SysThread -----------------------------
(***************************************************************************)
(* The list of threads the lwip port keeps (sys_arch.c).  A thread that     *)
(* waits for a semaphore or a mailbox looks itself up by its pthread_t, and *)
(* aborts the process when it is not there.  The list is extended by        *)
(* sys_thread_new without a lock: by the main thread, for the transport     *)
(* thread, the network thread, the web server, the clean-up of sping and     *)
(* every telnet client (sr_base.c, sr_main.c, or_cli.c), and by the web      *)
(* server, for its workers (or_www.c).                                      *)
(***************************************************************************)
EXTENDS Naturals, Sequences, FiniteSets

CONSTANTS
    Clients,    \* the sequence of the telnet clients
    WwwWorkers, \* the sequence of the workers of the web server
    Ids,        \* positive numbers, the values of pthread_t
    NULL        \* no thread

VARIABLES
    threads,    \* the first thread of the list
    next,       \* thread->next
    pthread,    \* thread->pthread
    id,         \* the pthread_t of the thread itself
    status,     \* none, created, running or ended
    step,       \* where main and www_main are in sys_thread_new
    child,      \* the thread they create
    overlapped  \* history: two sys_thread_new met in the list

threadVars == <<threads, next, pthread, id, status, step, child, overlapped>>

Creators == {"main", "www"}
Plan == [main |-> <<"transport", "network", "www", "sping">> \o Clients, www |-> WwwWorkers]
Names == {"main"} \cup UNION {{Plan[c][i] : i \in DOMAIN Plan[c]} : c \in Creators}

\* sys_thread_init enters the main thread.
Init ==
    /\ threads = "main" /\ next = [t \in Names |-> NULL]
    /\ id = [t \in Names |-> IF t = "main" THEN CHOOSE i \in Ids : \A j \in Ids : i <= j ELSE 0]
    /\ pthread = id
    /\ status = [t \in Names |-> IF t = "main" THEN "running" ELSE "none"]
    /\ step = [c \in Creators |-> "idle"] /\ child = [c \in Creators |-> NULL]
    /\ overlapped = FALSE

-----------------------------------------------------------------------------
\* The thread a creator goes on with: main starts the servers and then a thread
\* for each client, www_main its workers.
Creates(c, t) ==
    LET plan == Plan[c]
    IN  \E i \in DOMAIN plan : plan[i] = t /\ {j \in DOMAIN plan : status[plan[j]] = "none"} = i .. Len(plan)

(* sys_thread_new: link the new thread to the first one, make it the first,     *)
(* start it; pthread_create stores its pthread_t before or after it runs.      *)
Link(c, t) ==
    /\ status[c] = "running" /\ step[c] = "idle" /\ Creates(c, t)
    /\ next' = [next EXCEPT ![t] = threads]
    /\ pthread' = [pthread EXCEPT ![t] = 0]
    /\ step' = [step EXCEPT ![c] = "linked"] /\ child' = [child EXCEPT ![c] = t]
    /\ overlapped' = (overlapped \/ \E d \in Creators : step[d] = "linked")
    /\ UNCHANGED <<threads, id, status>>

Enter(c) ==
    /\ step[c] = "linked"
    /\ threads' = child[c]
    /\ step' = [step EXCEPT ![c] = "entered"]
    /\ UNCHANGED <<next, pthread, id, status, child, overlapped>>

\* A pthread_t no thread has: the first that none ever had, or one that is back.
FreeIds ==
    LET had == {id[t] : t \in {u \in Names : status[u] # "none"}}
        has == {id[t] : t \in {u \in Names : status[u] \in {"created", "running"}}}
    IN  (had \ has) \cup {i \in Ids \ had : \A j \in Ids \ had : i <= j}

Create(c) ==
    /\ step[c] = "entered"
    /\ \E i \in FreeIds : id' = [id EXCEPT ![child[c]] = i]
    /\ status' = [status EXCEPT ![child[c]] = "created"]
    /\ step' = [step EXCEPT ![c] = "created"]
    /\ UNCHANGED <<threads, next, pthread, child, overlapped>>

Store(c) ==
    /\ step[c] = "created"
    /\ pthread' = [pthread EXCEPT ![child[c]] = id[child[c]]]
    /\ step' = [step EXCEPT ![c] = "idle"]
    /\ UNCHANGED <<threads, next, id, status, child, overlapped>>

\* The new thread stores its own pthread_t and calls its function.
thread_start(t) ==
    /\ status[t] = "created"
    /\ pthread' = [pthread EXCEPT ![t] = id[t]]
    /\ status' = [status EXCEPT ![t] = "running"]
    /\ UNCHANGED <<threads, next, id, step, child, overlapped>>

\* The thread of a client ends; its entry stays.
End(t) ==
    /\ \E i \in DOMAIN Clients : t = Clients[i]
    /\ status[t] = "running"
    /\ status' = [status EXCEPT ![t] = "ended"]
    /\ UNCHANGED <<threads, next, pthread, id, step, child, overlapped>>

Next ==
    \/ \E c \in Creators : Enter(c) \/ Create(c) \/ Store(c) \/ \E t \in Names : Link(c, t)
    \/ \E t \in Names : thread_start(t) \/ End(t)

-----------------------------------------------------------------------------
\* The list, from its first thread.
List ==
    LET at[n \in 0 .. Cardinality(Names)] ==
            IF n = 0 THEN threads ELSE IF at[n - 1] = NULL THEN NULL ELSE next[at[n - 1]]
    IN  {at[n] : n \in DOMAIN at} \ {NULL}

(* current_thread finds an entry with the pthread_t of every thread that runs,     *)
(* whichever of sys_thread_new and thread_start is faster and however pthread_ts   *)
(* are reused, and never one of another thread -- unless the main thread and        *)
(* www_main were in sys_thread_new together (sys_arch.c:170-174).                 *)
ThreadsAreKnown ==
    ~overlapped =>
        \A t \in Names : status[t] = "running" =>
            /\ \E u \in List : pthread[u] = id[t]
            /\ \A u \in List \ {t} : pthread[u] = id[t] => status[u] = "ended"
=============================================================================
