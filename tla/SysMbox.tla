------------------------------ MODULE SysMbox ------------------------------
(* The mailboxes of the lwip port (sys_arch.c) between threads that post    *)
(* and the one thread that fetches: a ring of SYS_MBOX_SIZE places, a       *)
(* semaphore used as a mutex, and a semaphore "mail" that a post signals    *)
(* only when it finds the ring empty.  The fetching thread is the transport *)
(* thread: sys_mbox_fetch (sys.c) also runs its TCP timer.                  *)
EXTENDS Integers, Sequences, FiniteSets

CONSTANTS
    Posters,        \* threads that post
    SYS_MBOX_SIZE,
    MEMP_NUM,       \* messages of the pool the posters allocate from
    POSTS,          \* bound on the posts of each thread
    INTERVAL,       \* TCP_TMR_INTERVAL
    TICKS           \* bound on the runs of the timer

VARIABLES
    first, last, msgs,  \* the ring
    mail, mutex,        \* sem->c of the two semaphores
    ppc,                \* where each poster is
    count,              \* posts of each poster so far
    fpc,                \* where the transport thread is
    time,               \* timeouts->next->time
    ticks,              \* runs of the timer so far
    posted, fetched     \* history: messages in the order they entered and left

mboxVars == <<first, last, msgs, mail, mutex, ppc, count, fpc, time, ticks, posted, fetched>>

NoMsg == <<>>

\* The ring is larger than the pool: sys_mbox_post relies on it.
RingFitsPool ==
    SYS_MBOX_SIZE \in Nat /\ MEMP_NUM \in Nat /\ MEMP_NUM < SYS_MBOX_SIZE

Init ==
    /\ first = 0 /\ last = 0 /\ msgs = [i \in 0 .. SYS_MBOX_SIZE - 1 |-> NoMsg]
    /\ mail = 0 /\ mutex = 1
    /\ ppc = [p \in Posters |-> "idle"] /\ count = [p \in Posters |-> 0]
    /\ fpc = "fetch" /\ time = INTERVAL /\ ticks = 0
    /\ posted = <<>> /\ fetched = <<>>

-----------------------------------------------------------------------------
(* The ring and the semaphores.                                             *)

\* The index after i, for first and for last.
Advance(i) == (i + 1) % SYS_MBOX_SIZE

\* sys_sem_signal: the count is a bit.
Signalled(c) == 1

\* Mutated form: the mail semaphore is signalled only when the ring holds one
\* message already.
MailAfterPost_second == IF Advance(first) = last THEN Signalled(mail) ELSE mail

\* sys_mbox_post signals mail only when the box was empty.
MailAfterPost == IF last = first THEN Signalled(mail) ELSE mail

\* The message a post carries: memp_mallocp finds the pool empty when
\* MEMP_NUM messages are allocated, and nothing is posted then.
Allocated == Len(posted) - Len(fetched) + Cardinality({p \in Posters : ppc[p] # "idle"})

(* sys_mbox_post: wait for the mutex, put the message, signal.              *)
PostLock(p) ==
    /\ ppc[p] = "idle" /\ count[p] < POSTS
    /\ Allocated < MEMP_NUM /\ mutex = 1
    /\ mutex' = 0
    /\ ppc' = [ppc EXCEPT ![p] = "put"]
    /\ count' = [count EXCEPT ![p] = @ + 1]
    /\ UNCHANGED <<first, last, msgs, mail, fpc, time, ticks, posted, fetched>>

PostPut(p) ==
    /\ ppc[p] = "put"
    /\ msgs' = [msgs EXCEPT ![last] = <<p, count[p]>>]
    /\ mail' = MailAfterPost
    /\ last' = Advance(last)
    /\ posted' = Append(posted, <<p, count[p]>>)
    /\ ppc' = [ppc EXCEPT ![p] = "unlock"]
    /\ UNCHANGED <<first, mutex, count, fpc, time, ticks, fetched>>

PostUnlock(p) ==
    /\ ppc[p] = "unlock"
    /\ mutex' = Signalled(mutex)
    /\ ppc' = [ppc EXCEPT ![p] = "idle"]
    /\ UNCHANGED <<first, last, msgs, mail, count, fpc, time, ticks, posted, fetched>>

-----------------------------------------------------------------------------
(* sys_mbox_fetch and sys_arch_mbox_fetch.  waited is the time the last     *)
(* wait for mail is measured to have taken: one at least, and one when the  *)
(* box was not empty and there was no wait.                                 *)

\* A timer with no time left runs at once: the fetch is not tried.
FetchTimer ==
    /\ fpc = "fetch" /\ time = 0 /\ ticks < TICKS
    /\ time' = INTERVAL /\ ticks' = ticks + 1
    /\ UNCHANGED <<first, last, msgs, mail, mutex, ppc, count, fpc, posted, fetched>>

FetchLock ==
    /\ fpc \in {"fetch", "woken"} /\ (fpc = "fetch" => time > 0) /\ mutex = 1
    /\ mutex' = 0
    /\ fpc' = IF fpc = "fetch" THEN "test" ELSE "retest"
    /\ UNCHANGED <<first, last, msgs, mail, ppc, count, time, ticks, posted, fetched>>

\* The box is empty: release the mutex and wait for mail.
FetchEmpty ==
    /\ fpc \in {"test", "retest"} /\ first = last
    /\ mutex' = Signalled(mutex)
    /\ fpc' = "wait"
    /\ UNCHANGED <<first, last, msgs, mail, ppc, count, time, ticks, posted, fetched>>

\* The time the timer has left once a message is in hand.
TimeLeft(waited) == IF waited <= time THEN time - waited ELSE 0

FetchTake(waited) ==
    /\ fpc \in {"test", "retest"} /\ (fpc = "test" => waited = 1) /\ first # last
    /\ fetched' = Append(fetched, msgs[first])
    /\ first' = Advance(first)
    /\ mutex' = Signalled(mutex)
    /\ time' = TimeLeft(waited)
    /\ fpc' = "fetch"
    /\ UNCHANGED <<last, msgs, mail, ppc, count, ticks, posted>>

FetchWake ==
    /\ fpc = "wait" /\ mail = 1
    /\ mail' = 0
    /\ fpc' = "woken"
    /\ UNCHANGED <<first, last, msgs, mutex, ppc, count, time, ticks, posted, fetched>>

\* The wait for mail times out: the handler runs and the fetch starts again.
FetchTimeout ==
    /\ fpc = "wait" /\ mail = 0 /\ ticks < TICKS
    /\ time' = INTERVAL /\ ticks' = ticks + 1
    /\ fpc' = "fetch"
    /\ UNCHANGED <<first, last, msgs, mail, mutex, ppc, count, posted, fetched>>

-----------------------------------------------------------------------------
Fetcher ==
    \/ FetchTimer \/ FetchLock \/ FetchEmpty \/ FetchWake \/ FetchTimeout
    \/ \E waited \in 1 .. INTERVAL : FetchTake(waited)

Next == Fetcher \/ \E p \in Posters : PostLock(p) \/ PostPut(p) \/ PostUnlock(p)

Spec == Init /\ [][Next]_mboxVars

-----------------------------------------------------------------------------
(* From first to last the ring holds exactly the messages posted and not    *)
(* yet fetched, in the order they were posted, whatever the interleaving of *)
(* the threads: sys_mbox_post tests for an empty ring and never for a full  *)
(* one, and is right to while the pool is smaller than the ring.            *)
RingIsQueue ==
    LET held == (last - first) % SYS_MBOX_SIZE
    IN  [i \in 1 .. held |-> msgs[(first + i - 1) % SYS_MBOX_SIZE]]
            = SubSeq(posted, Len(fetched) + 1, Len(posted))

(* sys_mbox_post signals mail only when it finds the ring empty, and the    *)
(* count of a semaphore never exceeds one; still the transport thread never *)
(* sleeps in sys_arch_mbox_fetch over a message with no signal pending.     *)
NoLostMail == fpc = "wait" /\ first # last => mail = 1
=============================================================================
