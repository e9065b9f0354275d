-------------------------------- MODULE Www --------------------------------
(***************************************************************************)
(* The web server of SCONE (or_www.c): one thread accepts connections and     *)
(* queues them, a pool of threads serves them.  A worker reads into a buffer  *)
(* that doubles until the blank line that ends a request has come, sends the  *)
(* parts of the answer in pieces and closes the connection.  A request is the *)
(* number of bytes up to its blank line and the kind of its URL.              *)
(*                                                                           *)
(* Of the sockets (lwtcp/sockets.c, api_lib.c) conn->err is kept: a call that  *)
(* finds no memory fails and leaves it set, a call that finds it set fails,    *)
(* and data that arrives clears it (recv_tcp).                               *)
(***************************************************************************)
EXTENDS Integers, Sequences, FiniteSets, SequencesExt

CONSTANTS
    Workers,        \* the threads of the pool; the code starts five
    Clients,        \* one connection each
    NEEDS,          \* bound: the lengths of requests
    BODY,           \* bound: kind of URL -> bytes a client sends after the blank line
    BUF,            \* the first size of the buffer; 100 in the code
    CHUNK,          \* the most that one send takes; 8400 in the code
    SHORTAGES,      \* bound: the clients for which the server runs short of something
    LENGTHS         \* kind of URL -> the lengths of the parts of its answer

VARIABLES
    www_request_queue,
    worker,         \* worker -> where it is, and buf_size, buf_alloc_size, the part of
                    \* the answer and its totalSent
    client          \* client -> its request, what came of it, conn->err, and history:
                    \* short, whether the server ran short of something

wwwVars == <<www_request_queue, worker, client>>

Idle == [at |-> "check", c |-> "none", size |-> 0, alloc |-> 0, part |-> 1, sent |-> 0]

WwwInit ==
    /\ www_request_queue = <<>>
    /\ worker = [w \in Workers |-> Idle]
    /\ client \in [Clients -> [need : NEEDS, kind : DOMAIN LENGTHS, state : {"new"},
                              arrived : {0}, gone : {FALSE}, got : {0},
                              err : {FALSE}, short : {FALSE}]]

-----------------------------------------------------------------------------
(* The clients: connect, send, and perhaps go away early.                     *)
ClientSends(c) ==
    /\ client[c].state = "open" /\ ~client[c].gone
    /\ client[c].arrived < client[c].need + BODY[client[c].kind]
    /\ client' = [client EXCEPT ![c].arrived = @ + 1, ![c].err = FALSE]
    /\ UNCHANGED <<www_request_queue, worker>>

ClientLeaves(c) ==
    /\ client[c].state = "open" /\ ~client[c].gone
    /\ client' = [client EXCEPT ![c].gone = TRUE, ![c].err = FALSE]
    /\ UNCHANGED <<www_request_queue, worker>>

MayRunShort(c) ==
    client[c].short \/ Cardinality({d \in Clients : client[d].short}) < SHORTAGES

(* accept, push and broadcast: every waiting worker looks at the queue again.  *)
(* When all sockets are taken accept closes the connection and returns -1,     *)
(* which is queued too.  A call with it looks at the entry before the table of  *)
(* sockets (get_socket), where no connection is taken to be, and fails.        *)
www_main(c) ==
    /\ client[c].state = "new"
    /\ \/ client' = [client EXCEPT ![c].state = "open"]
       \/ /\ MayRunShort(c)
          /\ client' = [client EXCEPT ![c].state = "closed", ![c].short = TRUE]
    /\ www_request_queue' = Append(www_request_queue, c)
    /\ worker' = [w \in Workers |-> IF worker[w].at = "wait" THEN Idle ELSE worker[w]]

-----------------------------------------------------------------------------
\* Mutant: the list loses everything behind the request that is taken.
Popped_all == <<>>

(* rs->www_request_queue = cur->next                                          *)
Popped == Tail(www_request_queue)

(* Under www_mutex: take the first request, or sleep for at most a second.     *)
www_client_thread(w) ==
    /\ worker[w].at = "check"
    /\ IF www_request_queue = <<>>
       THEN /\ worker' = [worker EXCEPT ![w].at = "wait"]
            /\ UNCHANGED www_request_queue
       ELSE /\ worker' = [worker EXCEPT ![w] = [Idle EXCEPT
                            !.at = "read", !.c = Head(www_request_queue), !.alloc = BUF]]
            /\ www_request_queue' = Popped
    /\ UNCHANGED client

WaitTimesOut(w) ==
    /\ worker[w].at = "wait"
    /\ worker' = [worker EXCEPT ![w] = Idle]
    /\ UNCHANGED <<www_request_queue, client>>

(* free(info), and on to the next request.                                    *)
Done(w, state) ==
    /\ worker' = [worker EXCEPT ![w] = Idle]
    /\ client' = [client EXCEPT ![worker[w].c].state = state]

(* Memory is short in a call: conn->err is set.                               *)
Short(c) ==
    /\ MayRunShort(c)
    /\ client' = [client EXCEPT ![c].err = TRUE, ![c].short = TRUE]

(* close: with no message for the transport thread it does nothing.           *)
Close(w) ==
    \/ Done(w, "closed")
    \/ client[worker[w].c].state = "open" /\ MayRunShort(worker[w].c) /\ Done(w, "leaked")

\* Mutant: the buffer grows only when it would already have overflown.
Full_late(size, alloc) == size > alloc

Full(size, alloc) == size = alloc

(* recv got n bytes: grow the buffer if it is full, which may fail.            *)
Reads(w, n) ==
    LET c == worker[w].c
        s == worker[w].size + n
        found == s >= client[c].need
    IN  \/ /\ Full(s, worker[w].alloc)
           /\ Done(w, "leaked")
        \/ /\ worker' = [worker EXCEPT
                ![w].size = s, ![w].alloc = IF Full(s, @) THEN 2 * @ ELSE @,
                ![w].at = IF found THEN "answer" ELSE "read"]
           /\ UNCHANGED client \/ Short(c)

(* recv returns 0 or -1: the client has gone and everything was read, there is  *)
(* no room, conn->err is set and no data is left over, or there is no socket.  *)
ReadsNothing(w) ==
    LET c == worker[w].c
    IN  \/ worker[w].size = worker[w].alloc
        \/ client[c].gone /\ client[c].arrived = worker[w].size
        \/ client[c].err \/ client[c].state = "closed"

(* recv returns 0 because there is no netbuf; the connection is closed.        *)
NoNetbuf(w) ==
    /\ client[worker[w].c].state = "open" /\ MayRunShort(worker[w].c)
    /\ worker' = [worker EXCEPT ![w] = Idle]
    /\ \E state \in {"closed", "leaked"} : client' =
          [client EXCEPT ![worker[w].c].state = state, ![worker[w].c].short = TRUE]

(* service_request, up to the blank line.                                     *)
ReadsRequest(w) ==
    /\ worker[w].at = "read"
    /\ LET c == worker[w].c
           room == worker[w].alloc - worker[w].size
           there == client[c].arrived - worker[w].size
       IN  \/ client[c].state = "open"
              /\ \E n \in 1 .. (IF room < there THEN room ELSE there) : Reads(w, n)
           \/ ReadsNothing(w) /\ Close(w)
           \/ NoNetbuf(w)
    /\ UNCHANGED www_request_queue

Piece(left) == IF left > CHUNK THEN CHUNK ELSE left

(* The next part of the answer, or the end.                                   *)
NextPart(w) == worker' = [worker EXCEPT ![w].part = @ + 1, ![w].sent = 0]

(* send_file: the file cannot be read, and its last part is left out.          *)
ShortFile(c, w) ==
    /\ client[c].kind = "file" /\ worker[w].part = Len(LENGTHS.file) /\ worker[w].sent = 0
    /\ MayRunShort(c) /\ client' = [client EXCEPT ![c].short = TRUE]

(* send_all, one turn: an error ends it, and the caller goes on with the next   *)
(* part.  A request line that cannot be parsed has no answer.                  *)
send_all(w) ==
    /\ worker[w].at = "answer"
    /\ LET c == worker[w].c
           parts == LENGTHS[client[c].kind]
           left == parts[worker[w].part] - worker[w].sent
       IN  IF worker[w].part > Len(parts) THEN Close(w)
           ELSE \/ /\ ~client[c].err
                   /\ IF left > CHUNK THEN worker' = [worker EXCEPT ![w].sent = @ + CHUNK]
                      ELSE NextPart(w)
                   /\ client' = [client EXCEPT ![c].got = @ + Piece(left)]
                \/ (client[c].gone \/ client[c].err) /\ NextPart(w) /\ UNCHANGED client
                \/ Short(c) /\ NextPart(w)
                \/ ShortFile(c, w) /\ NextPart(w)
    /\ UNCHANGED www_request_queue

service_request(w) == ReadsRequest(w) \/ send_all(w)

Pool(w) == www_client_thread(w) \/ WaitTimesOut(w) \/ service_request(w)

WwwNext ==
    \/ \E c \in Clients : www_main(c) \/ ClientSends(c) \/ ClientLeaves(c)
    \/ \E w \in Workers : Pool(w)

-----------------------------------------------------------------------------
Whole(c) == FoldLeft(LAMBDA sum, n : sum + n, 0, LENGTHS[client[c].kind])

(* A client that stays on the line gets the whole answer before its connection  *)
(* is closed, however its request is cut into segments and however often the    *)
(* buffer grows (or_www.c:193-237, 459-475), unless the server ran short: of     *)
(* sockets (sockets.c:140-144), of netbufs or messages in recv and send          *)
(* (api_lib.c:475-478, 497-499, 575-577), or of bytes of the file                *)
(* (or_www.c:448-451).                                                         *)
RepliesAreWhole ==
    \A c \in Clients :
        client[c].state = "closed" /\ ~client[c].gone /\ ~client[c].short =>
            client[c].got = Whole(c)

(* Accepted, and neither closed nor lost to a failed allocation                 *)
(* (or_www.c:211-215, api_lib.c:257-259).                                      *)
Open(c) == client[c].state = "open"
=============================================================================
