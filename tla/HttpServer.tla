----------------------------- MODULE HttpServer -----------------------------
(***************************************************************************)
(* The blocking HTTP server (sutegi-http/src/lib.rs): serve_until's accept *)
(* loop, the bounded job queue and its worker threads, the keep-alive loop *)
(* of handle_connection, and the drain on shutdown.  A request is one of   *)
(* the kinds handle_connection tells apart; its parsing is HttpRequest.    *)
(***************************************************************************)
EXTENDS Integers, Sequences, FiniteSets, SequencesExt

CONSTANTS
    Clients,
    Workers,
    MaxPending,     \* Limits::max_pending
    KeepAliveMax,   \* Limits::keep_alive_max
    Kinds,          \* kinds of request the clients send
    MaxRequests     \* bound: requests per client

VARIABLES
    backlog,    \* clients in the kernel's listen queue
    acceptor,   \* where serve_until is: poll, handing, joining, returned
    handing,    \* the accepted connection execute() is blocked on
    shutdown,   \* the shutdown flag
    queue,      \* the ThreadPool's channel
    lock,       \* the worker that holds the receiver mutex, or Nobody
    worker,     \* worker -> [pc, conn, served]
    conn,       \* client -> "idle", "waiting", "accepted", "closed", "detached"
    sent,       \* client -> requests sent
    replies,    \* client -> answers written
    gone        \* clients that hung up

vars == <<backlog, acceptor, handing, shutdown, queue, lock, worker, conn, sent,
          replies, gone>>
accVars == <<backlog, acceptor, handing, shutdown>>

Nobody == "nobody"
Free == [pc |-> "lock", conn |-> Nobody, served |-> 0]

Init ==
    /\ backlog = <<>> /\ acceptor = "poll" /\ handing = Nobody /\ shutdown = FALSE
    /\ queue = <<>> /\ lock = Nobody
    /\ worker = [w \in Workers |-> Free]
    /\ conn = [c \in Clients |-> "idle"]
    /\ sent = [c \in Clients |-> <<>>]
    /\ replies = [c \in Clients |-> <<>>]
    /\ gone = {}

-----------------------------------------------------------------------------
(* Clients, and whoever raises the shutdown flag.                          *)

Connect(c) ==
    /\ conn[c] = "idle"
    /\ conn' = [conn EXCEPT ![c] = "waiting"]
    /\ backlog' = Append(backlog, c)
    /\ UNCHANGED <<acceptor, handing, shutdown, queue, lock, worker, sent, replies, gone>>

SendRequest(c, k) ==
    /\ conn[c] \in {"waiting", "accepted"} /\ c \notin gone
    /\ Len(sent[c]) < MaxRequests
    /\ sent' = [sent EXCEPT ![c] = Append(@, k)]
    /\ UNCHANGED <<accVars, queue, lock, worker, conn, replies, gone>>

HangUp(c) ==
    /\ conn[c] \in {"waiting", "accepted"} /\ c \notin gone
    /\ gone' = gone \cup {c}
    /\ UNCHANGED <<accVars, queue, lock, worker, conn, sent, replies>>

Shutdown ==
    /\ ~shutdown
    /\ shutdown' = TRUE
    /\ UNCHANGED <<backlog, acceptor, handing, queue, lock, worker, conn, sent, replies, gone>>

-----------------------------------------------------------------------------
(* serve_until and the pool.                                               *)

\* The flag is read, then the listener; a shutdown raised in between still
\* takes this connection.
Check ==
    /\ acceptor = "poll"
    /\ acceptor' = IF shutdown THEN "joining" ELSE "accept"
    /\ UNCHANGED <<backlog, handing, shutdown, queue, lock, worker, conn, sent, replies, gone>>

Accept ==
    /\ acceptor = "accept"
    /\ IF backlog = <<>>
       THEN /\ acceptor' = "poll"
            /\ UNCHANGED <<backlog, handing, conn>>
       ELSE /\ acceptor' = "handing"
            /\ handing' = Head(backlog)
            /\ backlog' = Tail(backlog)
            /\ conn' = [conn EXCEPT ![Head(backlog)] = "accepted"]
    /\ UNCHANGED <<shutdown, queue, lock, worker, sent, replies, gone>>

Execute ==
    /\ acceptor = "handing" /\ Len(queue) < MaxPending
    /\ queue' = Append(queue, handing)
    /\ handing' = Nobody
    /\ acceptor' = "poll"
    /\ UNCHANGED <<backlog, shutdown, lock, worker, conn, sent, replies, gone>>

Joined ==
    /\ acceptor = "joining" /\ \A w \in Workers : worker[w].pc = "exited"
    /\ acceptor' = "returned"
    /\ UNCHANGED <<backlog, handing, shutdown, queue, lock, worker, conn, sent, replies, gone>>

LockReceiver(w) ==
    /\ worker[w].pc = "lock" /\ lock = Nobody
    /\ lock' = w
    /\ worker' = [worker EXCEPT ![w].pc = "recv"]
    /\ UNCHANGED <<accVars, queue, conn, sent, replies, gone>>

\* Mutant: a worker that sees the flag leaves what is still queued.
Disconnected_Early(w) ==
    /\ worker[w].pc = "recv" /\ acceptor \in {"joining", "returned"}
    /\ lock' = Nobody
    /\ worker' = [worker EXCEPT ![w].pc = "exited"]
    /\ UNCHANGED <<accVars, queue, conn, sent, replies, gone>>

\* recv under the mutex; the channel is closed once the sender is dropped, and
\* still yields what was queued before.
Recv(w) ==
    /\ worker[w].pc = "recv" /\ queue # <<>>
    /\ queue' = Tail(queue)
    /\ lock' = Nobody
    /\ worker' = [worker EXCEPT ![w] = [pc |-> "serve", conn |-> Head(queue), served |-> 0]]
    /\ UNCHANGED <<accVars, conn, sent, replies, gone>>

Disconnected(w) ==
    /\ worker[w].pc = "recv" /\ queue = <<>> /\ acceptor \in {"joining", "returned"}
    /\ lock' = Nobody
    /\ worker' = [worker EXCEPT ![w].pc = "exited"]
    /\ UNCHANGED <<accVars, queue, conn, sent, replies, gone>>

-----------------------------------------------------------------------------
(* handle_connection, one request per step.                                *)

Answer(k) == CASE k = "panic" -> 500 [] k = "refused" -> 400 [] k = "upgrade" -> 101
               [] OTHER -> 200

\* Whether the connection stays open after the answer.
Persist(k, served) ==
    /\ k \in {"keep", "panic"}
    /\ served + 1 < KeepAliveMax

Pending(c) == Len(sent[c]) > Len(replies[c])
NextRequest(c) == sent[c][Len(replies[c]) + 1]

End(w, c, how) ==
    /\ worker' = [worker EXCEPT ![w] = Free]
    /\ conn' = [conn EXCEPT ![c] = how]

Serve(w) ==
    /\ worker[w].pc = "serve"
    /\ LET c == worker[w].conn IN
       /\ Pending(c)
       /\ LET k == NextRequest(c) IN
          /\ replies' = IF c \in gone THEN replies
                        ELSE [replies EXCEPT ![c] = Append(@, Answer(k))]
          /\ IF c \notin gone /\ Persist(k, worker[w].served)
             THEN worker' = [worker EXCEPT ![w].served = @ + 1] /\ UNCHANGED conn
             ELSE End(w, c, IF k = "upgrade" /\ c \notin gone THEN "detached" ELSE "closed")
    /\ UNCHANGED <<accVars, queue, lock, sent, gone>>

\* Nothing to read: end of file, or the read timeout.  Time passes, so this is
\* as certain as any step of the worker.
IdleOut(w) ==
    /\ worker[w].pc = "serve" /\ ~Pending(worker[w].conn)
    /\ End(w, worker[w].conn, "closed")
    /\ UNCHANGED <<accVars, queue, lock, sent, replies, gone>>

WorkerStep(w) ==
    LockReceiver(w) \/ Recv(w) \/ Disconnected(w) \/ Serve(w) \/ IdleOut(w)

AcceptorStep == Check \/ Accept \/ Execute \/ Joined

Next ==
    \/ AcceptorStep \/ Shutdown
    \/ \E w \in Workers : WorkerStep(w)
    \/ \E c \in Clients : Connect(c) \/ HangUp(c) \/ \E k \in Kinds : SendRequest(c, k)

\* The accept thread and the workers keep running; a worker's turn at the
\* receiver mutex comes again and again, so it gets it.
Fairness ==
    /\ WF_vars(AcceptorStep)
    /\ \A w \in Workers :
        /\ WF_vars(Recv(w) \/ Disconnected(w) \/ Serve(w) \/ IdleOut(w))
        /\ SF_vars(LockReceiver(w))

Spec == Init /\ [][Next]_vars /\ Fairness

-----------------------------------------------------------------------------
(* Properties.                                                             *)

Serving(c) == {w \in Workers : worker[w].conn = c}

\* Every accepted connection is in exactly one place: with the acceptor, in the
\* queue, or with one worker, and one that is with none of them has ended.
OneOwner ==
    \A c \in Clients :
        LET places == Cardinality(Serving(c)) + (IF handing = c THEN 1 ELSE 0)
                      + Cardinality({i \in DOMAIN queue : queue[i] = c})
        IN  places = IF conn[c] = "accepted" THEN 1 ELSE 0

\* A panicking handler, or any other end of a connection, leaves the pool as
\* large as it was: workers exit only when the pool is dropped.
WorkersStay ==
    (\E w \in Workers : worker[w].pc = "exited") => acceptor \in {"joining", "returned"}

\* Answers on a kept-alive connection come in request order, one each; nothing
\* is read past a request that closes the connection (its rest might be taken
\* for the next request), nor past keep_alive_max.
RepliesInOrder ==
    \A c \in Clients :
        /\ Len(replies[c]) <= KeepAliveMax
        /\ \A i \in DOMAIN replies[c] :
              /\ replies[c][i] = Answer(sent[c][i])
              /\ i < Len(replies[c]) => sent[c][i] \notin {"close", "refused", "upgrade"}

\* "Drains in-flight requests and returns": when serve_until returns, every
\* connection it accepted has been served to its end.
DrainServesAccepted ==
    acceptor = "returned" =>
        /\ \A c \in Clients : conn[c] # "accepted"
        /\ queue = <<>> /\ handing = Nobody

\* The drain ends: no kept-alive client, full queue or busy worker can hold
\* the join for ever.
DrainEnds == shutdown ~> acceptor = "returned"
=============================================================================
