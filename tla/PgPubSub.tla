------------------------------ MODULE PgPubSub ------------------------------
(***************************************************************************)
(* The PostgreSQL broker of crates/sutegi-pubsub (src/pg.rs) with the      *)
(* LISTEN connection of crates/sutegi-pg (src/listen.rs): publish delivers *)
(* on its own pod and then sends a NOTIFY over a connection that all       *)
(* threads of the pod share; a listener thread per pod hands what arrives  *)
(* to the pod's subscribers.  Every pod has one subscriber, of one topic.  *)
(* The server keeps a queue for each listening session, nothing for others.*)
(***************************************************************************)
EXTENDS Naturals, Sequences, FiniteSets

CONSTANTS
  Pods,
  Threads,     \* publishing threads
  PodOf,       \* the pod of each
  MaxMsgs,     \* bound: messages of a thread
  MaxFaults,   \* bound: failed or ambiguous calls and lost connections
  NONE

PubSubConstants == PodOf \in [Threads -> Pods] /\ NONE \notin Threads

VARIABLES
  heard,       \* per pod what its subscriber was called with, in order
  publisher,   \* per pod the publisher connection: "none" or "open"
  mutex,       \* per pod the thread that holds it
  pc, attempt, \* of each publishing thread
  sent,        \* messages each thread has published
  again,       \* messages whose NOTIFY was sent again after an unclear failure
  listener,    \* per pod: "up", "lost" (recv has failed), "listening" (LISTEN is
               \* sent and not answered yet), "gone" (the thread has ended)
  queue,       \* per pod the notifications of its session
  buffered,    \* per pod those that were read while waiting for an answer
  handles,     \* pods where somebody still holds a PgPubSub
  shutdown,    \* the flag set by Inner's destructor
  faults

vars == <<heard, publisher, mutex, pc, attempt, sent, again, listener, queue, buffered, handles, shutdown, faults>>
life == <<handles, shutdown>>

Msg(t) == [thread |-> t, n |-> sent[t]]
Fault == faults < MaxFaults /\ faults' = faults + 1
Goes(t, p) == pc' = [pc EXCEPT ![t] = p]

\* connect_on: the listener is up before anything else.
Init ==
  /\ heard = [p \in Pods |-> <<>>] /\ publisher = [p \in Pods |-> "none"]
  /\ mutex = [p \in Pods |-> NONE]
  /\ pc = [t \in Threads |-> "idle"] /\ attempt = [t \in Threads |-> 0]
  /\ sent = [t \in Threads |-> 0] /\ again = {}
  /\ listener = [p \in Pods |-> "up"] /\ queue = [p \in Pods |-> <<>>]
  /\ buffered = [p \in Pods |-> <<>>]
  /\ handles = Pods /\ shutdown = [p \in Pods |-> FALSE] /\ faults = 0

(***************************************************************************)
(* publish.                                                                *)
(***************************************************************************)
\* Local subscribers are called before the NOTIFY; a message whose envelope is
\* over the cap goes no further.
Publish(t) ==
  LET m == [thread |-> t, n |-> sent[t] + 1] IN
  /\ pc[t] = "idle" /\ PodOf[t] \in handles /\ sent[t] < MaxMsgs
  /\ sent' = [sent EXCEPT ![t] = @ + 1]
  /\ heard' = [heard EXCEPT ![PodOf[t]] = Append(@, m)]
  /\ \E fits \in BOOLEAN : Goes(t, IF fits THEN "lock" ELSE "idle")
  /\ UNCHANGED <<publisher, mutex, attempt, again, listener, queue, buffered, life, faults>>

Lock(t) ==
  /\ pc[t] = "lock" /\ mutex[PodOf[t]] = NONE
  /\ mutex' = [mutex EXCEPT ![PodOf[t]] = t]
  /\ attempt' = [attempt EXCEPT ![t] = 0]
  /\ Goes(t, "notify")
  /\ UNCHANGED <<heard, publisher, sent, again, listener, queue, buffered, life, faults>>

Unlock(t) == mutex' = [mutex EXCEPT ![PodOf[t]] = NONE] /\ Goes(t, "idle")

Connect(t) ==
  /\ pc[t] = "notify" /\ publisher[PodOf[t]] = "none"
  /\ publisher' = [publisher EXCEPT ![PodOf[t]] = "open"]
  /\ UNCHANGED <<heard, mutex, pc, attempt, sent, again, listener, queue, buffered, life, faults>>

\* The connect fails and its error is returned at once.
ConnectFails(t) ==
  /\ pc[t] = "notify" /\ publisher[PodOf[t]] = "none" /\ Fault
  /\ Unlock(t)
  /\ UNCHANGED <<heard, publisher, attempt, sent, again, listener, queue, buffered, life>>

\* The server appends to the queue of every session that listens, the sender's
\* pod included.
Notified(m) == [p \in Pods |-> IF listener[p] \in {"up", "listening"} THEN Append(queue[p], m) ELSE queue[p]]

NotifyOk(t) ==
  /\ pc[t] = "notify" /\ publisher[PodOf[t]] = "open"
  /\ queue' = Notified(Msg(t))
  /\ Unlock(t)
  /\ UNCHANGED <<heard, publisher, attempt, sent, again, listener, buffered, life, faults>>

\* The execute fails, with the NOTIFY done or not: the connection is dropped,
\* and the first failure is tried once more.
NotifyFails(t, done) ==
  /\ pc[t] = "notify" /\ publisher[PodOf[t]] = "open" /\ Fault
  /\ queue' = IF done THEN Notified(Msg(t)) ELSE queue
  /\ publisher' = [publisher EXCEPT ![PodOf[t]] = "none"]
  /\ IF attempt[t] = 1 THEN Unlock(t) /\ UNCHANGED <<attempt, again>>
     ELSE /\ attempt' = [attempt EXCEPT ![t] = 1]
          /\ again' = IF done THEN again \cup {Msg(t)} ELSE again
          /\ UNCHANGED <<mutex, pc>>
  /\ UNCHANGED <<heard, sent, listener, buffered, life>>

(***************************************************************************)
(* listener_loop.                                                          *)
(***************************************************************************)

\* dispatch: the pod's own messages are dropped by their instance id.
Dispatched(p, m) == IF PodOf[m.thread] = p THEN heard ELSE [heard EXCEPT ![p] = Append(@, m)]

\* Listener::recv: what was buffered comes before what is still in the socket.
Recv(p) ==
  /\ listener[p] = "up"
  /\ \/ /\ buffered[p] # <<>> /\ heard' = Dispatched(p, Head(buffered[p]))
        /\ buffered' = [buffered EXCEPT ![p] = Tail(@)] /\ UNCHANGED queue
     \/ /\ buffered[p] = <<>> /\ queue[p] # <<>> /\ heard' = Dispatched(p, Head(queue[p]))
        /\ queue' = [queue EXCEPT ![p] = Tail(@)] /\ UNCHANGED buffered
  /\ UNCHANGED <<publisher, mutex, pc, attempt, sent, again, listener, life, faults>>

\* The session ends, and the queue with it; what is buffered is still handed out
\* by the recv that has not seen the error yet, or lost with the Listener.
ListenerLost(p) ==
  /\ listener[p] \in {"up", "listening"} /\ Fault
  /\ listener' = [listener EXCEPT ![p] = "lost"]
  /\ queue' = [queue EXCEPT ![p] = <<>>]
  /\ buffered' = [buffered EXCEPT ![p] = <<>>]
  /\ UNCHANGED <<heard, publisher, mutex, pc, attempt, sent, again, life>>

\* Sleep, connect and send LISTEN; a failed try only lengthens the next sleep.
Reconnect(p) ==
  /\ listener[p] = "lost" /\ ~shutdown[p]
  /\ listener' = [listener EXCEPT ![p] = "listening"]
  /\ UNCHANGED <<heard, publisher, mutex, pc, attempt, sent, again, queue, buffered, life, faults>>

\* simple_command reads up to the answer and keeps the notifications before it.
Listened(p) ==
  /\ listener[p] = "listening"
  /\ listener' = [listener EXCEPT ![p] = "up"]
  /\ buffered' = [buffered EXCEPT ![p] = @ \o queue[p]]
  /\ queue' = [queue EXCEPT ![p] = <<>>]
  /\ UNCHANGED <<heard, publisher, mutex, pc, attempt, sent, again, life, faults>>

(***************************************************************************)
(* The end of a broker: Inner is shared by the handles and by the listener *)
(* thread itself, and its destructor runs when the last of them lets go.   *)
(* The listener's own clone keeps it from running while the thread lives,  *)
(* so neither of the last two steps ever happens.                          *)
(***************************************************************************)
DropHandle(p) ==
  /\ p \in handles /\ \A t \in Threads : PodOf[t] = p => pc[t] = "idle"
  /\ handles' = handles \ {p}
  /\ UNCHANGED <<heard, publisher, mutex, pc, attempt, sent, again, listener, queue, buffered, shutdown, faults>>

InnerDrop(p) ==
  /\ p \notin handles /\ listener[p] = "gone" /\ ~shutdown[p]
  /\ shutdown' = [shutdown EXCEPT ![p] = TRUE]
  /\ UNCHANGED <<heard, publisher, mutex, pc, attempt, sent, again, listener, queue, buffered, handles, faults>>

ListenerExit(p) ==
  /\ listener[p] # "gone" /\ shutdown[p]
  /\ listener' = [listener EXCEPT ![p] = "gone"]
  /\ UNCHANGED <<heard, publisher, mutex, pc, attempt, sent, again, queue, buffered, life, faults>>

Next ==
  \/ \E t \in Threads : \/ Publish(t) \/ Lock(t) \/ Connect(t) \/ ConnectFails(t) \/ NotifyOk(t)
                        \/ \E done \in BOOLEAN : NotifyFails(t, done)
  \/ \E p \in Pods : \/ Recv(p) \/ ListenerLost(p) \/ Reconnect(p) \/ Listened(p)
                     \/ DropHandle(p) \/ InnerDrop(p) \/ ListenerExit(p)

\* A publish that has begun goes on, the listener thread runs and the database
\* comes back.
Fairness ==
  /\ \A t \in Threads : WF_vars(Lock(t)) /\ WF_vars(Connect(t)) /\ WF_vars(NotifyOk(t))
  /\ \A p \in Pods : WF_vars(Recv(p)) /\ WF_vars(Reconnect(p)) /\ WF_vars(Listened(p))

Spec == Init /\ [][Next]_vars /\ Fairness

(***************************************************************************)
(* Properties.                                                             *)
(***************************************************************************)
Times(p, m) == Cardinality({i \in DOMAIN heard[p] : heard[p][i] = m})

\* A subscriber gets a message once, its own pod's at once and without the
\* echo, those of other pods at most once, unless the publisher's one retry
\* repeated a NOTIFY that had gone out (try_publish, notify, dispatch).
OnlyRetriesRepeat ==
  \A t \in Threads : \A n \in 1..sent[t] : \A p \in Pods :
    LET m == [thread |-> t, n |-> n] IN
      /\ PodOf[t] = p => Times(p, m) = 1
      /\ Times(p, m) > 1 => m \in again

\* The messages of one thread reach every subscriber in the order in which it
\* published them, with gaps but never backwards, whatever is retried and
\* whoever reconnects (notify under its mutex).
InOrder ==
  \A p \in Pods : \A i, j \in DOMAIN heard[p] :
    (i < j /\ heard[p][i].thread = heard[p][j].thread) => heard[p][i].n <= heard[p][j].n

\* Every publish returns: no path of notify keeps the shared connection's mutex.
PublishReturns == \A t \in Threads : (pc[t] # "idle") ~> (pc[t] = "idle")

=============================================================================
