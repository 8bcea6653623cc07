---------------------------- MODULE Projections ----------------------------
(***************************************************************************)
(* The projections of crates/sutegi-events (src/projection.rs) over the    *)
(* log that EventLog promises and EventStore implements.                   *)
(*                                                                         *)
(* A worker is one background thread of one pod for one projection.  A     *)
(* tick is one transaction; each statement of it, and each call of the     *)
(* handler, is a step.  What the handler writes is the sequence of events  *)
(* it was given, which becomes part of the read model at the COMMIT.  On   *)
(* SQLite the row lock is the write lock of the file, which serialises no  *)
(* less.                                                                   *)
(***************************************************************************)
EXTENDS Integers, Sequences, FiniteSets

CONSTANTS
  Pods,
  Names,        \* the registered projections
  Batch,        \* Projections.batch
  Calls, Requests, Matches(_, _),   \* of EventLog
  MaxFaults,    \* bound: failures, panics, crashes and stops
  MayPanic,     \* whether a handler may panic
  Rebuilds,     \* "none", "offline" (workers stopped) or "live"
  NONE

ASSUME ProjectionConstants ==
  /\ Batch \in Nat \ {0} /\ MaxFaults \in Nat
  /\ MayPanic \in BOOLEAN /\ Rebuilds \in {"none", "offline", "live"}
  /\ NONE \notin Pods \X Names /\ NONE \notin Nat
  /\ \A q \in Requests : q.n \in Nat

VARIABLES
  events, requests, answer,   \* of EventLog
  position,     \* the checkpoint of each projection; NONE: no row yet
  model,        \* its read model: the events applied, in order
  lock,         \* the transaction that holds its checkpoint row
  wpc,          \* control point of each worker
  from,         \* the position a tick has read
  batch,        \* the events it has read
  handled,      \* how many of them the handler has seen
  stop,         \* ProjectionWorkers.stop of each pod
  rebuilding,   \* read models cleared and not yet reset
  faults        \* faults so far

Log == INSTANCE EventLog

logVars == <<events, requests, answer>>
tickVars == <<from, batch, handled>>
rowVars == <<position, model>>
vars == <<logVars, rowVars, lock, wpc, tickVars, stop, rebuilding, faults>>

Workers == Pods \X Names
InTx == {"position", "events", "handle"}

Goes(w, pc) == wpc' = [wpc EXCEPT ![w] = pc]

\* The transaction of w ends: its lock goes, its locals are dropped.
EndTx(w, pc) ==
  /\ lock' = [lock EXCEPT ![w[2]] = NONE]
  /\ Goes(w, pc)
  /\ from' = [from EXCEPT ![w] = 0]
  /\ batch' = [batch EXCEPT ![w] = <<>>]
  /\ handled' = [handled EXCEPT ![w] = 0]

Fault == faults < MaxFaults /\ faults' = faults + 1

(***************************************************************************)
(* The worker's loop and its tick.                                         *)
(***************************************************************************)

\* while !stop.
CheckStop(w) ==
  /\ wpc[w] = "loop"
  /\ Goes(w, IF stop[w[1]] THEN "exited" ELSE "claim")
  /\ UNCHANGED <<logVars, rowVars, lock, tickVars, stop, rebuilding, faults>>

\* Mutant of Claim: a SELECT, which locks nothing.
Claim_Unlocked(w) ==
  /\ wpc[w] = "claim" /\ position[w[2]] # NONE
  /\ Goes(w, "position")
  /\ UNCHANGED <<logVars, rowVars, lock, tickVars, stop, rebuilding, faults>>

\* UPDATE ... SET locked_at: waits for the row lock and takes it.
Claim(w) ==
  /\ wpc[w] = "claim" /\ position[w[2]] # NONE
  /\ lock[w[2]] = NONE
  /\ lock' = [lock EXCEPT ![w[2]] = w]
  /\ Goes(w, "position")
  /\ UNCHANGED <<logVars, rowVars, tickVars, stop, rebuilding, faults>>

\* No row is claimed: the tick fails until somebody migrates.
ClaimNothing(w) ==
  /\ wpc[w] = "claim" /\ position[w[2]] = NONE
  /\ Goes(w, "waiting")
  /\ UNCHANGED <<logVars, rowVars, lock, tickVars, stop, rebuilding, faults>>

ReadPosition(w) ==
  /\ wpc[w] = "position"
  /\ from' = [from EXCEPT ![w] = position[w[2]]]
  /\ Goes(w, "events")
  /\ UNCHANGED <<logVars, rowVars, lock, batch, handled, stop, rebuilding, faults>>

\* SELECT ... WHERE position > ? ORDER BY position LIMIT ?.
ReadEvents(w) ==
  LET last == IF from[w] + Batch < Len(events) THEN from[w] + Batch ELSE Len(events)
  IN /\ wpc[w] = "events"
     /\ batch' = [batch EXCEPT ![w] = SubSeq(events, from[w] + 1, last)]
     /\ Goes(w, "handle")
     /\ UNCHANGED <<logVars, rowVars, lock, from, handled, stop, rebuilding, faults>>

Handle(w) ==
  /\ wpc[w] = "handle" /\ handled[w] < Len(batch[w])
  /\ handled' = [handled EXCEPT ![w] = @ + 1]
  /\ UNCHANGED <<logVars, rowVars, lock, wpc, from, batch, stop, rebuilding, faults>>

\* The last UPDATE and the COMMIT: checkpoint and read model move together.
Committed(w) ==
  LET n == w[2]
  IN /\ wpc[w] = "handle" /\ handled[w] = Len(batch[w])
     /\ model' = [model EXCEPT ![n] = @ \o batch[w]]
     /\ position' = IF batch[w] = <<>> THEN position
                    ELSE [position EXCEPT ![n] = from[w] + Len(batch[w])]

\* Ok(0) waits for a poll or a wake-up, Ok(_) goes on draining.
Commit(w) ==
  /\ Committed(w)
  /\ EndTx(w, IF batch[w] = <<>> THEN "waiting" ELSE "loop")
  /\ UNCHANGED <<logVars, stop, rebuilding, faults>>

\* The COMMIT takes effect and its answer is lost: an error to the worker.
CommitUnheard(w) ==
  /\ Committed(w) /\ Fault
  /\ EndTx(w, "waiting")
  /\ UNCHANGED <<logVars, stop, rebuilding>>

\* The handler returns an error, or a statement fails: ROLLBACK.
Rollback(w) ==
  /\ wpc[w] \in InTx /\ Fault
  /\ EndTx(w, "waiting")
  /\ UNCHANGED <<logVars, rowVars, stop, rebuilding>>

\* Nothing catches a panic of the handler: the connection is dropped, which
\* rolls back, and the thread is gone.
Panic(w) ==
  /\ MayPanic /\ wpc[w] = "handle" /\ handled[w] < Len(batch[w]) /\ Fault
  /\ EndTx(w, "exited")
  /\ UNCHANGED <<logVars, rowVars, stop, rebuilding>>

\* wait_timeout runs out.
PollTimeout(w) ==
  /\ wpc[w] = "waiting" /\ Goes(w, "loop")
  /\ UNCHANGED <<logVars, rowVars, lock, tickVars, stop, rebuilding, faults>>

(***************************************************************************)
(* The pod and its operator.                                               *)
(***************************************************************************)

\* wake: notify_all reaches the workers that wait at this moment.
Wake(pod) ==
  /\ \E n \in Names : wpc[<<pod, n>>] = "waiting"
  /\ wpc' = [w \in Workers |->
               IF w[1] = pod /\ wpc[w] = "waiting" THEN "loop" ELSE wpc[w]]
  /\ UNCHANGED <<logVars, rowVars, lock, tickVars, stop, rebuilding, faults>>

\* INSERT ... ON CONFLICT DO NOTHING.
Migrate(n) ==
  /\ position[n] = NONE
  /\ position' = [position EXCEPT ![n] = 0]
  /\ UNCHANGED <<logVars, model, lock, wpc, tickVars, stop, rebuilding, faults>>

\* The pod boots and starts its workers, migrated or not.
Start(pod) ==
  /\ \A n \in Names : wpc[<<pod, n>>] = "down" /\ (rebuilding[n] => Rebuilds = "live")
  /\ wpc' = [w \in Workers |-> IF w[1] = pod THEN "loop" ELSE wpc[w]]
  /\ UNCHANGED <<logVars, rowVars, lock, tickVars, stop, rebuilding, faults>>

\* The handle is dropped or stopped: the flag, then the joins.
Stop(pod) ==
  /\ ~stop[pod] /\ Fault
  /\ \E n \in Names : wpc[<<pod, n>>] # "down"
  /\ stop' = [stop EXCEPT ![pod] = TRUE]
  /\ UNCHANGED <<logVars, rowVars, lock, wpc, tickVars, rebuilding>>

\* The process ends, by itself or after its joins; transactions roll back.
Dies(pod) ==
  /\ wpc' = [w \in Workers |-> IF w[1] = pod THEN "down" ELSE wpc[w]]
  /\ lock' = [n \in Names |-> IF lock[n] = <<pod, n>> THEN NONE ELSE lock[n]]
  /\ from' = [w \in Workers |-> IF w[1] = pod THEN 0 ELSE from[w]]
  /\ batch' = [w \in Workers |-> IF w[1] = pod THEN <<>> ELSE batch[w]]
  /\ handled' = [w \in Workers |-> IF w[1] = pod THEN 0 ELSE handled[w]]
  /\ stop' = [stop EXCEPT ![pod] = FALSE]
  /\ UNCHANGED <<logVars, rowVars, rebuilding>>

Crash(pod) == Fault /\ (\E n \in Names : wpc[<<pod, n>>] # "down") /\ Dies(pod)

Joined(pod) ==
  /\ stop[pod] /\ \A n \in Names : wpc[<<pod, n>>] = "exited"
  /\ Dies(pod) /\ UNCHANGED faults

\* The operator clears a read model, as the comment on reset asks for.
Clear(n) ==
  /\ Rebuilds # "none" /\ position[n] # NONE /\ ~rebuilding[n]
  /\ Rebuilds = "offline" => \A w \in Workers : wpc[w] = "down"
  /\ Fault
  /\ model' = [model EXCEPT ![n] = <<>>]
  /\ rebuilding' = [rebuilding EXCEPT ![n] = TRUE]
  /\ UNCHANGED <<logVars, position, lock, wpc, tickVars, stop>>

\* reset: one UPDATE of the row, which waits for its lock.
Reset(n) ==
  /\ rebuilding[n] /\ lock[n] = NONE
  /\ position' = [position EXCEPT ![n] = 0]
  /\ rebuilding' = [rebuilding EXCEPT ![n] = FALSE]
  /\ UNCHANGED <<logVars, model, lock, wpc, tickVars, stop, faults>>

(***************************************************************************)
(* The specification.                                                      *)
(***************************************************************************)

Init ==
  /\ Log!Init
  /\ position = [n \in Names |-> NONE]
  /\ model = [n \in Names |-> <<>>]
  /\ lock = [n \in Names |-> NONE]
  /\ wpc = [w \in Workers |-> "down"]
  /\ from = [w \in Workers |-> 0]
  /\ batch = [w \in Workers |-> <<>>]
  /\ handled = [w \in Workers |-> 0]
  /\ stop = [pod \in Pods |-> FALSE]
  /\ rebuilding = [n \in Names |-> FALSE]
  /\ faults = 0

\* An append of some client.
LogStep ==
  /\ Log!Next
  /\ UNCHANGED <<rowVars, lock, wpc, tickVars, stop, rebuilding, faults>>

Tick(w) ==
  \/ CheckStop(w) \/ Claim(w) \/ ClaimNothing(w) \/ ReadPosition(w)
  \/ ReadEvents(w) \/ Handle(w) \/ Commit(w)

WorkerStep(w) ==
  \/ Tick(w) \/ CommitUnheard(w) \/ Rollback(w) \/ Panic(w) \/ PollTimeout(w)

PodStep(pod) == Wake(pod) \/ Start(pod) \/ Stop(pod) \/ Crash(pod) \/ Joined(pod)

Next ==
  \/ LogStep
  \/ \E w \in Workers : WorkerStep(w)
  \/ \E pod \in Pods : PodStep(pod)
  \/ \E n \in Names : Migrate(n) \/ Clear(n) \/ Reset(n)

Spec == Init /\ [][Next]_vars

\* Threads run, the timeout comes, pods are booted and migrated, a process
\* ends once its workers have; and PostgreSQL grants a row lock in the order
\* of the requests, so whoever waits for it gets it.
FairSpec ==
  /\ Spec
  /\ \A w \in Workers : WF_vars(Tick(w)) /\ WF_vars(PollTimeout(w)) /\ SF_vars(Claim(w))
  /\ \A pod \in Pods : WF_vars(Start(pod)) /\ WF_vars(Joined(pod))
  /\ \A n \in Names : WF_vars(Migrate(n)) /\ WF_vars(Reset(n))

(***************************************************************************)
(* Properties.                                                             *)
(***************************************************************************)

\* Every variable has its type, and a tick reads at most a batch.
TypeOK ==
  /\ position \in [Names -> Nat \cup {NONE}]
  /\ lock \in [Names -> Workers \cup {NONE}]
  /\ wpc \in [Workers -> {"down", "loop", "claim", "waiting", "exited"} \cup InTx]
  /\ from \in [Workers -> Nat] /\ handled \in [Workers -> Nat]
  /\ \A w \in Workers : Len(batch[w]) <= Batch /\ handled[w] <= Len(batch[w])
  /\ stop \in [Pods -> BOOLEAN] /\ rebuilding \in [Names -> BOOLEAN]
  /\ faults \in 0..MaxFaults

\* "Exactly-once per projection": the read model is what the first events of
\* the log amount to, each applied once and in order, up to the checkpoint,
\* whatever pods overlap, crash or lose an answer.
ExactlyOnce ==
  \A n \in Names : ~rebuilding[n] =>
    model[n] = IF position[n] = NONE THEN <<>> ELSE SubSeq(events, 1, position[n])

\* Every event of the log is applied in the end, although a wake-up that
\* comes while a worker is busy is lost; only a projection that has panicked
\* on every pod, whose threads nothing restarts, is left behind.
CatchesUp ==
  \A n \in Names, c \in Calls :
    (answer[c] # NONE /\ \E i \in 1..Len(events) : events[i].call = c)
      ~> \/ \E i \in 1..Len(model[n]) : model[n][i].call = c
         \/ \A pod \in Pods : wpc[<<pod, n>>] = "exited" /\ ~stop[pod]

\* stop ends every worker of the pod, in a batch, waiting for a row or asleep.
StopEnds == \A pod \in Pods : stop[pod] ~> \A n \in Names : wpc[<<pod, n>>] = "down"

=============================================================================
