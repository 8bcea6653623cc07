------------------------------- MODULE Queue -------------------------------
(***************************************************************************)
(* The durable job queue of crates/sutegi-queue: the sutegi_jobs table,    *)
(* the producers that dispatch into it, the worker threads that claim,     *)
(* run and settle jobs, and the operator's retry and purge.                *)
(*                                                                         *)
(* One SQL statement is one atomic step.  Between two statements of one    *)
(* call every other thread may run, and a worker may be killed.  The       *)
(* handler, the payload, the trace and the error text are abstracted to    *)
(* the handler's verdict: Ok or Err (a panic and an unregistered name are  *)
(* Err).                                                                   *)
(***************************************************************************)
EXTENDS Integers, FiniteSets

CONSTANTS
  Workers,        \* worker threads, of one pod or of several
  Producers,      \* threads that call dispatch and retry
  Local,          \* the workers a producer's notify reaches: same Queue value
  Pools,          \* Workers handles, one per call of start_on
  PoolOf,         \* the pool a worker thread belongs to
  Queues,         \* queue names
  QueueOf,        \* the queue a pool drains: start_on(queue, ..)
  Keys,           \* dedupe keys
  Requests,       \* the dispatches a producer may make
  NULL,           \* SQL NULL
  VisTimeout,     \* Queue.visibility_timeout
  Backoff,        \* Queue.retry_backoff
  MaxSkew,        \* how far a reading of now_ms() may be from the real time
                  \* at which the statement that carries it executes
  Ages,           \* arguments of purge_failed
  Budgets,        \* max_attempts arguments of retry
  MaxJobs,        \* bound: rows ever inserted
  MaxTime,        \* bound: last instant of the model's real time
  MaxFaults       \* bound: worker crashes and store errors

ASSUME QueueConstants ==
  /\ Local \in [Producers -> SUBSET Workers]
  /\ PoolOf \in [Workers -> Pools] /\ QueueOf \in [Pools -> Queues]
  /\ Requests \subseteq [queue : Queues, priority : Int, max_attempts : Nat,
                         delay : Nat, unique_key : Keys \cup {NULL}]
  /\ NULL \notin Int /\ NULL \notin Keys
  /\ VisTimeout \in Nat /\ Backoff \in Nat /\ MaxSkew \in Nat
  /\ 2 * MaxSkew <= VisTimeout
  /\ Ages \subseteq Nat /\ Budgets \subseteq Nat
  /\ MaxJobs \in Nat /\ MaxTime \in Nat /\ MaxFaults \in Nat

VARIABLES
  now,        \* real time
  jobs,       \* the sutegi_jobs table: id -> row
  nextId,     \* the AUTOINCREMENT / IDENTITY counter
  wpc,        \* control point of each worker thread
  claimed,    \* the Claimed struct a worker holds
  since,      \* real time of a worker's last claim or heartbeat
  ppc,        \* control point of each producer
  request,    \* the Dispatch a producer is executing
  reply,      \* what the producer's last dispatch returned
  stop,       \* the pools whose Workers.stop flag is raised
  faults,     \* crashes and store errors so far
  succeeded,  \* history: jobs whose handler has returned Ok
  purged,     \* history: jobs removed by purge_failed
  revived,    \* history: jobs the operator put back with retry
  overrun     \* history: jobs some worker has held past its safe window

vars == <<now, jobs, nextId, wpc, claimed, since, ppc, request, reply, stop,
          faults, succeeded, purged, revived, overrun>>

history == <<succeeded, purged, revived, overrun>>
producing == <<ppc, request, reply>>
working == <<wpc, claimed, since>>

Ids == 1..MaxJobs

Row == [queue : Queues, priority : Int, attempts : Nat, max_attempts : Nat \ {0},
        unique_key : Keys \cup {NULL}, run_at : Int,
        locked_at : Int \cup {NULL}, failed_at : Int \cup {NULL}]

Claimed == [id : Ids \cup {0}, attempts : Nat, max_attempts : Nat]

WorkerPc == {"poll", "idle", "waiting", "running", "ok", "err", "sleep",
             "exited", "down"}

ProducerPc == {"ready", "find", "reinsert"}

Reply == {"none", "new", "existing", "duplicate", "failed"}

NoJob == [id |-> 0, attempts |-> 0, max_attempts |-> 0]

(***************************************************************************)
(* Data.                                                                   *)
(***************************************************************************)

\* The values now_ms() may have put in a statement that executes now: pods'
\* clocks differ, and a thread may be delayed between reading its clock and
\* reaching the database.
now_ms == (now - MaxSkew)..(now + MaxSkew)

\* max_attempts.max(1)
AtLeastOne(n) == IF n < 1 THEN 1 ELSE n

Live(i) == jobs[i].failed_at = NULL

\* Mutant of UniqueViolation: the index only covers rows nobody has claimed.
UniqueViolation_Unclaimed(q, k) ==
  /\ k # NULL
  /\ \E i \in DOMAIN jobs : /\ Live(i) /\ jobs[i].locked_at = NULL
                            /\ jobs[i].queue = q
                            /\ jobs[i].unique_key = k

\* Whether setting a row with this queue and key live would break the
\* partial unique index sutegi_jobs_unique_idx.
UniqueViolation(q, k) ==
  /\ k # NULL
  /\ \E i \in DOMAIN jobs : /\ Live(i)
                            /\ jobs[i].queue = q
                            /\ jobs[i].unique_key = k

\* Mutant of NewRow: a budget of zero is stored as it is.
NewRow_ZeroBudget(d, clk) ==
  [queue |-> d.queue, priority |-> d.priority, attempts |-> 0,
   max_attempts |-> d.max_attempts, unique_key |-> d.unique_key,
   run_at |-> clk + d.delay, locked_at |-> NULL, failed_at |-> NULL]

NewRow(d, clk) ==
  [queue |-> d.queue, priority |-> d.priority, attempts |-> 0,
   max_attempts |-> AtLeastOne(d.max_attempts), unique_key |-> d.unique_key,
   run_at |-> clk + d.delay, locked_at |-> NULL, failed_at |-> NULL]

\* Mutant of Claimable: a lease is up at the cutoff, not past it.
Claimable_AtCutoff(i, q, clk) ==
  /\ Live(i)
  /\ jobs[i].queue = q
  /\ jobs[i].run_at <= clk
  /\ \/ jobs[i].locked_at = NULL
     \/ jobs[i].locked_at # NULL /\ jobs[i].locked_at <= clk - VisTimeout

\* Mutant of Claimable: a crashed worker's row is never taken over.
Claimable_NoTakeover(i, q, clk) ==
  /\ Live(i)
  /\ jobs[i].queue = q
  /\ jobs[i].run_at <= clk
  /\ jobs[i].locked_at = NULL

\* The WHERE clause of the claim's subquery.
Claimable(i, q, clk) ==
  /\ Live(i)
  /\ jobs[i].queue = q
  /\ jobs[i].run_at <= clk
  /\ \/ jobs[i].locked_at = NULL
     \/ jobs[i].locked_at # NULL /\ jobs[i].locked_at < clk - VisTimeout

\* ORDER BY priority DESC, run_at, id
Before(i, j) ==
  \/ jobs[i].priority > jobs[j].priority
  \/ /\ jobs[i].priority = jobs[j].priority
     /\ \/ jobs[i].run_at < jobs[j].run_at
        \/ jobs[i].run_at = jobs[j].run_at /\ i < j

\* Workers that have claimed a job and not settled it.
Holding(w) == wpc[w] \in {"running", "ok", "err"}

\* A lease taken at real time t is beyond the reach of every clock's
\* visibility cutoff at real time `at` as long as this holds.
WithinWindow(t, at) == at - t <= VisTimeout - 2 * MaxSkew

\* A store call fails; the statement may or may not have taken effect.
Fault == faults < MaxFaults /\ faults' = faults + 1

\* What the SET clauses of the UPDATEs make of a row.
Leased(row, at) == [row EXCEPT !.locked_at = at]

Attempted(row, at) == [row EXCEPT !.locked_at = at, !.attempts = @ + 1]

Buried(row, at) == [row EXCEPT !.failed_at = at, !.locked_at = NULL]

Rescheduled(row, at) == [row EXCEPT !.locked_at = NULL, !.run_at = at]

Revived(row, n, at) ==
  [queue |-> row.queue, priority |-> row.priority, attempts |-> 0,
   max_attempts |-> AtLeastOne(n), unique_key |-> row.unique_key,
   run_at |-> at, locked_at |-> NULL, failed_at |-> NULL]

(***************************************************************************)
(* Statements on the table.  An UPDATE or DELETE of an id that is gone     *)
(* changes no row.                                                         *)
(***************************************************************************)

Insert(i, row) ==
  jobs' = [j \in DOMAIN jobs \cup {i} |-> IF j = i THEN row ELSE jobs[j]]

Delete(S) == jobs' = [j \in DOMAIN jobs \ S |-> jobs[j]]

Update(i, row) == jobs' = [j \in DOMAIN jobs |-> IF j = i THEN row ELSE jobs[j]]

\* Queue::notify: every worker of this Queue value that is blocked on the
\* condition variable wakes.
Notified(p) == [w \in Workers |-> IF w \in Local[p] /\ wpc[w] = "waiting"
                                   THEN "poll" ELSE wpc[w]]

(***************************************************************************)
(* Producers: Dispatch::dispatch, Queue::enqueue.                          *)
(***************************************************************************)

\* The first INSERT of enqueue: a new row and a wake-up, or a unique
\* violation that sends the call on to find_unique.
Dispatch(p, d) ==
  /\ ppc[p] = "ready"
  /\ \/ /\ ~UniqueViolation(d.queue, d.unique_key)
        /\ nextId <= MaxJobs
        /\ \E clk \in now_ms : Insert(nextId, NewRow(d, clk))
        /\ nextId' = nextId + 1
        /\ wpc' = Notified(p)
        /\ reply' = [reply EXCEPT ![p] = "new"]
        /\ UNCHANGED <<ppc, request>>
     \/ /\ UniqueViolation(d.queue, d.unique_key)
        /\ ppc' = [ppc EXCEPT ![p] = "find"]
        /\ request' = [request EXCEPT ![p] = d]
        /\ reply' = [reply EXCEPT ![p] = "none"]
        /\ UNCHANGED <<jobs, nextId, wpc>>
  /\ UNCHANGED <<now, claimed, since, stop, faults, history>>

\* find_unique: hand back the live row, if it is still there.
FindUnique(p) ==
  /\ ppc[p] = "find"
  /\ LET d == request[p]
         found == {i \in DOMAIN jobs : /\ Live(i)
                                       /\ jobs[i].queue = d.queue
                                       /\ jobs[i].unique_key = d.unique_key}
     IN \/ \E i \in found :
             /\ ppc' = [ppc EXCEPT ![p] = "ready"]
             /\ request' = [request EXCEPT ![p] = NULL]
             /\ reply' = [reply EXCEPT ![p] = "existing"]
        \/ /\ found = {}
           /\ ppc' = [ppc EXCEPT ![p] = "reinsert"]
           /\ UNCHANGED <<request, reply>>
  /\ UNCHANGED <<now, jobs, nextId, working, stop, faults, history>>

\* The second INSERT: its `?` returns any error, a unique violation included.
Reinsert(p) ==
  /\ ppc[p] = "reinsert"
  /\ ppc' = [ppc EXCEPT ![p] = "ready"]
  /\ request' = [request EXCEPT ![p] = NULL]
  /\ LET d == request[p]
     IN \/ /\ ~UniqueViolation(d.queue, d.unique_key)
           /\ nextId <= MaxJobs
           /\ \E clk \in now_ms : Insert(nextId, NewRow(d, clk))
           /\ nextId' = nextId + 1
           /\ wpc' = Notified(p)
           /\ reply' = [reply EXCEPT ![p] = "new"]
        \/ /\ UniqueViolation(d.queue, d.unique_key)
           /\ reply' = [reply EXCEPT ![p] = "duplicate"]
           /\ UNCHANGED <<jobs, nextId, wpc>>
  /\ UNCHANGED <<now, claimed, since, stop, faults, history>>

\* One of the call's statements fails in the store: dispatch returns Err.  An
\* INSERT may still have landed, and then no worker is notified of the row.
DispatchError(p, d) ==
  /\ Fault
  /\ \/ ppc[p] = "ready"
     \/ ppc[p] \in {"find", "reinsert"} /\ d = request[p]
  /\ ppc' = [ppc EXCEPT ![p] = "ready"]
  /\ request' = [request EXCEPT ![p] = NULL]
  /\ reply' = [reply EXCEPT ![p] = "failed"]
  /\ \/ UNCHANGED <<jobs, nextId>>
     \/ /\ ppc[p] # "find"
        /\ ~UniqueViolation(d.queue, d.unique_key)
        /\ nextId <= MaxJobs
        /\ \E clk \in now_ms : Insert(nextId, NewRow(d, clk))
        /\ nextId' = nextId + 1
  /\ UNCHANGED <<now, working, stop, history>>

(***************************************************************************)
(* Workers: start_on, run_once_on, claim, settle, wait_for_work.           *)
(***************************************************************************)

\* run_once_on returns or its process dies: the worker forgets its job.
DropJob(w) ==
  /\ claimed' = [claimed EXCEPT ![w] = NoJob]
  /\ since' = [since EXCEPT ![w] = 0]

Stopped(w) == PoolOf[w] \in stop

\* The claim's UPDATE: the best claimable row of the queue is stamped.
ClaimRow(w, i, clk) ==
  /\ i \in DOMAIN jobs
  /\ Claimable(i, QueueOf[PoolOf[w]], clk)
  /\ \A j \in DOMAIN jobs \ {i} :
       Claimable(j, QueueOf[PoolOf[w]], clk) => Before(i, j)
  /\ Update(i, Attempted(jobs[i], clk))

Claim(w) ==
  /\ wpc[w] = "poll" /\ ~Stopped(w)
  /\ \E clk \in now_ms, i \in Ids :
       /\ ClaimRow(w, i, clk)
       /\ claimed' = [claimed EXCEPT ![w] =
                        [id |-> i, attempts |-> jobs[i].attempts + 1,
                         max_attempts |-> jobs[i].max_attempts]]
  /\ since' = [since EXCEPT ![w] = now]
  /\ wpc' = [wpc EXCEPT ![w] = "running"]
  /\ UNCHANGED <<now, nextId, producing, stop, faults, history>>

\* Ok(None): nothing claimable; the thread goes on to wait_for_work.
ClaimNothing(w) ==
  /\ wpc[w] = "poll" /\ ~Stopped(w)
  /\ \E clk \in now_ms :
       \A i \in DOMAIN jobs : ~Claimable(i, QueueOf[PoolOf[w]], clk)
  /\ wpc' = [wpc EXCEPT ![w] = "idle"]
  /\ UNCHANGED <<now, jobs, nextId, claimed, since, producing, stop, faults,
                 history>>

\* The claim fails in the store, before or after the UPDATE took effect.
ClaimError(w) ==
  /\ wpc[w] = "poll" /\ ~Stopped(w)
  /\ Fault
  /\ \/ UNCHANGED jobs
     \/ \E clk \in now_ms, i \in Ids : ClaimRow(w, i, clk)
  /\ wpc' = [wpc EXCEPT ![w] = "sleep"]
  /\ UNCHANGED <<now, nextId, claimed, since, producing, stop, history>>

\* wait_for_work locks the mutex and waits without looking at the
\* generation: a notify between ClaimNothing and Wait is missed.
Wait(w) ==
  /\ wpc[w] = "idle"
  /\ wpc' = [wpc EXCEPT ![w] = "waiting"]
  /\ UNCHANGED <<now, jobs, nextId, claimed, since, producing, stop, faults,
                 history>>

\* The poll interval expires, on the condition variable or in the sleep that
\* follows a store error.
PollTimeout(w) ==
  /\ wpc[w] \in {"waiting", "sleep"}
  /\ wpc' = [wpc EXCEPT ![w] = "poll"]
  /\ UNCHANGED <<now, jobs, nextId, claimed, since, producing, stop, faults,
                 history>>

\* JobCtx::heartbeat, from inside the handler: by row id, whoever holds the
\* lease.
Heartbeat(w) ==
  /\ wpc[w] = "running"
  /\ \E clk \in now_ms : Update(claimed[w].id, Leased(jobs[claimed[w].id], clk))
  /\ since' = [since EXCEPT ![w] = now]
  /\ UNCHANGED <<now, nextId, wpc, claimed, producing, stop, faults, history>>

\* The handler returns, panics, or was never registered.
HandlerReturns(w) ==
  /\ wpc[w] = "running"
  /\ \/ /\ wpc' = [wpc EXCEPT ![w] = "ok"]
        /\ succeeded' = succeeded \cup {claimed[w].id}
     \/ /\ wpc' = [wpc EXCEPT ![w] = "err"]
        /\ succeeded' = succeeded
  /\ UNCHANGED <<now, jobs, nextId, claimed, since, producing, stop, faults,
                 purged, revived, overrun>>

\* Mutant of SettleRow: success releases the row instead of deleting it.
SettleRow_KeepsDone(w) ==
  LET c == claimed[w]
  IN \/ wpc[w] = "ok" /\ Update(c.id, Leased(jobs[c.id], NULL))
     \/ /\ wpc[w] = "err" /\ c.attempts >= c.max_attempts
        /\ \E clk \in now_ms : Update(c.id, Buried(jobs[c.id], clk))
     \/ /\ wpc[w] = "err" /\ c.attempts < c.max_attempts
        /\ \E clk \in now_ms :
             Update(c.id, Rescheduled(jobs[c.id],
                                      clk + Backoff * AtLeastOne(c.attempts)))

\* The statement settle issues for the worker's verdict.
SettleRow(w) ==
  LET c == claimed[w]
  IN \/ wpc[w] = "ok" /\ Delete({c.id})
     \/ /\ wpc[w] = "err" /\ c.attempts >= c.max_attempts
        /\ \E clk \in now_ms : Update(c.id, Buried(jobs[c.id], clk))
     \/ /\ wpc[w] = "err" /\ c.attempts < c.max_attempts
        /\ \E clk \in now_ms :
             Update(c.id, Rescheduled(jobs[c.id],
                                      clk + Backoff * AtLeastOne(c.attempts)))

Settle(w) ==
  /\ SettleRow(w)
  /\ DropJob(w)
  /\ wpc' = [wpc EXCEPT ![w] = "poll"]
  /\ UNCHANGED <<now, nextId, producing, stop, faults, history>>

\* settle fails in the store, before or after its statement took effect.
SettleError(w) ==
  /\ wpc[w] \in {"ok", "err"}
  /\ Fault
  /\ UNCHANGED jobs \/ SettleRow(w)
  /\ DropJob(w)
  /\ wpc' = [wpc EXCEPT ![w] = "sleep"]
  /\ UNCHANGED <<now, nextId, producing, stop, history>>

\* The loop head sees the stop flag.
Exit(w) ==
  /\ wpc[w] = "poll" /\ Stopped(w)
  /\ wpc' = [wpc EXCEPT ![w] = "exited"]
  /\ UNCHANGED <<now, jobs, nextId, claimed, since, producing, stop, faults,
                 history>>

\* The worker's process is killed; whatever it had claimed stays locked.
Crash(w) ==
  /\ wpc[w] \notin {"exited", "down"}
  /\ Fault
  /\ DropJob(w)
  /\ wpc' = [wpc EXCEPT ![w] = "down"]
  /\ UNCHANGED <<now, jobs, nextId, producing, stop, history>>

\* The process is started again and calls start_on.
Restart(w) ==
  /\ wpc[w] = "down" /\ ~Stopped(w)
  /\ wpc' = [wpc EXCEPT ![w] = "poll"]
  /\ UNCHANGED <<now, jobs, nextId, claimed, since, producing, stop, faults,
                 history>>

\* Workers::stop, signal_stop and drop all raise the flag; none notifies.
SignalStop(k) ==
  /\ k \notin stop
  /\ stop' = stop \cup {k}
  /\ UNCHANGED <<now, jobs, nextId, working, producing, faults, history>>

(***************************************************************************)
(* Operators: Queue::retry and Queue::purge_failed.                        *)
(***************************************************************************)

\* Revive a dead-lettered row with a fresh budget.  The unique index refuses
\* the UPDATE when the key is live again; the call then changes nothing.  An
\* UPDATE that lands under a store error notifies nobody.
Retry(p, i, n) ==
  /\ i \in DOMAIN jobs /\ ~Live(i)
  /\ ~UniqueViolation(jobs[i].queue, jobs[i].unique_key)
  /\ \E clk \in now_ms : Update(i, Revived(jobs[i], n, clk))
  /\ \/ wpc' = Notified(p) /\ faults' = faults
     \/ wpc' = wpc /\ Fault
  /\ revived' = revived \cup {i}
  /\ UNCHANGED <<now, nextId, claimed, since, producing, stop, succeeded,
                 purged, overrun>>

\* Mutant of PurgeFailed: the age test alone, without failed_at IS NOT NULL.
PurgeFailed_AnyOld(age) ==
  \E clk \in now_ms :
    LET old == {i \in DOMAIN jobs : jobs[i].run_at <= clk - age}
    IN /\ old # {}
       /\ Delete(old)
       /\ purged' = purged \cup old
       /\ UNCHANGED <<now, nextId, working, producing, stop, faults,
                      succeeded, revived, overrun>>

PurgeFailed(age) ==
  \E clk \in now_ms :
    LET old == {i \in DOMAIN jobs : ~Live(i) /\ jobs[i].failed_at <= clk - age}
    IN /\ old # {}
       /\ Delete(old)
       /\ purged' = purged \cup old
       /\ UNCHANGED <<now, nextId, working, producing, stop, faults,
                      succeeded, revived, overrun>>

(***************************************************************************)
(* Real time.                                                              *)
(***************************************************************************)

Tick ==
  /\ now < MaxTime
  /\ now' = now + 1
  /\ overrun' = overrun \cup
       {i \in Ids : \E w \in Workers : /\ Holding(w) /\ claimed[w].id = i
                                       /\ ~WithinWindow(since[w], now + 1)}
  /\ UNCHANGED <<jobs, nextId, working, producing, stop, faults, succeeded,
                 purged, revived>>

(***************************************************************************)
(* The specification.                                                      *)
(***************************************************************************)

Init ==
  /\ now = 0
  /\ jobs = [i \in {} |-> 0]
  /\ nextId = 1
  /\ wpc = [w \in Workers |-> "poll"]
  /\ claimed = [w \in Workers |-> NoJob]
  /\ since = [w \in Workers |-> 0]
  /\ ppc = [p \in Producers |-> "ready"]
  /\ request = [p \in Producers |-> NULL]
  /\ reply = [p \in Producers |-> "none"]
  /\ stop = {}
  /\ faults = 0
  /\ succeeded = {} /\ purged = {} /\ revived = {} /\ overrun = {}

WorkerStep(w) ==
  \/ Claim(w) \/ ClaimNothing(w) \/ ClaimError(w) \/ Wait(w) \/ PollTimeout(w)
  \/ Heartbeat(w) \/ HandlerReturns(w) \/ Settle(w) \/ SettleError(w)
  \/ Exit(w) \/ Crash(w) \/ Restart(w)

ProducerStep(p) ==
  \/ \E d \in Requests : Dispatch(p, d)
  \/ FindUnique(p)
  \/ Reinsert(p)
  \/ \E d \in Requests : DispatchError(p, d)
  \/ \E i \in Ids, n \in Budgets : Retry(p, i, n)

OperatorStep ==
  \/ \E k \in Pools : SignalStop(k)
  \/ \E age \in Ages : PurgeFailed(age)

Next ==
  \/ Tick
  \/ OperatorStep
  \/ \E w \in Workers : WorkerStep(w)
  \/ \E p \in Producers : ProducerStep(p)

Spec == Init /\ [][Next]_vars

\* What a live worker thread does on its own: it is scheduled, its statements
\* complete and its handler returns.  Crashes, store errors, heartbeats,
\* restarts, dispatches and the operator's calls are never owed.
Progress(w) ==
  \/ Claim(w) \/ ClaimNothing(w) \/ Wait(w) \/ PollTimeout(w)
  \/ HandlerReturns(w) \/ Settle(w) \/ Exit(w)

FairSpec ==
  /\ Spec
  /\ WF_vars(Tick)
  /\ \A w \in Workers : WF_vars(Progress(w))

(***************************************************************************)
(* Properties.                                                             *)
(***************************************************************************)

\* Every variable has its type; ids are handed out in order and rows only
\* exist under ids already handed out.
TypeOK ==
  /\ now \in 0..MaxTime
  /\ nextId \in 1..(MaxJobs + 1)
  /\ DOMAIN jobs \subseteq 1..(nextId - 1)
  /\ jobs \in [DOMAIN jobs -> Row]
  /\ wpc \in [Workers -> WorkerPc]
  /\ claimed \in [Workers -> Claimed]
  /\ \A w \in Workers : Holding(w) => claimed[w].id \in 1..(nextId - 1)
  /\ since \in [Workers -> Nat]
  /\ ppc \in [Producers -> ProducerPc]
  /\ request \in [Producers -> Requests \cup {NULL}]
  /\ \A p \in Producers : ppc[p] # "ready" => request[p] \in Requests
  /\ reply \in [Producers -> Reply]
  /\ stop \subseteq Pools
  /\ faults \in 0..MaxFaults
  /\ succeeded \subseteq Ids /\ purged \subseteq Ids
  /\ revived \subseteq Ids /\ overrun \subseteq Ids

\* A worker that has kept within the visibility window (less the clock
\* error) still owns its row: the row exists, is live, and carries a lease no
\* other clock can see as expired.  This is what claim's cutoff and
\* heartbeat are for.
LeaseHeld ==
  \A w \in Workers :
    LET i == claimed[w].id
    IN Holding(w) /\ i \notin overrun =>
         /\ i \in DOMAIN jobs
         /\ Live(i)
         /\ jobs[i].locked_at # NULL
         /\ jobs[i].locked_at >= since[w] - MaxSkew
         /\ WithinWindow(since[w], now)

\* Two workers have the same job in hand only if one of them has outrun the
\* visibility window: crashes, lost replies, retries of the statement order,
\* shutdowns and operators never cause it.
Exclusive ==
  \A v, w \in Workers :
    /\ v # w /\ Holding(v) /\ Holding(w)
    /\ claimed[v].id = claimed[w].id
    => claimed[w].id \in overrun

\* "At most one in flight per" dedupe key: two workers never hold different
\* jobs of one queue that carry the same key, unless one has outrun its
\* window.
InFlightUnique ==
  \A v, w \in Workers :
    LET i == claimed[v].id
        j == claimed[w].id
    IN /\ Holding(v) /\ Holding(w) /\ i # j
       /\ {i, j} \cap overrun = {}
       => ~ /\ jobs[i].queue = jobs[j].queue
            /\ jobs[i].unique_key = jobs[j].unique_key
            /\ jobs[i].unique_key # NULL

\* With no crash and no store error, a job whose handler has returned Ok is
\* not handed to a handler again unless a worker outran its window on it.
RunsOnce ==
  \A w \in Workers :
    /\ wpc[w] = "running"
    /\ claimed[w].id \in succeeded
    /\ faults = 0
    => claimed[w].id \in overrun

\* At-least-once: a dispatched job stays in the table until a handler has
\* returned Ok for it or the operator has purged it, whatever crashes,
\* errors and late settles happen on the way.
NoLostJob ==
  \A i \in 1..(nextId - 1) : i \in DOMAIN jobs \cup succeeded \cup purged

\* A job is dead-lettered by settle only when its budget is used up, even
\* when the settle comes from a worker that lost the row long before.  (A
\* job the operator has revived is left out: a late settle goes by id alone
\* and may bury it again with its fresh budget unused.)
DeadLetterExhausted ==
  \A i \in DOMAIN jobs :
    /\ jobs[i].failed_at # NULL
    /\ i \notin revived
    => jobs[i].attempts >= jobs[i].max_attempts

\* Claims, renewals, late settles and takeovers: a job is handed out only under
\* a lease of its own attempt, a job that was reported done is not run again,
\* and a job is set aside as failed only with its budget used up.
LeasesHold == LeaseHeld /\ RunsOnce /\ DeadLetterExhausted

\* Two enqueues under one key, racing with the settles of the first job: no two
\* workers inside their windows hold jobs of one key, and no row leaves the
\* table without an Ok of its handler or a purge.
NothingLost == InFlightUnique /\ NoLostJob

\* A live job of a pool that is not stopped is settled, by success or by
\* dead-lettering, unless the end of the model's time comes first: its run_at
\* or the expiry of its lease lies past MaxTime.
EveryJobSettles ==
  \A i \in Ids :
    (i \in DOMAIN jobs /\ jobs[i].failed_at = NULL)
      ~> \/ i \notin DOMAIN jobs
         \/ jobs[i].failed_at # NULL
         \/ jobs[i].run_at > MaxTime
         \/ jobs[i].locked_at # NULL /\ jobs[i].locked_at >= MaxTime - VisTimeout
         \/ stop # {}

\* Workers::stop returns: every thread of the pool leaves its loop (or was
\* killed), although nothing notifies the ones that wait for work.
ShutdownDrains ==
  \A k \in Pools :
    (k \in stop) ~> \A w \in Workers :
                      PoolOf[w] = k => wpc[w] \in {"exited", "down"}

(***************************************************************************)
(* Queue implements JobLifecycle.                                          *)
(***************************************************************************)
SlotOf(row) == IF row.unique_key = NULL THEN NULL ELSE <<row.queue, row.unique_key>>

StatusBar ==
  [i \in Ids |-> IF i \in DOMAIN jobs THEN IF Live(i) THEN "live" ELSE "dead"
                 ELSE IF i >= nextId THEN "none"
                 ELSE IF i \in purged THEN "purged" ELSE "done"]

SlotBar == [i \in Ids |-> IF i \in DOMAIN jobs THEN SlotOf(jobs[i]) ELSE NULL]

Lifecycle == INSTANCE JobLifecycle
  WITH Slots <- Queues \X Keys, NoSlot <- NULL,
       status <- StatusBar, slot <- SlotBar, ok <- succeeded

\* Whatever interleaving of statements, crashes, store errors, late settles
\* and operator calls, the table goes through the steps of JobLifecycle only:
\* a row leaves it after an Ok or by a purge of a dead letter, and no two live
\* rows ever share a dedupe slot.
RefinesLifecycle == Lifecycle!Spec

=============================================================================
