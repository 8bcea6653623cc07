---------------------------- MODULE QueueProofs ----------------------------
(***************************************************************************)
(* Proofs about Queue, for every number of workers, producers, pools,      *)
(* jobs, keys and every timeout and clock error with                       *)
(* 2 * MaxSkew <= VisTimeout.                                              *)
(***************************************************************************)
EXTENDS Queue, TLAPS

(***************************************************************************)
(* The statements on the table.                                            *)
(***************************************************************************)

\* Readings of the clock are integers close to the real time.
LEMMA ClockReading ==
  ASSUME TypeOK, NEW clk \in now_ms
  PROVE  clk \in Int /\ now - MaxSkew <= clk /\ clk <= now + MaxSkew
BY QueueConstants DEF QueueConstants, TypeOK, now_ms

\* enqueue writes well-formed, unlocked, live rows.
LEMMA NewRowType ==
  ASSUME NEW d \in Requests, NEW clk \in Int
  PROVE  /\ NewRow(d, clk) \in Row
         /\ NewRow(d, clk).failed_at = NULL /\ NewRow(d, clk).locked_at = NULL
         /\ NewRow(d, clk).attempts = 0
         /\ NewRow(d, clk).queue = d.queue
         /\ NewRow(d, clk).unique_key = d.unique_key
BY QueueConstants DEF QueueConstants, NewRow, Row, AtLeastOne

\* What the SET clauses do to a row, field by field.
LEMMA LeasedRow ==
  ASSUME NEW row \in Row, NEW at \in Int
  PROVE  /\ Leased(row, at) \in Row
         /\ Leased(row, at).locked_at = at
         /\ Leased(row, at).failed_at = row.failed_at
         /\ Leased(row, at).attempts = row.attempts
         /\ Leased(row, at).max_attempts = row.max_attempts
         /\ Leased(row, at).queue = row.queue
         /\ Leased(row, at).unique_key = row.unique_key
BY QueueConstants DEF QueueConstants, Row, Leased

LEMMA AttemptedRow ==
  ASSUME NEW row \in Row, NEW at \in Int
  PROVE  /\ Attempted(row, at) \in Row
         /\ Attempted(row, at).locked_at = at
         /\ Attempted(row, at).failed_at = row.failed_at
         /\ Attempted(row, at).attempts = row.attempts + 1
         /\ Attempted(row, at).max_attempts = row.max_attempts
         /\ Attempted(row, at).queue = row.queue
         /\ Attempted(row, at).unique_key = row.unique_key
<1>1. row.attempts \in Nat /\ row.attempts + 1 \in Nat
  BY DEF Row
<1> DEFINE n == row.attempts + 1
<1>2. Attempted(row, at) = [row EXCEPT !.locked_at = at, !.attempts = n]
  BY DEF Attempted
<1>3. n \in Nat
  BY <1>1
<1> HIDE DEF n
<1>4. /\ Attempted(row, at) \in Row
      /\ Attempted(row, at).locked_at = at
      /\ Attempted(row, at).failed_at = row.failed_at
      /\ Attempted(row, at).attempts = n
      /\ Attempted(row, at).max_attempts = row.max_attempts
      /\ Attempted(row, at).queue = row.queue
      /\ Attempted(row, at).unique_key = row.unique_key
  BY <1>2, <1>3 DEF Row
<1> QED
  BY <1>4 DEF n

LEMMA BuriedRow ==
  ASSUME NEW row \in Row, NEW at \in Int
  PROVE  /\ Buried(row, at) \in Row
         /\ Buried(row, at).failed_at = at
         /\ Buried(row, at).attempts = row.attempts
         /\ Buried(row, at).max_attempts = row.max_attempts
         /\ Buried(row, at).queue = row.queue
         /\ Buried(row, at).unique_key = row.unique_key
BY QueueConstants DEF QueueConstants, Row, Buried

LEMMA RescheduledRow ==
  ASSUME NEW row \in Row, NEW at \in Int
  PROVE  /\ Rescheduled(row, at) \in Row
         /\ Rescheduled(row, at).failed_at = row.failed_at
         /\ Rescheduled(row, at).attempts = row.attempts
         /\ Rescheduled(row, at).max_attempts = row.max_attempts
         /\ Rescheduled(row, at).queue = row.queue
         /\ Rescheduled(row, at).unique_key = row.unique_key
BY QueueConstants DEF QueueConstants, Row, Rescheduled

LEMMA RevivedRow ==
  ASSUME NEW row \in Row, NEW at \in Int, NEW n \in Nat
  PROVE  /\ Revived(row, n, at) \in Row
         /\ Revived(row, n, at).failed_at = NULL
         /\ Revived(row, n, at).queue = row.queue
         /\ Revived(row, n, at).unique_key = row.unique_key
BY QueueConstants DEF QueueConstants, Row, Revived, AtLeastOne

\* What INSERT, UPDATE and DELETE do to the table.
LEMMA InsertRow ==
  ASSUME TypeOK, NEW row \in Row, Insert(nextId, row)
  PROVE  /\ nextId \notin DOMAIN jobs
         /\ DOMAIN jobs' = DOMAIN jobs \cup {nextId}
         /\ jobs'[nextId] = row
         /\ \A j \in DOMAIN jobs : jobs'[j] = jobs[j]
         /\ jobs' \in [DOMAIN jobs' -> Row]
<1>1. nextId \notin DOMAIN jobs
  BY QueueConstants DEF QueueConstants, TypeOK
<1> QED
  BY <1>1 DEF TypeOK, Insert

LEMMA UpdateRow ==
  ASSUME TypeOK, NEW i, NEW row, i \in DOMAIN jobs => row \in Row, Update(i, row)
  PROVE  /\ DOMAIN jobs' = DOMAIN jobs
         /\ i \in DOMAIN jobs => jobs'[i] = row
         /\ \A j \in DOMAIN jobs \ {i} : jobs'[j] = jobs[j]
         /\ jobs' \in [DOMAIN jobs' -> Row]
BY DEF TypeOK, Update

LEMMA DeleteRows ==
  ASSUME TypeOK, NEW S, Delete(S)
  PROVE  /\ DOMAIN jobs' = DOMAIN jobs \ S
         /\ \A j \in DOMAIN jobs \ S : jobs'[j] = jobs[j]
         /\ jobs' \in [DOMAIN jobs' -> Row]
BY DEF TypeOK, Delete

(***************************************************************************)
(* Type correctness.                                                       *)
(***************************************************************************)

\* The state of the table and of the id counter.
TableOK ==
  /\ nextId \in 1..(MaxJobs + 1)
  /\ DOMAIN jobs \subseteq 1..(nextId - 1)
  /\ jobs \in [DOMAIN jobs -> Row]

LEMMA InsertType ==
  ASSUME TypeOK, NEW d \in Requests, NEW clk \in now_ms,
         nextId <= MaxJobs, Insert(nextId, NewRow(d, clk)), nextId' = nextId + 1
  PROVE  TableOK'
<1>1. NewRow(d, clk) \in Row
  BY ClockReading, NewRowType
<1>2. /\ DOMAIN jobs' = DOMAIN jobs \cup {nextId}
      /\ jobs' \in [DOMAIN jobs' -> Row]
  BY <1>1, InsertRow
<1>3. nextId' \in 1..(MaxJobs + 1) /\ DOMAIN jobs' \subseteq 1..(nextId' - 1)
  BY <1>2, QueueConstants DEF QueueConstants, TypeOK
<1> QED
  BY <1>2, <1>3 DEF TableOK

LEMMA UpdateType ==
  ASSUME TypeOK, NEW i, NEW row, i \in DOMAIN jobs => row \in Row,
         Update(i, row), nextId' = nextId
  PROVE  TableOK'
BY UpdateRow DEF TypeOK, TableOK

LEMMA DeleteType ==
  ASSUME TypeOK, NEW S, Delete(S), nextId' = nextId
  PROVE  TableOK'
BY DeleteRows DEF TypeOK, TableOK

\* A claim's UPDATE.
LEMMA ClaimRowEffect ==
  ASSUME TypeOK, NEW w \in Workers, NEW i \in Ids, NEW clk \in now_ms,
         ClaimRow(w, i, clk)
  PROVE  /\ i \in DOMAIN jobs /\ Live(i)
         /\ jobs[i].locked_at # NULL => jobs[i].locked_at < clk - VisTimeout
         /\ DOMAIN jobs' = DOMAIN jobs
         /\ jobs'[i] = Attempted(jobs[i], clk)
         /\ \A j \in DOMAIN jobs \ {i} : jobs'[j] = jobs[j]
         /\ jobs' \in [DOMAIN jobs' -> Row]
<1>1. i \in DOMAIN jobs /\ Live(i) /\ Update(i, Attempted(jobs[i], clk))
  BY DEF ClaimRow, Claimable
<1>2. jobs[i].locked_at # NULL => jobs[i].locked_at < clk - VisTimeout
  BY DEF ClaimRow, Claimable
<1>3. Attempted(jobs[i], clk) \in Row
  BY <1>1, ClockReading, AttemptedRow DEF TypeOK
<1> QED
  BY <1>1, <1>2, <1>3, UpdateRow

\* settle's statement: one row, the worker's own id, is deleted or updated.
LEMMA SettleRowEffect ==
  ASSUME TypeOK, NEW w \in Workers, SettleRow(w)
  PROVE  LET c == claimed[w]
         IN \/ wpc[w] = "ok" /\ Delete({c.id})
            \/ /\ wpc[w] = "err" /\ c.attempts >= c.max_attempts
               /\ \E at \in Int : Update(c.id, Buried(jobs[c.id], at))
            \/ /\ wpc[w] = "err" /\ c.attempts < c.max_attempts
               /\ \E at \in Int : Update(c.id, Rescheduled(jobs[c.id], at))
<1>1. claimed[w] \in Claimed /\ claimed[w].attempts \in Nat
  BY DEF TypeOK, Claimed
<1>2. \A clk \in now_ms : clk \in Int
  BY ClockReading
<1>3. \A clk \in now_ms : clk + Backoff * AtLeastOne(claimed[w].attempts) \in Int
  <2>1. AtLeastOne(claimed[w].attempts) \in Nat
    BY <1>1 DEF AtLeastOne
  <2> QED
    BY <1>2, <2>1, QueueConstants DEF QueueConstants
<1> QED
  BY <1>2, <1>3 DEF SettleRow

LEMMA SettleType ==
  ASSUME TypeOK, NEW w \in Workers, SettleRow(w), nextId' = nextId
  PROVE  TableOK'
<1> DEFINE i == claimed[w].id
<1>1. CASE Delete({i})
  BY <1>1, DeleteType
<1>2. ASSUME NEW at \in Int, Update(i, Buried(jobs[i], at))
      PROVE  TableOK'
  <2>1. i \in DOMAIN jobs => Buried(jobs[i], at) \in Row
    BY BuriedRow DEF TypeOK
  <2> QED
    BY <1>2, <2>1, UpdateType
<1>3. ASSUME NEW at \in Int, Update(i, Rescheduled(jobs[i], at))
      PROVE  TableOK'
  <2>1. i \in DOMAIN jobs => Rescheduled(jobs[i], at) \in Row
    BY RescheduledRow DEF TypeOK
  <2> QED
    BY <1>3, <2>1, UpdateType
<1> QED
  BY <1>1, <1>2, <1>3, SettleRowEffect

LEMMA InitTypeOK == Init => TypeOK
BY QueueConstants DEF QueueConstants, Init, TypeOK, WorkerPc, ProducerPc, Reply,
  Claimed, NoJob, Ids, Holding

\* One step per action; the table's part comes from the lemmas above.
LEMMA NextTypeOK == TypeOK /\ [Next]_vars => TypeOK'
<1> SUFFICES ASSUME TypeOK, [Next]_vars PROVE TypeOK'
  OBVIOUS
<1> USE QueueConstants DEF QueueConstants
<1>1. CASE UNCHANGED vars
  BY <1>1 DEF TypeOK, Holding, vars
<1>2. CASE Tick
  BY <1>2 DEF TypeOK, Holding, Tick, working, producing
<1>3. ASSUME NEW k \in Pools, SignalStop(k) PROVE TypeOK'
  BY <1>3 DEF TypeOK, Holding, SignalStop, working, producing, history
<1>4. ASSUME NEW age \in Ages, PurgeFailed(age) PROVE TypeOK'
  <2>1. PICK clk \in now_ms :
          LET old == {i \in DOMAIN jobs : ~Live(i) /\ jobs[i].failed_at <= clk - age}
          IN /\ Delete(old)
             /\ purged' = purged \cup old
             /\ UNCHANGED <<now, nextId, working, producing, stop, faults,
                            succeeded, revived, overrun>>
    BY <1>4 DEF PurgeFailed
  <2> DEFINE old == {i \in DOMAIN jobs : ~Live(i) /\ jobs[i].failed_at <= clk - age}
  <2>2. old \subseteq Ids
    BY DEF TypeOK, Holding, Ids
  <2> HIDE DEF old
  <2>3. TableOK'
    BY <2>1, DeleteType DEF old
  <2> QED
    BY <2>1, <2>2, <2>3 DEF TypeOK, Holding, TableOK, working, producing, old
<1>5. ASSUME NEW p \in Producers, NEW d \in Requests, Dispatch(p, d)
      PROVE  TypeOK'
  <2>1. CASE ~UniqueViolation(d.queue, d.unique_key)
    <3>1. PICK clk \in now_ms : Insert(nextId, NewRow(d, clk))
      BY <1>5, <2>1 DEF Dispatch
    <3>2. TableOK'
      BY <1>5, <2>1, <3>1, InsertType DEF Dispatch
    <3>3. /\ nextId' = nextId + 1 /\ wpc' = Notified(p)
          /\ reply' = [reply EXCEPT ![p] = "new"]
          /\ UNCHANGED <<now, claimed, since, ppc, request, stop, faults, history>>
      BY <1>5, <2>1 DEF Dispatch
    <3>4. wpc' \in [Workers -> WorkerPc] /\ reply' \in [Producers -> Reply]
      BY <3>3 DEF TypeOK, Notified, WorkerPc, Reply
    <3>5. ASSUME NEW w \in Workers, Holding(w)' PROVE claimed'[w].id \in 1..(nextId' - 1)
      <4>1. Holding(w)
        BY <3>3, <3>5 DEF TypeOK, Holding, Notified
      <4> QED
        BY <3>3, <4>1 DEF TypeOK
    <3> QED
      BY <3>2, <3>3, <3>4, <3>5 DEF TypeOK, TableOK, history
  <2>2. CASE UniqueViolation(d.queue, d.unique_key)
    BY <1>5, <2>2 DEF TypeOK, Holding, Dispatch, history, Reply, ProducerPc
  <2> QED
    BY <2>1, <2>2
<1>6. ASSUME NEW p \in Producers, FindUnique(p) PROVE TypeOK'
  BY <1>6 DEF TypeOK, Holding, FindUnique, working, history, Reply, ProducerPc
<1>7. ASSUME NEW p \in Producers, Reinsert(p) PROVE TypeOK'
  <2> DEFINE d == request[p]
  <2>1. CASE ~UniqueViolation(d.queue, d.unique_key)
    <3>1. PICK clk \in now_ms : Insert(nextId, NewRow(d, clk))
      BY <1>7, <2>1 DEF Reinsert
    <3>2. d \in Requests
      BY <1>7 DEF TypeOK, Holding, Reinsert
    <3>3. TableOK'
      BY <1>7, <2>1, <3>1, <3>2, InsertType DEF Reinsert
    <3> QED
      BY <1>7, <2>1, <3>3 DEF TypeOK, Holding, TableOK, Reinsert, Notified, history,
         WorkerPc, Reply, ProducerPc
  <2>2. CASE UniqueViolation(d.queue, d.unique_key)
    BY <1>7, <2>2 DEF TypeOK, Holding, Reinsert, history, Reply, ProducerPc
  <2> QED
    BY <2>1, <2>2
<1>8. ASSUME NEW p \in Producers, NEW d \in Requests, DispatchError(p, d)
      PROVE  TypeOK'
  <2>1. TableOK'
    <3>1. CASE UNCHANGED <<jobs, nextId>>
      BY <3>1 DEF TypeOK, Holding, TableOK
    <3>2. ASSUME NEW clk \in now_ms, nextId <= MaxJobs,
                 Insert(nextId, NewRow(d, clk)), nextId' = nextId + 1
          PROVE  TableOK'
      BY <3>2, InsertType
    <3> QED
      BY <1>8, <3>1, <3>2 DEF DispatchError
  <2> QED
    BY <1>8, <2>1 DEF TypeOK, Holding, TableOK, DispatchError, Fault, working, history,
       Reply, ProducerPc
<1>9. ASSUME NEW p \in Producers, NEW i \in Ids, NEW n \in Budgets, Retry(p, i, n)
      PROVE  TypeOK'
  <2>1. PICK clk \in now_ms : Update(i, Revived(jobs[i], n, clk))
    BY <1>9 DEF Retry
  <2>2. i \in DOMAIN jobs => Revived(jobs[i], n, clk) \in Row
    BY ClockReading, RevivedRow DEF TypeOK
  <2>3. TableOK'
    BY <1>9, <2>1, <2>2, UpdateType DEF Retry
  <2> QED
    BY <1>9, <2>3 DEF TypeOK, Holding, TableOK, Retry, Notified, Fault, producing, WorkerPc
<1>10. ASSUME NEW w \in Workers, Claim(w) PROVE TypeOK'
  <2>1. PICK clk \in now_ms, i \in Ids :
          /\ ClaimRow(w, i, clk)
          /\ claimed' = [claimed EXCEPT ![w] =
                           [id |-> i, attempts |-> jobs[i].attempts + 1,
                            max_attempts |-> jobs[i].max_attempts]]
    BY <1>10 DEF Claim
  <2>2. TableOK'
    BY <1>10, <2>1, ClaimRowEffect DEF TypeOK, Holding, TableOK, Claim
  <2>3. jobs[i].attempts \in Nat /\ jobs[i].max_attempts \in Nat
    BY <2>1, ClaimRowEffect DEF TypeOK, Holding, Row
  <2>4. claimed' \in [Workers -> Claimed]
    BY <2>1, <2>3 DEF TypeOK, Holding, Claimed
  <2>5. \A v \in Workers : Holding(v)' => claimed'[v].id \in 1..(nextId' - 1)
    <3>1. claimed'[w].id \in 1..(nextId' - 1)
      BY <1>10, <2>1, ClaimRowEffect DEF TypeOK, Claim
    <3>2. \A v \in Workers \ {w} :
            claimed'[v] = claimed[v] /\ (Holding(v)' <=> Holding(v))
      BY <1>10, <2>1 DEF TypeOK, Holding, Claim
    <3> QED
      BY <1>10, <3>1, <3>2 DEF TypeOK, Claim
  <2> QED
    BY <1>10, <2>2, <2>4, <2>5 DEF TypeOK, TableOK, Claim, producing, history,
       WorkerPc
<1>11. ASSUME NEW w \in Workers, ClaimError(w) PROVE TypeOK'
  <2>1. TableOK'
    BY <1>11, ClaimRowEffect DEF TypeOK, Holding, TableOK, ClaimError
  <2> QED
    BY <1>11, <2>1 DEF TypeOK, Holding, TableOK, ClaimError, Fault, producing, history, WorkerPc
<1>12. ASSUME NEW w \in Workers,
              ClaimNothing(w) \/ Wait(w) \/ PollTimeout(w) \/ Exit(w) \/ Restart(w)
       PROVE  TypeOK'
  BY <1>12 DEF TypeOK, Holding, ClaimNothing, Wait, PollTimeout, Exit, Restart, producing,
     history, WorkerPc
<1>13. ASSUME NEW w \in Workers, Heartbeat(w) PROVE TypeOK'
  <2> DEFINE i == claimed[w].id
  <2>1. PICK clk \in now_ms : Update(i, Leased(jobs[i], clk))
    BY <1>13 DEF Heartbeat
  <2>2. i \in DOMAIN jobs => Leased(jobs[i], clk) \in Row
    BY ClockReading, LeasedRow DEF TypeOK
  <2>3. TableOK'
    BY <1>13, <2>1, <2>2, UpdateType DEF Heartbeat
  <2> QED
    BY <1>13, <2>3 DEF TypeOK, Holding, TableOK, Heartbeat, producing, history
<1>14. ASSUME NEW w \in Workers, HandlerReturns(w) PROVE TypeOK'
  <2>1. claimed[w].id \in Ids
    BY <1>14 DEF TypeOK, Holding, HandlerReturns, Ids
  <2> QED
    BY <1>14, <2>1 DEF TypeOK, Holding, HandlerReturns, producing, WorkerPc
<1>15. ASSUME NEW w \in Workers, Settle(w) \/ SettleError(w) PROVE TypeOK'
  <2>1. TableOK'
    BY <1>15, SettleType DEF TypeOK, Holding, TableOK, Settle, SettleError
  <2> QED
    <3>1. claimed' \in [Workers -> Claimed] /\ since' \in [Workers -> Nat]
      <4>1. DropJob(w)
        BY <1>15 DEF Settle, SettleError
      <4>2. NoJob \in Claimed
        BY DEF NoJob, Claimed
      <4> QED
        BY <4>1, <4>2 DEF TypeOK, DropJob
    <3>2. CASE Settle(w)
      <4>1. wpc' \in [Workers -> WorkerPc]
        BY <3>2 DEF TypeOK, Settle, WorkerPc
      <4>2. ASSUME NEW v \in Workers, Holding(v)' PROVE claimed'[v].id \in 1..(nextId' - 1)
        <5>1. v # w /\ Holding(v) /\ claimed'[v] = claimed[v]
          BY <3>2, <4>2 DEF TypeOK, Holding, Settle, DropJob
        <5> QED
          BY <3>2, <5>1 DEF TypeOK, Settle
      <4> QED
        BY <2>1, <3>1, <3>2, <4>1, <4>2 DEF TypeOK, TableOK, Settle, producing, history
    <3>3. CASE SettleError(w)
      BY <3>1, <3>3, <2>1 DEF TypeOK, Holding, TableOK, SettleError, DropJob,
         Fault, producing, history, WorkerPc
    <3> QED
      BY <1>15, <3>2, <3>3
<1>16. ASSUME NEW w \in Workers, Crash(w) PROVE TypeOK'
  BY <1>16 DEF TypeOK, Holding, Crash, DropJob, Fault, producing, history, WorkerPc, Claimed, NoJob
<1> QED
  BY <1>1, <1>2, <1>3, <1>4, <1>5, <1>6, <1>7, <1>8, <1>9, <1>10, <1>11, <1>12,
     <1>13, <1>14, <1>15, <1>16
     DEF Next, OperatorStep, WorkerStep, ProducerStep

\* Rows, control points and counters keep their types for ever; ids come from
\* the counter alone.
THEOREM TypeCorrect == Spec => []TypeOK
BY InitTypeOK, NextTypeOK, PTL DEF Spec

(***************************************************************************)
(* The lease protocol.  LeaseHeld is the inductive strengthening that      *)
(* makes Exclusive inductive: a second claim of a held row needs a lease   *)
(* older than the visibility timeout, which LeaseHeld excludes.            *)
(***************************************************************************)

LeaseInv == LeaseHeld /\ Exclusive

\* A row held within its window cannot be claimed, whatever the clocks say.
LEMMA LeaseBars ==
  ASSUME TypeOK, LeaseHeld, NEW v \in Workers, Holding(v),
         claimed[v].id \notin overrun,
         NEW w \in Workers, NEW clk \in now_ms, ClaimRow(w, claimed[v].id, clk)
  PROVE  FALSE
<1> DEFINE i == claimed[v].id
<1>1. /\ i \in DOMAIN jobs
      /\ jobs[i].locked_at # NULL
      /\ jobs[i].locked_at >= since[v] - MaxSkew
      /\ now - since[v] <= VisTimeout - 2 * MaxSkew
  BY DEF LeaseHeld, WithinWindow
<1>2. jobs[i].locked_at < clk - VisTimeout
  BY <1>1 DEF ClaimRow, Claimable
<1>3. clk \in Int /\ clk <= now + MaxSkew
  BY ClockReading
<1>4. now \in Int /\ since[v] \in Int /\ jobs[i].locked_at \in Int
  BY <1>1, QueueConstants DEF QueueConstants, TypeOK, Row
<1> QED
  BY <1>1, <1>2, <1>3, <1>4, QueueConstants DEF QueueConstants

\* A step that lets no worker take a job up and leaves the leases of held
\* rows alone keeps the invariant.
LEMMA LeaseFrame ==
  ASSUME LeaseInv, now' = now, overrun' = overrun,
         \A v \in Workers : Holding(v)' => /\ Holding(v)
                                           /\ claimed'[v] = claimed[v]
                                           /\ since'[v] = since[v],
         \A v \in Workers :
           LET i == claimed[v].id
           IN Holding(v)' /\ i \notin overrun /\ i \in DOMAIN jobs /\ Live(i) =>
                /\ i \in DOMAIN jobs'
                /\ jobs'[i].failed_at = NULL
                /\ jobs'[i].locked_at = jobs[i].locked_at
  PROVE  LeaseInv'
<1>1. LeaseHeld'
  BY DEF LeaseInv, LeaseHeld, Live, WithinWindow
<1>2. Exclusive'
  BY DEF LeaseInv, Exclusive
<1> QED
  BY <1>1, <1>2 DEF LeaseInv

\* The same for a step whose only effect on held rows is none.
LEMMA LeaseFrameRows ==
  ASSUME LeaseInv, now' = now, overrun' = overrun,
         \A v \in Workers : Holding(v)' => /\ Holding(v)
                                           /\ claimed'[v] = claimed[v]
                                           /\ since'[v] = since[v],
         \A j \in DOMAIN jobs : j \in DOMAIN jobs' /\ jobs'[j] = jobs[j]
  PROVE  LeaseInv'
BY LeaseFrame DEF Live

LEMMA InitLease == Init => LeaseInv
BY DEF Init, LeaseInv, LeaseHeld, Exclusive, Holding

LEMMA NextLease == TypeOK /\ LeaseInv /\ [Next]_vars => LeaseInv'
<1> SUFFICES ASSUME TypeOK, LeaseInv, [Next]_vars PROVE LeaseInv'
  OBVIOUS
<1>1. CASE UNCHANGED vars
  BY <1>1, LeaseFrameRows DEF vars, Holding
<1>2. CASE Tick
  <2>1. \A v \in Workers : /\ Holding(v)' = Holding(v)
                           /\ claimed'[v] = claimed[v] /\ since'[v] = since[v]
    BY <1>2 DEF Tick, working, Holding
  <2>2. \A v \in Workers :
          Holding(v) /\ claimed[v].id \notin overrun'
            => claimed[v].id \notin overrun /\ WithinWindow(since[v], now')
    BY <1>2, QueueConstants DEF QueueConstants, Tick, TypeOK, Ids
  <2>3. LeaseHeld'
    BY <1>2, <2>1, <2>2 DEF Tick, LeaseInv, LeaseHeld, Live, WithinWindow
  <2>4. Exclusive'
    BY <1>2, <2>1 DEF Tick, LeaseInv, Exclusive
  <2> QED
    BY <2>3, <2>4 DEF LeaseInv
<1>3. ASSUME NEW k \in Pools, SignalStop(k) PROVE LeaseInv'
  BY <1>3, LeaseFrameRows DEF SignalStop, working, history, Holding
<1>4. ASSUME NEW age \in Ages, PurgeFailed(age) PROVE LeaseInv'
  <2>1. PICK clk \in now_ms :
          /\ Delete({i \in DOMAIN jobs : ~Live(i) /\ jobs[i].failed_at <= clk - age})
          /\ UNCHANGED <<now, nextId, working, producing, stop, faults,
                         succeeded, revived, overrun>>
    BY <1>4 DEF PurgeFailed
  <2>2. \A i \in DOMAIN jobs : Live(i) => i \in DOMAIN jobs' /\ jobs'[i] = jobs[i]
    BY <2>1 DEF Delete
  <2> QED
    BY <2>1, <2>2, LeaseFrame DEF working, Holding, Live
<1>5. ASSUME NEW p \in Producers,
             \/ \E d \in Requests : Dispatch(p, d) \/ DispatchError(p, d)
             \/ FindUnique(p) \/ Reinsert(p)
      PROVE  LeaseInv'
  <2>1. \A j \in DOMAIN jobs : j \in DOMAIN jobs' /\ jobs'[j] = jobs[j]
    <3>1. \A row, j : Insert(nextId, row) /\ j \in DOMAIN jobs =>
                        j \in DOMAIN jobs' /\ jobs'[j] = jobs[j]
      BY QueueConstants DEF QueueConstants, Insert, TypeOK
    <3> QED
      BY <1>5, <3>1 DEF Dispatch, FindUnique, Reinsert, DispatchError
  <2>2. \A v \in Workers : Holding(v)' => Holding(v)
    BY <1>5 DEF Dispatch, FindUnique, Reinsert, DispatchError, working,
       Notified, Holding
  <2>3. UNCHANGED <<now, overrun, claimed, since>>
    BY <1>5 DEF Dispatch, FindUnique, Reinsert, DispatchError, working, history
  <2> QED
    BY <2>1, <2>2, <2>3, LeaseFrameRows
<1>6. ASSUME NEW p \in Producers, NEW i \in Ids, NEW n \in Budgets, Retry(p, i, n)
      PROVE  LeaseInv'
  <2>1. i \in DOMAIN jobs /\ ~Live(i)
    BY <1>6 DEF Retry
  <2>2. \A j \in DOMAIN jobs : Live(j) => j \in DOMAIN jobs' /\ jobs'[j] = jobs[j]
    BY <1>6, <2>1 DEF Retry, Update
  <2>3. \A v \in Workers : Holding(v)' => Holding(v)
    BY <1>6 DEF Retry, Notified, Holding
  <2> QED
    BY <1>6, <2>2, <2>3, LeaseFrame DEF Retry, Live
<1>7. ASSUME NEW w \in Workers, Claim(w) PROVE LeaseInv'
  <2>1. PICK clk \in now_ms, i \in Ids :
          /\ ClaimRow(w, i, clk)
          /\ claimed' = [claimed EXCEPT ![w] =
                           [id |-> i, attempts |-> jobs[i].attempts + 1,
                            max_attempts |-> jobs[i].max_attempts]]
    BY <1>7 DEF Claim
  <2>2. /\ UNCHANGED <<now, overrun>>
        /\ claimed'[w].id = i /\ since'[w] = now /\ ~Holding(w) /\ Holding(w)'
        /\ \A v \in Workers \ {w} : /\ claimed'[v] = claimed[v]
                                    /\ since'[v] = since[v]
                                    /\ Holding(v)' = Holding(v)
    BY <1>7, <2>1 DEF Claim, history, Holding, TypeOK
  <2>3. \A v \in Workers \ {w} : Holding(v) /\ claimed[v].id = i => i \in overrun
    BY <2>1, LeaseBars DEF LeaseInv
  <2>4. /\ i \in DOMAIN jobs /\ Live(i) /\ DOMAIN jobs' = DOMAIN jobs
        /\ jobs'[i] = Attempted(jobs[i], clk)
        /\ \A j \in DOMAIN jobs \ {i} : jobs'[j] = jobs[j]
    BY <2>1, ClaimRowEffect
  <2>5. clk \in Int /\ clk >= now - MaxSkew
    BY ClockReading, QueueConstants DEF QueueConstants, TypeOK
  <2>6. jobs'[i].failed_at = NULL /\ jobs'[i].locked_at = clk
    <3>1. jobs[i] \in Row
      BY <2>4 DEF TypeOK
    <3> QED
      BY <2>4, <2>5, <3>1, AttemptedRow DEF Live
  <2>7. WithinWindow(since'[w], now')
    BY <2>2, QueueConstants DEF QueueConstants, WithinWindow, TypeOK
  <2>8. clk # NULL
    BY <2>5, QueueConstants DEF QueueConstants
  <2>9. LeaseHeld'
    BY <2>2, <2>3, <2>4, <2>5, <2>6, <2>7, <2>8
       DEF LeaseInv, LeaseHeld, Live, WithinWindow
  <2>10. Exclusive'
    BY <2>2, <2>3 DEF LeaseInv, Exclusive
  <2> QED
    BY <2>9, <2>10 DEF LeaseInv
<1>8. ASSUME NEW w \in Workers, ClaimError(w) PROVE LeaseInv'
  <2>1. \A v \in Workers : Holding(v)' => /\ Holding(v)
                                          /\ claimed'[v] = claimed[v]
                                          /\ since'[v] = since[v]
    BY <1>8 DEF ClaimError, Holding, TypeOK
  <2>2. now' = now /\ overrun' = overrun
    BY <1>8 DEF ClaimError, history
  <2>3. CASE UNCHANGED jobs
    BY <2>1, <2>2, <2>3, LeaseFrameRows
  <2>4. ASSUME NEW clk \in now_ms, NEW i \in Ids, ClaimRow(w, i, clk)
        PROVE  LeaseInv'
    <3>1. \A v \in Workers : Holding(v) /\ claimed[v].id = i => i \in overrun
      BY <2>4, LeaseBars DEF LeaseInv
    <3>2. /\ DOMAIN jobs' = DOMAIN jobs
          /\ \A j \in DOMAIN jobs \ {i} : jobs'[j] = jobs[j]
      BY <2>4, ClaimRowEffect
    <3> QED
      BY <2>1, <2>2, <3>1, <3>2, LeaseFrame DEF Live
  <2> QED
    BY <1>8, <2>3, <2>4 DEF ClaimError
<1>9. ASSUME NEW w \in Workers,
             \/ ClaimNothing(w) \/ Wait(w) \/ PollTimeout(w) \/ Exit(w)
             \/ Restart(w) \/ Crash(w) \/ HandlerReturns(w)
      PROVE  LeaseInv'
  <2>1. UNCHANGED <<now, overrun, jobs>>
    BY <1>9 DEF ClaimNothing, Wait, PollTimeout, Exit, Restart, Crash,
       HandlerReturns, history
  <2>2. \A v \in Workers : Holding(v)' => /\ Holding(v)
                                          /\ claimed'[v] = claimed[v]
                                          /\ since'[v] = since[v]
    BY <1>9 DEF ClaimNothing, Wait, PollTimeout, Exit, Restart, Crash,
       HandlerReturns, DropJob, Holding, TypeOK
  <2> QED
    BY <2>1, <2>2, LeaseFrameRows
<1>10. ASSUME NEW w \in Workers, Heartbeat(w) PROVE LeaseInv'
  <2> DEFINE i == claimed[w].id
  <2>1. PICK clk \in now_ms : Update(i, Leased(jobs[i], clk))
    BY <1>10 DEF Heartbeat
  <2>2. clk \in Int /\ clk >= now - MaxSkew /\ clk # NULL
    BY ClockReading, QueueConstants DEF QueueConstants, TypeOK
  <2>3. /\ DOMAIN jobs' = DOMAIN jobs
        /\ \A j \in DOMAIN jobs \ {i} : jobs'[j] = jobs[j]
        /\ i \in DOMAIN jobs => /\ jobs'[i].locked_at = clk
                                /\ jobs'[i].failed_at = jobs[i].failed_at
    <3>1. i \in DOMAIN jobs => jobs[i] \in Row
      BY DEF TypeOK
    <3>2. i \in DOMAIN jobs => jobs'[i] = Leased(jobs[i], clk)
      BY <2>1 DEF Update
    <3>3. i \in DOMAIN jobs => /\ Leased(jobs[i], clk).locked_at = clk
                               /\ Leased(jobs[i], clk).failed_at = jobs[i].failed_at
      BY <2>2, <3>1, LeasedRow
    <3> QED
      BY <2>1, <3>2, <3>3 DEF Update
  <2>4. /\ UNCHANGED <<now, overrun, claimed>> /\ since'[w] = now
        /\ \A v \in Workers \ {w} : since'[v] = since[v]
        /\ \A v \in Workers : Holding(v)' = Holding(v)
    BY <1>10 DEF Heartbeat, history, Holding, TypeOK
  <2>5. WithinWindow(since'[w], now')
    BY <2>4, QueueConstants DEF QueueConstants, WithinWindow, TypeOK
  <2>6. \A v \in Workers \ {w} : Holding(v) /\ claimed[v].id = i => i \in overrun
    BY <1>10 DEF LeaseInv, Exclusive, Heartbeat, Holding
  <2>7. LeaseHeld'
    BY <2>2, <2>3, <2>4, <2>5, <2>6 DEF LeaseInv, LeaseHeld, Live, WithinWindow
  <2>8. Exclusive'
    BY <2>4 DEF LeaseInv, Exclusive
  <2> QED
    BY <2>7, <2>8 DEF LeaseInv
<1>11. ASSUME NEW w \in Workers, Settle(w) \/ SettleError(w) PROVE LeaseInv'
  <2> DEFINE i == claimed[w].id
  <2>1. \A j \in DOMAIN jobs \ {i} : j \in DOMAIN jobs' /\ jobs'[j] = jobs[j]
    <3>1. SettleRow(w) \/ UNCHANGED jobs
      BY <1>11 DEF Settle, SettleError
    <3>2. CASE SettleRow(w)
      BY <3>2, SettleRowEffect DEF Update, Delete
    <3> QED
      BY <3>1, <3>2
  <2>2. /\ UNCHANGED <<now, overrun>> /\ ~Holding(w)' /\ Holding(w)
        /\ \A v \in Workers \ {w} : /\ claimed'[v] = claimed[v]
                                    /\ since'[v] = since[v]
                                    /\ Holding(v)' = Holding(v)
    BY <1>11 DEF Settle, SettleError, SettleRow, DropJob, history, Holding, TypeOK
  <2>3. \A v \in Workers \ {w} : Holding(v) /\ claimed[v].id = i => i \in overrun
    BY <2>2 DEF LeaseInv, Exclusive
  <2> QED
    BY <2>1, <2>2, <2>3, LeaseFrame DEF Live
<1> QED
  BY <1>1, <1>2, <1>3, <1>4, <1>5, <1>6, <1>7, <1>8, <1>9, <1>10, <1>11
     DEF Next, OperatorStep, WorkerStep, ProducerStep

\* A worker within its visibility window owns its row, and no job is in the
\* hands of two workers unless one of them has outrun its window.
THEOREM LeaseSafety == Spec => [](LeaseHeld /\ Exclusive)
<1>1. Init => TypeOK /\ LeaseInv
  BY InitTypeOK, InitLease
<1>2. TypeOK /\ LeaseInv /\ [Next]_vars => TypeOK' /\ LeaseInv'
  BY NextTypeOK, NextLease
<1>3. LeaseInv => LeaseHeld /\ Exclusive
  BY DEF LeaseInv
<1> QED
  BY <1>1, <1>2, <1>3, PTL DEF Spec

(***************************************************************************)
(* What becomes of a row of sutegi_jobs: no job is lost, a dedupe key is   *)
(* live at most once, a dead letter has used its budget up, a job that     *)
(* was reported done is not run again, and the table goes through the      *)
(* steps of JobLifecycle only.                                             *)
(*                                                                         *)
(* Two lemmas classify the steps once, by what they do to the table        *)
(* (NextTable) and to the jobs in hand (NextHolders); everything else      *)
(* follows from them without looking at the actions again.                 *)
(***************************************************************************)

(***************************************************************************)
(* What a step does to the table.                                          *)
(***************************************************************************)

\* The operator has nothing to do with the step.
NoOperator == purged' = purged /\ revived' = revived

\* A handler may have returned Ok.
Reports ==
  \/ succeeded' = succeeded
  \/ \E w \in Workers : /\ wpc[w] = "running"
                        /\ succeeded' = succeeded \cup {claimed[w].id}

Keeps == NoOperator /\ UNCHANGED <<jobs, nextId>> /\ Reports

Inserts ==
  /\ NoOperator /\ succeeded' = succeeded
  /\ nextId <= MaxJobs /\ nextId' = nextId + 1
  /\ DOMAIN jobs' = DOMAIN jobs \cup {nextId}
  /\ \A j \in DOMAIN jobs : jobs'[j] = jobs[j]
  /\ jobs'[nextId] \in Row
  /\ jobs'[nextId].failed_at = NULL
  /\ ~UniqueViolation(jobs'[nextId].queue, jobs'[nextId].unique_key)

\* One row is rewritten and stays what it was: its queue and its key.
Rewrites(i) ==
  /\ i \in DOMAIN jobs /\ DOMAIN jobs' = DOMAIN jobs
  /\ \A j \in DOMAIN jobs \ {i} : jobs'[j] = jobs[j]
  /\ jobs'[i] \in Row
  /\ jobs'[i].queue = jobs[i].queue
  /\ jobs'[i].unique_key = jobs[i].unique_key
  /\ nextId' = nextId /\ purged' = purged /\ succeeded' = succeeded

\* Claimed, renewed or rescheduled.
Touches(i) ==
  /\ Rewrites(i) /\ revived' = revived
  /\ jobs'[i].failed_at = jobs[i].failed_at
  /\ jobs'[i].max_attempts = jobs[i].max_attempts
  /\ jobs'[i].attempts >= jobs[i].attempts

\* Set aside by a worker whose job has used up the budget it was claimed with.
Buries(i) ==
  /\ Rewrites(i) /\ revived' = revived
  /\ jobs'[i].failed_at # NULL
  /\ jobs'[i].max_attempts = jobs[i].max_attempts
  /\ jobs'[i].attempts = jobs[i].attempts
  /\ \E w \in Workers : /\ wpc[w] = "err" /\ claimed[w].id = i
                        /\ claimed[w].attempts >= claimed[w].max_attempts

Revives(i) ==
  /\ Rewrites(i) /\ revived' = revived \cup {i}
  /\ ~Live(i)
  /\ ~UniqueViolation(jobs[i].queue, jobs[i].unique_key)
  /\ jobs'[i].failed_at = NULL

Drops(S) ==
  /\ S \subseteq DOMAIN jobs /\ DOMAIN jobs' = DOMAIN jobs \ S
  /\ \A j \in DOMAIN jobs \ S : jobs'[j] = jobs[j]
  /\ nextId' = nextId /\ succeeded' = succeeded /\ revived' = revived

\* Deleted by a worker that has reported Ok.
Completes(i) ==
  /\ Drops({i}) /\ purged' = purged
  /\ \E w \in Workers : wpc[w] = "ok" /\ claimed[w].id = i

Purges(S) ==
  /\ Drops(S) /\ purged' = purged \cup S
  /\ \A i \in S : ~Live(i)

TableStep ==
  \/ Keeps
  \/ Inserts
  \/ \E i \in DOMAIN jobs : Touches(i) \/ Buries(i) \/ Revives(i) \/ Completes(i)
  \/ \E S \in SUBSET DOMAIN jobs : Purges(S)

\* An UPDATE or DELETE of an id that is gone leaves the table as it is.
LEMMA GoneRow ==
  ASSUME TypeOK, NEW i, i \notin DOMAIN jobs
  PROVE  /\ \A row : Update(i, row) => jobs' = jobs
         /\ Delete({i}) => jobs' = jobs
<1>1. jobs = [j \in DOMAIN jobs |-> jobs[j]]
  BY DEF TypeOK
<1>2. ASSUME NEW row, Update(i, row) PROVE jobs' = jobs
  <2>1. jobs' = [j \in DOMAIN jobs |-> jobs[j]]
    BY <1>2 DEF Update
  <2> QED
    BY <1>1, <2>1
<1>3. ASSUME Delete({i}) PROVE jobs' = jobs
  <2>1. DOMAIN jobs \ {i} = DOMAIN jobs
    OBVIOUS
  <2>2. jobs' = [j \in DOMAIN jobs |-> jobs[j]]
    BY <1>3, <2>1 DEF Delete
  <2> QED
    BY <1>1, <2>2
<1> QED
  BY <1>2, <1>3

\* A dispatch's INSERT, first or second, reported or lost.
LEMMA InsertStep ==
  ASSUME TypeOK, NEW d \in Requests, NEW clk \in now_ms,
         ~UniqueViolation(d.queue, d.unique_key), nextId <= MaxJobs,
         Insert(nextId, NewRow(d, clk)), nextId' = nextId + 1,
         UNCHANGED <<succeeded, purged, revived>>
  PROVE  Inserts
<1>1. /\ NewRow(d, clk) \in Row /\ NewRow(d, clk).failed_at = NULL
      /\ NewRow(d, clk).queue = d.queue
      /\ NewRow(d, clk).unique_key = d.unique_key
  BY ClockReading, NewRowType
<1>2. /\ DOMAIN jobs' = DOMAIN jobs \cup {nextId}
      /\ jobs'[nextId] = NewRow(d, clk)
      /\ \A j \in DOMAIN jobs : jobs'[j] = jobs[j]
  BY <1>1, InsertRow
<1>3. ~UniqueViolation(jobs'[nextId].queue, jobs'[nextId].unique_key)
  BY <1>1, <1>2
<1> QED
  BY <1>1, <1>2, <1>3 DEF Inserts, NoOperator

\* A claim's UPDATE, whether the worker learns of it or not.
LEMMA ClaimStep ==
  ASSUME TypeOK, NEW w \in Workers, NEW i \in Ids, NEW clk \in now_ms,
         ClaimRow(w, i, clk),
         UNCHANGED <<nextId, succeeded, purged, revived>>
  PROVE  /\ i \in DOMAIN jobs /\ Touches(i)
         /\ jobs'[i].attempts = jobs[i].attempts + 1
<1>1. /\ i \in DOMAIN jobs /\ DOMAIN jobs' = DOMAIN jobs
      /\ jobs'[i] = Attempted(jobs[i], clk)
      /\ \A j \in DOMAIN jobs \ {i} : jobs'[j] = jobs[j]
  BY ClaimRowEffect
<1>2. jobs[i] \in Row /\ jobs[i].attempts \in Nat
  BY <1>1 DEF TypeOK, Row
<1>3. /\ jobs'[i] \in Row
      /\ jobs'[i].queue = jobs[i].queue
      /\ jobs'[i].unique_key = jobs[i].unique_key
      /\ jobs'[i].failed_at = jobs[i].failed_at
      /\ jobs'[i].max_attempts = jobs[i].max_attempts
      /\ jobs'[i].attempts = jobs[i].attempts + 1
  BY <1>1, <1>2, ClockReading, AttemptedRow
<1>4. jobs'[i].attempts >= jobs[i].attempts
  BY <1>2, <1>3
<1> QED
  BY <1>1, <1>3, <1>4 DEF Touches, Rewrites

\* A row that an UPDATE leaves under its queue, key, verdict and counters.
LEMMA TouchStep ==
  ASSUME TypeOK, NEW i \in DOMAIN jobs, NEW row \in Row, Update(i, row),
         row.queue = jobs[i].queue, row.unique_key = jobs[i].unique_key,
         row.failed_at = jobs[i].failed_at,
         row.max_attempts = jobs[i].max_attempts,
         row.attempts = jobs[i].attempts,
         UNCHANGED <<nextId, succeeded, purged, revived>>
  PROVE  Touches(i)
<1>1. /\ DOMAIN jobs' = DOMAIN jobs /\ jobs'[i] = row
      /\ \A j \in DOMAIN jobs \ {i} : jobs'[j] = jobs[j]
  BY UpdateRow
<1>2. row.attempts >= jobs[i].attempts
  BY DEF TypeOK, Row
<1> QED
  BY <1>1, <1>2 DEF Touches, Rewrites

\* settle's statement, whether its answer arrives or not.
LEMMA SettleStep ==
  ASSUME TypeOK, NEW w \in Workers, SettleRow(w),
         UNCHANGED <<nextId, succeeded, purged, revived>>
  PROVE  TableStep
<1> DEFINE i == claimed[w].id
<1>1. CASE i \notin DOMAIN jobs
  <2>1. jobs' = jobs
    BY <1>1, SettleRowEffect, GoneRow
  <2> QED
    BY <2>1 DEF TableStep, Keeps, NoOperator, Reports
<1>2. CASE i \in DOMAIN jobs
  <2>1. jobs[i] \in Row
    BY <1>2 DEF TypeOK
  <2>2. CASE wpc[w] = "ok" /\ Delete({i})
    <3>1. /\ DOMAIN jobs' = DOMAIN jobs \ {i}
          /\ \A j \in DOMAIN jobs \ {i} : jobs'[j] = jobs[j]
      BY <2>2, DeleteRows
    <3>2. Completes(i)
      BY <1>2, <2>2, <3>1 DEF Completes, Drops
    <3> QED
      BY <1>2, <3>2 DEF TableStep
  <2>3. ASSUME NEW at \in Int, wpc[w] = "err",
               claimed[w].attempts >= claimed[w].max_attempts,
               Update(i, Buried(jobs[i], at))
        PROVE  TableStep
    <3>1. /\ DOMAIN jobs' = DOMAIN jobs
          /\ jobs'[i] = Buried(jobs[i], at)
          /\ \A j \in DOMAIN jobs \ {i} : jobs'[j] = jobs[j]
      BY <1>2, <2>1, <2>3, BuriedRow, UpdateRow
    <3>2. at # NULL
      BY QueueConstants DEF QueueConstants
    <3>3. Buries(i)
      BY <1>2, <2>1, <2>3, <3>1, <3>2, BuriedRow DEF Buries, Rewrites
    <3> QED
      BY <1>2, <3>3 DEF TableStep
  <2>4. ASSUME NEW at \in Int, Update(i, Rescheduled(jobs[i], at))
        PROVE  TableStep
    <3>1. Touches(i)
      BY <1>2, <2>1, <2>4, RescheduledRow, TouchStep
    <3> QED
      BY <1>2, <3>1 DEF TableStep
  <2> QED
    BY <2>2, <2>3, <2>4, SettleRowEffect
<1> QED
  BY <1>1, <1>2

LEMMA NextTable == TypeOK /\ [Next]_vars => TableStep
<1> SUFFICES ASSUME TypeOK, [Next]_vars PROVE TableStep
  OBVIOUS
<1>1. CASE UNCHANGED vars
  BY <1>1 DEF vars, TableStep, Keeps, NoOperator, Reports
<1>2. CASE Tick
  BY <1>2 DEF Tick, TableStep, Keeps, NoOperator, Reports
<1>3. ASSUME NEW k \in Pools, SignalStop(k) PROVE TableStep
  BY <1>3 DEF SignalStop, history, TableStep, Keeps, NoOperator, Reports
<1>4. ASSUME NEW age \in Ages, PurgeFailed(age) PROVE TableStep
  <2>1. PICK clk \in now_ms :
          LET old == {i \in DOMAIN jobs : ~Live(i) /\ jobs[i].failed_at <= clk - age}
          IN /\ Delete(old)
             /\ purged' = purged \cup old
             /\ UNCHANGED <<now, nextId, working, producing, stop, faults,
                            succeeded, revived, overrun>>
    BY <1>4 DEF PurgeFailed
  <2> DEFINE old == {i \in DOMAIN jobs : ~Live(i) /\ jobs[i].failed_at <= clk - age}
  <2>2. old \subseteq DOMAIN jobs /\ \A i \in old : ~Live(i)
    OBVIOUS
  <2>3. Delete(old) /\ purged' = purged \cup old
        /\ UNCHANGED <<nextId, succeeded, revived>>
    BY <2>1
  <2> HIDE DEF old
  <2>4. /\ DOMAIN jobs' = DOMAIN jobs \ old
        /\ \A j \in DOMAIN jobs \ old : jobs'[j] = jobs[j]
    BY <2>3, DeleteRows
  <2>5. Purges(old)
    BY <2>2, <2>3, <2>4 DEF Purges, Drops
  <2> QED
    BY <2>2, <2>5 DEF TableStep
<1>5. ASSUME NEW p \in Producers, NEW d \in Requests, Dispatch(p, d)
      PROVE  TableStep
  <2>1. CASE ~UniqueViolation(d.queue, d.unique_key)
    BY <1>5, <2>1, InsertStep DEF Dispatch, history, TableStep
  <2>2. CASE UniqueViolation(d.queue, d.unique_key)
    BY <1>5, <2>2 DEF Dispatch, history, TableStep, Keeps, NoOperator, Reports
  <2> QED
    BY <2>1, <2>2
<1>6. ASSUME NEW p \in Producers, FindUnique(p) PROVE TableStep
  BY <1>6 DEF FindUnique, history, TableStep, Keeps, NoOperator, Reports
<1>7. ASSUME NEW p \in Producers, Reinsert(p) PROVE TableStep
  <2> DEFINE d == request[p]
  <2>1. d \in Requests
    BY <1>7 DEF TypeOK, Reinsert
  <2>2. CASE ~UniqueViolation(d.queue, d.unique_key)
    BY <1>7, <2>1, <2>2, InsertStep DEF Reinsert, history, TableStep
  <2>3. CASE UniqueViolation(d.queue, d.unique_key)
    BY <1>7, <2>3 DEF Reinsert, history, TableStep, Keeps, NoOperator, Reports
  <2> QED
    BY <2>2, <2>3
<1>8. ASSUME NEW p \in Producers, NEW d \in Requests, DispatchError(p, d)
      PROVE  TableStep
  <2>1. UNCHANGED <<succeeded, purged, revived>>
    BY <1>8 DEF DispatchError, history
  <2>2. CASE UNCHANGED <<jobs, nextId>>
    BY <2>1, <2>2 DEF TableStep, Keeps, NoOperator, Reports
  <2>3. CASE ~UNCHANGED <<jobs, nextId>>
    BY <1>8, <2>1, <2>3, InsertStep DEF DispatchError, TableStep
  <2> QED
    BY <2>2, <2>3
<1>9. ASSUME NEW p \in Producers, NEW i \in Ids, NEW n \in Budgets, Retry(p, i, n)
      PROVE  TableStep
  <2>1. PICK clk \in now_ms : Update(i, Revived(jobs[i], n, clk))
    BY <1>9 DEF Retry
  <2>2. /\ i \in DOMAIN jobs /\ ~Live(i)
        /\ ~UniqueViolation(jobs[i].queue, jobs[i].unique_key)
        /\ revived' = revived \cup {i}
        /\ UNCHANGED <<nextId, succeeded, purged>>
    BY <1>9 DEF Retry
  <2>3. jobs[i] \in Row /\ n \in Nat /\ clk \in Int
    BY <2>2, ClockReading, QueueConstants DEF TypeOK, QueueConstants
  <2> DEFINE row == Revived(jobs[i], n, clk)
  <2>4. /\ row \in Row /\ row.failed_at = NULL
        /\ row.queue = jobs[i].queue /\ row.unique_key = jobs[i].unique_key
    BY <2>3, RevivedRow
  <2> HIDE DEF row
  <2>5. /\ DOMAIN jobs' = DOMAIN jobs /\ jobs'[i] = row
        /\ \A j \in DOMAIN jobs \ {i} : jobs'[j] = jobs[j]
    BY <2>1, <2>2, <2>4, UpdateRow DEF row
  <2>6. Revives(i)
    BY <2>2, <2>4, <2>5 DEF Revives, Rewrites
  <2> QED
    BY <2>2, <2>6 DEF TableStep
<1>10. ASSUME NEW w \in Workers, Claim(w) \/ ClaimError(w) PROVE TableStep
  <2>1. UNCHANGED <<nextId, succeeded, purged, revived>>
    BY <1>10 DEF Claim, ClaimError, history
  <2>2. CASE UNCHANGED jobs
    BY <2>1, <2>2 DEF TableStep, Keeps, NoOperator, Reports
  <2>3. ASSUME NEW clk \in now_ms, NEW i \in Ids, ClaimRow(w, i, clk)
        PROVE  TableStep
    BY <2>1, <2>3, ClaimStep DEF TableStep
  <2> QED
    BY <1>10, <2>2, <2>3 DEF Claim, ClaimError
<1>11. ASSUME NEW w \in Workers,
              \/ ClaimNothing(w) \/ Wait(w) \/ PollTimeout(w) \/ Exit(w)
              \/ Restart(w) \/ Crash(w)
       PROVE  TableStep
  BY <1>11 DEF ClaimNothing, Wait, PollTimeout, Exit, Restart, Crash, history,
     TableStep, Keeps, NoOperator, Reports
<1>12. ASSUME NEW w \in Workers, HandlerReturns(w) PROVE TableStep
  BY <1>12 DEF HandlerReturns, TableStep, Keeps, NoOperator, Reports
<1>13. ASSUME NEW w \in Workers, Heartbeat(w) PROVE TableStep
  <2> DEFINE i == claimed[w].id
  <2>1. PICK clk \in now_ms : Update(i, Leased(jobs[i], clk))
    BY <1>13 DEF Heartbeat
  <2>2. UNCHANGED <<nextId, succeeded, purged, revived>>
    BY <1>13 DEF Heartbeat, history
  <2>3. CASE i \in DOMAIN jobs
    <3>1. jobs[i] \in Row /\ clk \in Int
      BY <2>3, ClockReading DEF TypeOK
    <3>2. Touches(i)
      BY <2>1, <2>2, <2>3, <3>1, LeasedRow, TouchStep
    <3> QED
      BY <2>3, <3>2 DEF TableStep
  <2>4. CASE i \notin DOMAIN jobs
    <3>1. jobs' = jobs
      BY <2>1, <2>4, GoneRow
    <3> QED
      BY <2>2, <3>1 DEF TableStep, Keeps, NoOperator, Reports
  <2> QED
    BY <2>3, <2>4
<1>14. ASSUME NEW w \in Workers, Settle(w) \/ SettleError(w) PROVE TableStep
  <2>1. UNCHANGED <<nextId, succeeded, purged, revived>>
    BY <1>14 DEF Settle, SettleError, history
  <2>2. CASE UNCHANGED jobs
    BY <2>1, <2>2 DEF TableStep, Keeps, NoOperator, Reports
  <2>3. CASE SettleRow(w)
    BY <2>1, <2>3, SettleStep
  <2> QED
    BY <1>14, <2>2, <2>3 DEF Settle, SettleError
<1> QED
  BY <1>1, <1>2, <1>3, <1>4, <1>5, <1>6, <1>7, <1>8, <1>9, <1>10, <1>11, <1>12,
     <1>13, <1>14
     DEF Next, OperatorStep, WorkerStep, ProducerStep

(***************************************************************************)
(* What a step does to the jobs in hand.                                   *)
(***************************************************************************)

\* A worker that holds a job after the step held it before, or has just
\* claimed it with the counters its row now has; and a worker about to delete
\* its row has reported Ok for it.
HolderStep(w) ==
  /\ Holding(w)' =>
       \/ Holding(w) /\ claimed'[w] = claimed[w]
       \/ /\ wpc'[w] = "running"
          /\ claimed'[w].id \in DOMAIN jobs \cap DOMAIN jobs'
          /\ claimed'[w].attempts = jobs'[claimed'[w].id].attempts
          /\ claimed'[w].max_attempts = jobs'[claimed'[w].id].max_attempts
  /\ wpc'[w] = "ok" =>
       \/ wpc[w] = "ok" /\ claimed'[w] = claimed[w]
       \/ claimed'[w].id \in succeeded'

LEMMA NextHolders ==
  TypeOK /\ [Next]_vars => \A w \in Workers : HolderStep(w)
<1> SUFFICES ASSUME TypeOK, [Next]_vars, NEW v \in Workers PROVE HolderStep(v)
  OBVIOUS
<1> USE DEF HolderStep
<1>1. CASE UNCHANGED vars
  BY <1>1 DEF vars, Holding
<1>2. CASE Tick
  BY <1>2 DEF Tick, working, Holding
<1>3. CASE OperatorStep
  BY <1>3 DEF OperatorStep, SignalStop, PurgeFailed, working, Holding
<1>4. ASSUME NEW p \in Producers, ProducerStep(p) PROVE HolderStep(v)
  <2>1. claimed' = claimed
    BY <1>4 DEF ProducerStep, Dispatch, FindUnique, Reinsert, DispatchError, Retry,
       working
  <2>2. wpc' = wpc \/ wpc' = Notified(p)
    BY <1>4 DEF ProducerStep, Dispatch, FindUnique, Reinsert, DispatchError, Retry,
       working
  <2> QED
    BY <2>1, <2>2 DEF Notified, Holding
<1>5. ASSUME NEW w \in Workers, Claim(w) PROVE HolderStep(v)
  <2>1. PICK clk \in now_ms, i \in Ids :
          /\ ClaimRow(w, i, clk)
          /\ claimed' = [claimed EXCEPT ![w] =
                           [id |-> i, attempts |-> jobs[i].attempts + 1,
                            max_attempts |-> jobs[i].max_attempts]]
    BY <1>5 DEF Claim
  <2>2. wpc' = [wpc EXCEPT ![w] = "running"]
        /\ UNCHANGED <<nextId, succeeded, purged, revived>>
    BY <1>5 DEF Claim, history
  <2>3. /\ i \in DOMAIN jobs /\ i \in DOMAIN jobs'
        /\ jobs'[i].attempts = jobs[i].attempts + 1
        /\ jobs'[i].max_attempts = jobs[i].max_attempts
    BY <2>1, <2>2, ClaimStep DEF Touches, Rewrites
  <2> QED
    BY <2>1, <2>2, <2>3 DEF TypeOK, Holding
<1>6. ASSUME NEW w \in Workers, HandlerReturns(w) PROVE HolderStep(v)
  BY <1>6 DEF HandlerReturns, TypeOK, Holding
<1>7. ASSUME NEW w \in Workers, Settle(w) \/ SettleError(w) \/ Crash(w)
      PROVE  HolderStep(v)
  <2>1. /\ wpc'[w] \in {"poll", "sleep", "down"}
        /\ v # w => wpc'[v] = wpc[v] /\ claimed'[v] = claimed[v]
    BY <1>7 DEF Settle, SettleError, Crash, DropJob, TypeOK
  <2> QED
    BY <2>1 DEF Holding
<1>8. ASSUME NEW w \in Workers,
             \/ ClaimNothing(w) \/ ClaimError(w) \/ Wait(w) \/ PollTimeout(w)
             \/ Exit(w) \/ Restart(w) \/ Heartbeat(w)
      PROVE  HolderStep(v)
  BY <1>8 DEF ClaimNothing, ClaimError, Wait, PollTimeout, Exit, Restart, Heartbeat,
     TypeOK, Holding
<1> QED
  BY <1>1, <1>2, <1>3, <1>4, <1>5, <1>6, <1>7, <1>8 DEF Next, WorkerStep

(***************************************************************************)
(* The inductive invariant.                                                *)
(***************************************************************************)

\* The partial unique index: a key is live at most once in its queue.
OneLivePerKey ==
  \A i, j \in DOMAIN jobs :
    /\ Live(i) /\ Live(j)
    /\ jobs[i].queue = jobs[j].queue
    /\ jobs[i].unique_key = jobs[j].unique_key
    /\ jobs[i].unique_key # NULL
    => i = j

\* Only ids that were handed out are reported or purged, and a purged row is
\* gone for good.
HistoryTrue ==
  /\ succeeded \subseteq 1..(nextId - 1)
  /\ purged \subseteq (1..(nextId - 1)) \ DOMAIN jobs

\* A worker about to delete its row has reported Ok for it.
OkReported ==
  \A w \in Workers : wpc[w] = "ok" => claimed[w].id \in succeeded

\* Counters only grow: what a worker has noted of a row's counters when it
\* claimed it bounds them from below, until the operator revives the row.
CountersGrow ==
  \A w \in Workers :
    LET c == claimed[w]
    IN Holding(w) /\ c.id \in DOMAIN jobs /\ c.id \notin revived =>
         /\ jobs[c.id].max_attempts = c.max_attempts
         /\ jobs[c.id].attempts >= c.attempts

\* Without faults a row whose Ok was reported is about to be deleted by the
\* worker that reported it.
ReportedIsLeaving ==
  faults = 0 =>
    \A i \in (succeeded \cap DOMAIN jobs) \ overrun :
      \E w \in Workers : wpc[w] = "ok" /\ claimed[w].id = i

TableInv ==
  /\ OneLivePerKey /\ HistoryTrue /\ OkReported /\ CountersGrow
  /\ NoLostJob /\ DeadLetterExhausted /\ ReportedIsLeaving

LEMMA InitTable == Init => TableInv
BY DEF Init, TableInv, OneLivePerKey, HistoryTrue, OkReported, CountersGrow,
   NoLostJob, DeadLetterExhausted, ReportedIsLeaving, Holding

LEMMA NextOneLivePerKey ==
  TypeOK /\ OneLivePerKey /\ TableStep => OneLivePerKey'
<1> SUFFICES ASSUME TypeOK, OneLivePerKey, TableStep,
                    NEW i \in DOMAIN jobs', NEW j \in DOMAIN jobs',
                    Live(i)', Live(j)',
                    jobs'[i].queue = jobs'[j].queue,
                    jobs'[i].unique_key = jobs'[j].unique_key,
                    jobs'[i].unique_key # NULL
             PROVE  i = j
  BY DEF OneLivePerKey
<1> USE DEF Live
<1>1. CASE Keeps
  BY <1>1 DEF Keeps, OneLivePerKey
<1>2. CASE Inserts
  BY <1>2 DEF Inserts, OneLivePerKey, UniqueViolation
<1>3. ASSUME NEW k \in DOMAIN jobs, Touches(k) \/ Buries(k) PROVE i = j
  BY <1>3 DEF Touches, Buries, Rewrites, OneLivePerKey
<1>4. ASSUME NEW k \in DOMAIN jobs, Revives(k) PROVE i = j
  BY <1>4 DEF Revives, Rewrites, OneLivePerKey, UniqueViolation
<1>5. ASSUME NEW S, Drops(S) PROVE i = j
  BY <1>5 DEF Drops, OneLivePerKey
<1> QED
  BY <1>1, <1>2, <1>3, <1>4, <1>5 DEF TableStep, Completes, Purges

LEMMA NextHistoryTrue ==
  TypeOK /\ HistoryTrue /\ TableStep => HistoryTrue'
<1> SUFFICES ASSUME TypeOK, HistoryTrue, TableStep PROVE HistoryTrue'
  OBVIOUS
<1> USE DEF HistoryTrue
<1>1. nextId \in Nat /\ DOMAIN jobs \subseteq 1..(nextId - 1)
  BY QueueConstants DEF QueueConstants, TypeOK
<1>2. CASE Keeps
  <2>1. \A w \in Workers : wpc[w] = "running" => claimed[w].id \in 1..(nextId - 1)
    BY DEF TypeOK, Holding
  <2> QED
    BY <1>2, <2>1 DEF Keeps, NoOperator, Reports
<1>3. CASE Inserts
  BY <1>1, <1>3 DEF Inserts, NoOperator
<1>4. ASSUME NEW k \in DOMAIN jobs, Rewrites(k) PROVE HistoryTrue'
  BY <1>4 DEF Rewrites
<1>5. ASSUME NEW S, Drops(S), purged' = purged \/ purged' = purged \cup S
      PROVE  HistoryTrue'
  BY <1>1, <1>5 DEF Drops
<1> QED
  BY <1>2, <1>3, <1>4, <1>5
     DEF TableStep, Touches, Buries, Revives, Completes, Purges

\* A row that was not inserted just now was there before, as it is or as one
\* of the UPDATEs found it.
RowFateIs(i) ==
  \/ Inserts /\ i = nextId
  \/ i \in DOMAIN jobs /\ jobs'[i] = jobs[i]
  \/ i \in DOMAIN jobs /\ (Touches(i) \/ Buries(i) \/ Revives(i))

LEMMA RowFate ==
  ASSUME TableStep, NEW i \in DOMAIN jobs' PROVE RowFateIs(i)
<1> USE DEF RowFateIs
<1>1. CASE Keeps
  BY <1>1 DEF Keeps
<1>2. CASE Inserts
  BY <1>2 DEF Inserts
<1>3. ASSUME NEW k \in DOMAIN jobs, Touches(k) \/ Buries(k) \/ Revives(k)
      PROVE  RowFateIs(i)
  <2>1. Rewrites(k)
    BY <1>3 DEF Touches, Buries, Revives
  <2>2. i \in DOMAIN jobs /\ (i # k => jobs'[i] = jobs[i])
    BY <2>1 DEF Rewrites
  <2> QED
    BY <1>3, <2>2
<1>4. ASSUME NEW S, Drops(S) PROVE i \in DOMAIN jobs /\ jobs'[i] = jobs[i]
  BY <1>4 DEF Drops
<1> QED
  BY <1>1, <1>2, <1>3, <1>4 DEF TableStep, Completes, Purges

\* What was reported stays reported.
LEMMA SucceededGrows == TableStep => succeeded \subseteq succeeded'
BY DEF TableStep, Keeps, Reports, Inserts, Touches, Buries, Revives, Rewrites,
   Completes, Purges, Drops

LEMMA RevivedGrows == TableStep => revived \subseteq revived'
BY DEF TableStep, Keeps, NoOperator, Inserts, Touches, Buries, Revives, Completes,
   Purges, Drops

LEMMA NextOkReported ==
  ASSUME TypeOK, OkReported, TableStep, \A w \in Workers : HolderStep(w)
  PROVE  OkReported'
BY SucceededGrows DEF OkReported, HolderStep

LEMMA NextNoLostJob ==
  TypeOK /\ OkReported /\ NoLostJob /\ TableStep => NoLostJob'
<1> SUFFICES ASSUME TypeOK, OkReported, NoLostJob, TableStep PROVE NoLostJob'
  OBVIOUS
<1>1. nextId \in Nat
  BY QueueConstants DEF QueueConstants, TypeOK
<1>2. CASE Keeps
  BY <1>2 DEF Keeps, NoOperator, Reports, NoLostJob
<1>3. CASE Inserts
  <2>1. 1..(nextId' - 1) = 1..(nextId - 1) \cup {nextId}
    BY <1>1, <1>3 DEF Inserts, TypeOK
  <2> QED
    BY <1>3, <2>1 DEF Inserts, NoOperator, NoLostJob
<1>4. ASSUME NEW k \in DOMAIN jobs, Rewrites(k) PROVE NoLostJob'
  BY <1>4 DEF Rewrites, NoLostJob
<1>5. ASSUME NEW k \in DOMAIN jobs, Completes(k) PROVE NoLostJob'
  BY <1>5 DEF Completes, Drops, OkReported, NoLostJob
<1>6. ASSUME NEW S \in SUBSET DOMAIN jobs, Purges(S) PROVE NoLostJob'
  BY <1>6 DEF Purges, Drops, NoLostJob
<1> QED
  BY <1>2, <1>3, <1>4, <1>5, <1>6 DEF TableStep, Touches, Buries, Revives

\* The counters of every row are numbers.
LEMMA RowCounters ==
  ASSUME TypeOK, NEW i \in DOMAIN jobs
  PROVE  jobs[i].attempts \in Nat /\ jobs[i].max_attempts \in Nat
BY DEF TypeOK, Row

LEMMA NextCountersGrow ==
  ASSUME TypeOK, TypeOK', CountersGrow, TableStep,
         \A w \in Workers : HolderStep(w)
  PROVE  CountersGrow'
<1> SUFFICES ASSUME NEW w \in Workers, Holding(w)',
                    claimed'[w].id \in DOMAIN jobs', claimed'[w].id \notin revived'
             PROVE  LET c == claimed'[w]
                    IN /\ jobs'[c.id].max_attempts = c.max_attempts
                       /\ jobs'[c.id].attempts >= c.attempts
  BY DEF CountersGrow
<1> DEFINE c == claimed'[w]
<1>1. HolderStep(w)
  OBVIOUS
<1>2. CASE /\ c.id \in DOMAIN jobs \cap DOMAIN jobs'
           /\ c.attempts = jobs'[c.id].attempts
           /\ c.max_attempts = jobs'[c.id].max_attempts
  <2>1. jobs'[c.id].attempts \in Nat
    BY DEF TypeOK, Row
  <2> QED
    BY <1>2, <2>1
<1>3. CASE Holding(w) /\ claimed'[w] = claimed[w]
  <2>1. c = claimed[w] /\ c.id \in 1..(nextId - 1) /\ c.attempts \in Nat
    BY <1>3 DEF TypeOK, Claimed
  <2>2. c.id # nextId
    BY <2>1, QueueConstants DEF QueueConstants, TypeOK
  <2>3. revived \subseteq revived'
    BY RevivedGrows
  <2>4. /\ c.id \in DOMAIN jobs
        /\ jobs'[c.id] = jobs[c.id] \/ Touches(c.id) \/ Buries(c.id)
    <3>1. ~Revives(c.id)
      BY DEF Revives
    <3> QED
      BY <2>2, <3>1, RowFate DEF RowFateIs
  <2>5. /\ jobs[c.id].max_attempts = c.max_attempts
        /\ jobs[c.id].attempts >= c.attempts
    BY <1>3, <2>1, <2>3, <2>4 DEF CountersGrow
  <2>6. /\ jobs'[c.id].max_attempts = jobs[c.id].max_attempts
        /\ jobs'[c.id].attempts >= jobs[c.id].attempts
    BY <2>4, RowCounters DEF Touches, Buries
  <2>7. jobs[c.id].attempts \in Nat /\ jobs'[c.id].attempts \in Nat
    BY <2>4, RowCounters DEF TypeOK, Row
  <2> QED
    BY <2>1, <2>5, <2>6, <2>7
<1> QED
  BY <1>1, <1>2, <1>3 DEF HolderStep

LEMMA NextDeadLetter ==
  TypeOK /\ CountersGrow /\ DeadLetterExhausted /\ TableStep
    => DeadLetterExhausted'
<1> SUFFICES ASSUME TypeOK, CountersGrow, DeadLetterExhausted, TableStep,
                    NEW i \in DOMAIN jobs', jobs'[i].failed_at # NULL,
                    i \notin revived'
             PROVE  jobs'[i].attempts >= jobs'[i].max_attempts
  BY DEF DeadLetterExhausted
<1>1. ASSUME i \in DOMAIN jobs, jobs'[i] = jobs[i], i \notin revived
      PROVE  jobs'[i].attempts >= jobs'[i].max_attempts
  BY <1>1 DEF DeadLetterExhausted
<1>2. ~Inserts \/ i # nextId
  BY DEF Inserts
<1>3. CASE Touches(i)
  <2>1. /\ jobs[i].failed_at # NULL /\ i \notin revived /\ i \in DOMAIN jobs
        /\ jobs'[i].max_attempts = jobs[i].max_attempts
        /\ jobs'[i].attempts >= jobs[i].attempts
        /\ jobs'[i].attempts \in Nat
    BY <1>3 DEF Touches, Rewrites, Row
  <2>2. jobs[i].attempts >= jobs[i].max_attempts
    BY <2>1 DEF DeadLetterExhausted
  <2> QED
    BY <2>1, <2>2, RowCounters
<1>4. CASE Buries(i)
  <2>1. PICK w \in Workers : /\ wpc[w] = "err" /\ claimed[w].id = i
                             /\ claimed[w].attempts >= claimed[w].max_attempts
    BY <1>4 DEF Buries
  <2>2. /\ i \notin revived /\ i \in DOMAIN jobs
        /\ jobs'[i].max_attempts = jobs[i].max_attempts
        /\ jobs'[i].attempts = jobs[i].attempts
    BY <1>4 DEF Buries, Rewrites
  <2>3. /\ jobs[i].max_attempts = claimed[w].max_attempts
        /\ jobs[i].attempts >= claimed[w].attempts
    BY <2>1, <2>2 DEF CountersGrow, Holding
  <2>4. claimed[w].attempts \in Nat /\ claimed[w].max_attempts \in Nat
    BY DEF TypeOK, Claimed
  <2> QED
    BY <2>1, <2>2, <2>3, <2>4, RowCounters
<1>5. ~Revives(i)
  BY DEF Revives
<1>6. revived \subseteq revived'
  BY RevivedGrows
<1> QED
  BY <1>1, <1>2, <1>3, <1>4, <1>5, <1>6, RowFate DEF RowFateIs

\* A worker that has reported Ok keeps its job until the row is gone, unless
\* a fault comes between; and what is newly reported is in such hands.
ReporterStep ==
  /\ faults' = 0 => faults = 0
  /\ overrun \subseteq overrun'
  /\ faults' = 0 =>
       \A v \in Workers :
         wpc[v] = "ok" => \/ wpc'[v] = "ok" /\ claimed'[v] = claimed[v]
                          \/ claimed[v].id \notin DOMAIN jobs'
  /\ \A i \in succeeded' \ succeeded :
       \E v \in Workers : wpc'[v] = "ok" /\ claimed'[v].id = i

LEMMA NextReporters == TypeOK /\ [Next]_vars => ReporterStep
<1> SUFFICES ASSUME TypeOK, [Next]_vars PROVE ReporterStep
  OBVIOUS
<1> USE DEF ReporterStep
<1>1. CASE UNCHANGED vars
  BY <1>1 DEF vars
<1>2. CASE Tick
  BY <1>2 DEF Tick, working
<1>3. CASE OperatorStep
  BY <1>3 DEF OperatorStep, SignalStop, PurgeFailed, working, history
<1>4. ASSUME NEW p \in Producers, ProducerStep(p) PROVE ReporterStep
  <2>1. UNCHANGED <<claimed, succeeded, overrun>>
    BY <1>4 DEF ProducerStep, Dispatch, FindUnique, Reinsert, DispatchError, Retry,
       working, history
  <2>2. \A v \in Workers : wpc[v] = "ok" => wpc'[v] = "ok"
    BY <1>4 DEF ProducerStep, Dispatch, FindUnique, Reinsert, DispatchError, Retry,
       working, Notified
  <2>3. faults' = faults \/ Fault
    BY <1>4 DEF ProducerStep, Dispatch, FindUnique, Reinsert, DispatchError, Retry
  <2>4. faults' = 0 => faults = 0
    BY <2>3 DEF Fault, TypeOK
  <2> QED
    BY <2>1, <2>2, <2>4
<1>5. ASSUME NEW w \in Workers,
             ClaimError(w) \/ SettleError(w) \/ Crash(w)
      PROVE  ReporterStep
  <2>1. Fault /\ UNCHANGED <<succeeded, overrun>>
    BY <1>5 DEF ClaimError, SettleError, Crash, history
  <2>2. faults' # 0
    BY <2>1 DEF Fault, TypeOK
  <2> QED
    BY <2>1, <2>2
<1>6. ASSUME NEW w \in Workers, Settle(w) PROVE ReporterStep
  <2>1. /\ UNCHANGED <<faults, succeeded, overrun>>
        /\ \A v \in Workers \ {w} : wpc'[v] = wpc[v] /\ claimed'[v] = claimed[v]
    BY <1>6 DEF Settle, DropJob, history, TypeOK
  <2>2. wpc[w] = "ok" => claimed[w].id \notin DOMAIN jobs'
    <3> SUFFICES ASSUME wpc[w] = "ok" PROVE claimed[w].id \notin DOMAIN jobs'
      OBVIOUS
    <3>1. Delete({claimed[w].id})
      BY <1>6, SettleRowEffect DEF Settle
    <3> DEFINE S == {claimed[w].id}
    <3>2. DOMAIN jobs' = DOMAIN jobs \ S
      BY <3>1, DeleteRows
    <3> QED
      BY <3>2
  <2> QED
    BY <2>1, <2>2
<1>7. ASSUME NEW w \in Workers, HandlerReturns(w) PROVE ReporterStep
  BY <1>7 DEF HandlerReturns, TypeOK
<1>8. ASSUME NEW w \in Workers,
             \/ Claim(w) \/ ClaimNothing(w) \/ Wait(w) \/ PollTimeout(w)
             \/ Heartbeat(w) \/ Exit(w) \/ Restart(w)
      PROVE  ReporterStep
  BY <1>8 DEF Claim, ClaimNothing, Wait, PollTimeout, Heartbeat, Exit, Restart,
     TypeOK, history
<1> QED
  BY <1>1, <1>2, <1>3, <1>4, <1>5, <1>6, <1>7, <1>8 DEF Next, WorkerStep

LEMMA NextReportedIsLeaving ==
  ASSUME TypeOK, HistoryTrue, ReportedIsLeaving, TableStep, ReporterStep
  PROVE  ReportedIsLeaving'
<1> SUFFICES ASSUME faults' = 0,
                    NEW i \in (succeeded' \cap DOMAIN jobs') \ overrun'
             PROVE  \E w \in Workers : wpc'[w] = "ok" /\ claimed'[w].id = i
  BY DEF ReportedIsLeaving
<1>1. CASE i \notin succeeded
  BY <1>1 DEF ReporterStep
<1>2. CASE i \in succeeded
  <2>1. i # nextId
    BY <1>2, QueueConstants DEF QueueConstants, HistoryTrue, TypeOK
  <2>2. i \in DOMAIN jobs
    BY <2>1, RowFate DEF RowFateIs
  <2>3. i \notin overrun /\ faults = 0
    BY DEF ReporterStep
  <2>4. PICK w \in Workers : wpc[w] = "ok" /\ claimed[w].id = i
    BY <1>2, <2>2, <2>3 DEF ReportedIsLeaving
  <2> QED
    BY <2>4 DEF ReporterStep
<1> QED
  BY <1>1, <1>2

LEMMA NextTableInv ==
  TypeOK /\ TypeOK' /\ TableInv /\ [Next]_vars => TableInv'
<1> SUFFICES ASSUME TypeOK, TypeOK', TableInv, [Next]_vars PROVE TableInv'
  OBVIOUS
<1>1. TableStep /\ ReporterStep /\ \A w \in Workers : HolderStep(w)
  BY NextTable, NextReporters, NextHolders
<1>2. /\ OneLivePerKey /\ HistoryTrue /\ OkReported /\ CountersGrow
      /\ NoLostJob /\ DeadLetterExhausted /\ ReportedIsLeaving
  BY DEF TableInv
<1>3. OneLivePerKey' /\ HistoryTrue'
  BY <1>1, <1>2, NextOneLivePerKey, NextHistoryTrue
<1>4. OkReported' /\ CountersGrow'
  BY <1>1, <1>2, NextOkReported, NextCountersGrow
<1>5. NoLostJob' /\ DeadLetterExhausted'
  BY <1>1, <1>2, NextNoLostJob, NextDeadLetter
<1>6. ReportedIsLeaving'
  BY <1>1, <1>2, NextReportedIsLeaving
<1> QED
  BY <1>3, <1>4, <1>5, <1>6 DEF TableInv

\* Two holders inside their windows own live rows, and those have different
\* keys.
LEMMA InFlight == LeaseHeld /\ OneLivePerKey => InFlightUnique
BY DEF LeaseHeld, OneLivePerKey, InFlightUnique

\* A worker that runs a reported job inside its window would share it with
\* the worker that reported it.
LEMMA NotAgain ==
  LeaseHeld /\ Exclusive /\ ReportedIsLeaving => RunsOnce
<1> SUFFICES ASSUME LeaseHeld, Exclusive, ReportedIsLeaving,
                    NEW w \in Workers, wpc[w] = "running",
                    claimed[w].id \in succeeded, faults = 0,
                    claimed[w].id \notin overrun
             PROVE  FALSE
  BY DEF RunsOnce
<1>1. claimed[w].id \in DOMAIN jobs
  BY DEF LeaseHeld, Holding
<1>2. PICK v \in Workers : wpc[v] = "ok" /\ claimed[v].id = claimed[w].id
  BY <1>1 DEF ReportedIsLeaving
<1> QED
  BY <1>2 DEF Exclusive, Holding

\* What the queue keeps of every state it reaches.
QueueInv == TypeOK /\ LeaseInv /\ TableInv

LEMMA QueueInvariant == Spec => []QueueInv
<1>1. Init => QueueInv
  BY InitTypeOK, InitLease, InitTable DEF QueueInv
<1>2. QueueInv /\ [Next]_vars => QueueInv'
  BY NextTypeOK, NextLease, NextTableInv DEF QueueInv
<1> QED
  BY <1>1, <1>2, PTL DEF Spec

\* Inside its window a worker owns its row; without faults a reported job is
\* not run again; and a job is set aside only with its budget used up.
THEOREM Leases == Spec => []LeasesHold
<1>1. QueueInv => LeasesHold
  BY NotAgain DEF QueueInv, LeaseInv, TableInv, LeasesHold
<1> QED
  BY <1>1, QueueInvariant, PTL

\* No dispatched job is lost, and one dedupe key is in one pair of hands.
THEOREM Durability == Spec => []NothingLost
<1>1. QueueInv => NothingLost
  BY InFlight DEF QueueInv, LeaseInv, TableInv, NothingLost
<1> QED
  BY <1>1, QueueInvariant, PTL

(***************************************************************************)
(* Queue implements JobLifecycle.                                          *)
(***************************************************************************)

\* A queue and a key that break no index occupy a slot no live row occupies.
LEMMA FreeSlot ==
  ASSUME TypeOK, NEW row \in Row,
         ~UniqueViolation(row.queue, row.unique_key)
  PROVE  Lifecycle!Free(SlotOf(row))
<1> SUFFICES ASSUME row.unique_key # NULL, NEW j \in Ids, StatusBar[j] = "live"
             PROVE  SlotBar[j] # <<row.queue, row.unique_key>> \/ SlotOf(row) = NULL
  BY DEF Lifecycle!Free, SlotOf
<1>1. j \in DOMAIN jobs /\ Live(j)
  BY DEF StatusBar
<1>2. ~(jobs[j].queue = row.queue /\ jobs[j].unique_key = row.unique_key)
  BY <1>1 DEF UniqueViolation
<1>3. SlotBar[j] = SlotOf(jobs[j])
  BY <1>1 DEF SlotBar
<1> QED
  BY <1>2, <1>3 DEF SlotOf

LEMMA InitLifecycle == Init => Lifecycle!Init
BY QueueConstants
   DEF Init, history, Lifecycle!Init, StatusBar, SlotBar, Ids, QueueConstants

\* Every step of the table is a step of JobLifecycle or changes nothing it
\* sees.
LEMMA TableStepRefines ==
  ASSUME TypeOK, HistoryTrue, OkReported, TableStep
  PROVE  [Lifecycle!Next]_(Lifecycle!vars)
<1> USE DEF Lifecycle!vars, Lifecycle!Next
<1>0. /\ DOMAIN jobs \subseteq Ids /\ \A i \in DOMAIN jobs : i < nextId
      /\ nextId \in Nat \ {0} /\ jobs \in [DOMAIN jobs -> Row]
      /\ \A w \in Workers : wpc[w] = "running" =>
           claimed[w].id \in Ids /\ claimed[w].id < nextId
  BY QueueConstants DEF QueueConstants, TypeOK, Ids, Holding
<1>1. CASE Keeps
  <2>1. StatusBar' = StatusBar /\ SlotBar' = SlotBar
    BY <1>1 DEF Keeps, NoOperator, StatusBar, SlotBar, Live
  <2>2. ASSUME NEW w \in Workers, wpc[w] = "running",
               succeeded' = succeeded \cup {claimed[w].id}
        PROVE  Lifecycle!Succeed(claimed[w].id) /\ claimed[w].id \in Ids
    <3>1. StatusBar[claimed[w].id] # "none"
      BY <1>0, <2>2 DEF StatusBar, Ids
    <3> QED
      BY <1>0, <2>1, <2>2, <3>1 DEF Lifecycle!Succeed
  <2> QED
    BY <1>1, <2>1, <2>2 DEF Keeps, Reports
<1>2. CASE Inserts
  <2> DEFINE row == jobs'[nextId]
  <2>1. nextId \in Ids /\ row \in Row
    BY <1>0, <1>2, QueueConstants DEF Inserts, Ids, QueueConstants
  <2>2. SlotOf(row) \in (Queues \X Keys) \cup {NULL}
    BY <2>1 DEF SlotOf, Row
  <2>3. Lifecycle!Free(SlotOf(row))
    BY <1>2, <2>1, FreeSlot DEF Inserts
  <2>4. StatusBar' = [StatusBar EXCEPT ![nextId] = "live"]
    <3>1. \A j \in Ids \ {nextId} : StatusBar'[j] = StatusBar[j]
      <4> TAKE j \in Ids \ {nextId}
      <4>1. /\ j \in DOMAIN jobs' <=> j \in DOMAIN jobs
            /\ j \in DOMAIN jobs => jobs'[j] = jobs[j]
            /\ j >= nextId' <=> j >= nextId
            /\ purged' = purged
        BY <1>0, <1>2 DEF Inserts, NoOperator, Ids
      <4> QED
        BY <4>1 DEF StatusBar, Live
    <3>2. StatusBar'[nextId] = "live"
      BY <1>2, <2>1 DEF Inserts, StatusBar, Live
    <3> QED
      BY <2>1, <3>1, <3>2 DEF StatusBar
  <2>5. SlotBar' = [SlotBar EXCEPT ![nextId] = SlotOf(row)]
    BY <1>0, <1>2, <2>1 DEF Inserts, SlotBar
  <2>6. StatusBar[nextId] = "none" /\ \A j \in Ids : j < nextId => StatusBar[j] # "none"
    BY <1>0, <2>1 DEF StatusBar, Ids
  <2>7. Lifecycle!Enqueue(nextId, SlotOf(row))
    BY <1>2, <2>3, <2>4, <2>5, <2>6 DEF Lifecycle!Enqueue, Inserts
  <2> QED
    BY <2>1, <2>2, <2>7
<1>3. ASSUME NEW i \in DOMAIN jobs, Rewrites(i)
      PROVE  /\ i \in Ids /\ SlotBar' = SlotBar /\ succeeded' = succeeded
             /\ \A j \in Ids \ {i} : StatusBar'[j] = StatusBar[j]
             /\ StatusBar[i] = (IF Live(i) THEN "live" ELSE "dead")
             /\ StatusBar'[i] = (IF Live(i)' THEN "live" ELSE "dead")
  BY <1>0, <1>3 DEF Rewrites, StatusBar, SlotBar, SlotOf, Live
<1>4. ASSUME NEW i \in DOMAIN jobs, Touches(i)
      PROVE  StatusBar' = StatusBar /\ SlotBar' = SlotBar /\ succeeded' = succeeded
  <2>1. \A j \in Ids : StatusBar'[j] = StatusBar[j]
    BY <1>3, <1>4 DEF Touches, Live
  <2>2. StatusBar' = StatusBar
    BY <2>1 DEF StatusBar
  <2> QED
    BY <1>3, <1>4, <2>2 DEF Touches
<1>5. ASSUME NEW i \in DOMAIN jobs, Buries(i)
      PROVE  \/ Lifecycle!DeadLetter(i)
             \/ StatusBar' = StatusBar /\ SlotBar' = SlotBar /\ succeeded' = succeeded
  <2>1. StatusBar' = [StatusBar EXCEPT ![i] = "dead"]
    BY <1>3, <1>5 DEF Buries, Live, StatusBar
  <2>2. CASE Live(i)
    BY <1>3, <1>5, <2>1, <2>2 DEF Buries, Lifecycle!DeadLetter
  <2>3. CASE ~Live(i)
    <3>1. StatusBar' = StatusBar
      BY <1>3, <1>5, <2>1, <2>3 DEF Buries, StatusBar
    <3> QED
      BY <1>3, <1>5, <3>1 DEF Buries
  <2> QED
    BY <2>2, <2>3
<1>6. ASSUME NEW i \in DOMAIN jobs, Revives(i) PROVE Lifecycle!Revive(i)
  <2>1. StatusBar' = [StatusBar EXCEPT ![i] = "live"] /\ StatusBar[i] = "dead"
    BY <1>3, <1>6 DEF Revives, Live, StatusBar
  <2>2. Lifecycle!Free(SlotBar[i])
    BY <1>0, <1>6, FreeSlot DEF Revives, SlotBar
  <2> QED
    BY <1>3, <1>6, <2>1, <2>2 DEF Lifecycle!Revive, Revives
<1>7. ASSUME NEW S \in SUBSET DOMAIN jobs, Drops(S)
      PROVE  /\ succeeded' = succeeded /\ S \subseteq Ids
             /\ SlotBar' = [i \in Ids |-> IF i \in S THEN NULL ELSE SlotBar[i]]
  BY <1>0, <1>7 DEF Drops, SlotBar
<1>8. ASSUME NEW i \in DOMAIN jobs, Completes(i) PROVE Lifecycle!Complete(i)
  <2>1. i \in succeeded
    BY <1>8 DEF Completes, OkReported
  <2>2. StatusBar[i] \in {"live", "dead"}
    BY <1>0 DEF StatusBar
  <2>3. StatusBar' = [StatusBar EXCEPT ![i] = "done"]
    <3>1. /\ i \notin purged /\ i \in Ids /\ ~(i >= nextId)
          /\ purged' = purged /\ nextId' = nextId
          /\ DOMAIN jobs' = DOMAIN jobs \ {i}
          /\ \A j \in DOMAIN jobs \ {i} : jobs'[j] = jobs[j]
      BY <1>0, <1>8 DEF Completes, Drops, HistoryTrue, Ids
    <3>2. StatusBar'[i] = "done"
      BY <3>1 DEF StatusBar
    <3>3. \A j \in Ids \ {i} : StatusBar'[j] = StatusBar[j]
      BY <3>1 DEF StatusBar, Live
    <3> QED
      BY <3>1, <3>2, <3>3 DEF StatusBar
  <2>4. succeeded' = succeeded /\ SlotBar' = [SlotBar EXCEPT ![i] = NULL]
    BY <1>0, <1>8 DEF Completes, Drops, SlotBar
  <2> QED
    BY <2>1, <2>2, <2>3, <2>4 DEF Lifecycle!Complete
<1>9. ASSUME NEW S \in SUBSET DOMAIN jobs, Purges(S) PROVE Lifecycle!Purge(S)
  <2>1. \A i \in S : StatusBar[i] = "dead"
    BY <1>0, <1>9 DEF Purges, StatusBar
  <2>2. StatusBar' = [i \in Ids |-> IF i \in S THEN "purged" ELSE StatusBar[i]]
    BY <1>0, <1>9 DEF Purges, Drops, StatusBar, Live, Ids
  <2> QED
    BY <1>7, <1>9, <2>1, <2>2 DEF Lifecycle!Purge, Purges
<1>10. ASSUME NEW i \in DOMAIN jobs,
              Touches(i) \/ Buries(i) \/ Revives(i) \/ Completes(i)
       PROVE  [Lifecycle!Next]_(Lifecycle!vars)
  BY <1>0, <1>4, <1>5, <1>6, <1>8, <1>10
<1>11. ASSUME NEW S \in SUBSET DOMAIN jobs, Purges(S)
       PROVE  [Lifecycle!Next]_(Lifecycle!vars)
  <2>1. S \in SUBSET Ids
    BY <1>0
  <2> QED
    BY <1>9, <1>11, <2>1
<1> QED
  BY <1>1, <1>2, <1>10, <1>11 DEF TableStep

\* The queue implements JobLifecycle, whatever interleaving of statements,
\* crashes, store errors, late settles and operator calls.
THEOREM Refinement == Spec => RefinesLifecycle
<1>1. QueueInv /\ [Next]_vars => [Lifecycle!Next]_(Lifecycle!vars)
  BY NextTable, TableStepRefines DEF QueueInv, TableInv
<1> QED
  BY <1>1, QueueInvariant, InitLifecycle, PTL DEF Spec, RefinesLifecycle, Lifecycle!Spec

=============================================================================
