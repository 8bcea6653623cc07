------------------------------ MODULE MCEvents ------------------------------
(***************************************************************************)
(* The runs of the event store and of the projections, and what is proved  *)
(* of them.  A behaviour takes the steps of one, chosen by part; the other *)
(* keeps still.                                                            *)
(***************************************************************************)
EXTENDS Projections, TLC, TLAPS

CONSTANTS Parts, Writers, Streams, MaxRetries, Sizes, StoreCalls, StoreFaults

\* The component whose steps a behaviour takes.
VARIABLE part

VARIABLES dialect, log, storeLock, storeWpc, call, calls, result, snap, cur,
          head, attempt, storeFaults

Off == "off"

\* One stream: it must be new (0), or may have any version (-1).
MCRequests == [stream : {"s"}, expected : {-1, 0}, n : {0, 2}]
MCMatches(q, v) == q.expected \in {-1, v}

\* The event store, with what is proved about it.
Store == INSTANCE EventStoreProofs
  WITH MaxCalls <- StoreCalls, MaxFaults <- StoreFaults,
       lock <- storeLock, wpc <- storeWpc, faults <- storeFaults

storeVars == <<dialect, log, storeLock, storeWpc, call, calls, result, snap,
               cur, head, attempt, storeFaults>>
allVars == <<part, vars, storeVars>>

MCInit ==
  /\ part \in Parts
  /\ Init
  /\ Store!Init /\ (part # "store" => dialect = "Postgres")

\* The components that are not under test keep still.
Rest ==
  /\ part' = part
  /\ part # "projections" => UNCHANGED vars
  /\ part # "store" => UNCHANGED storeVars

ProjectionsStep == part = "projections" /\ Next /\ Rest
StoreStep == part = "store" /\ Store!Next /\ Rest

MCNext ==
  \/ ProjectionsStep \/ StoreStep

MCSpec == MCInit /\ [][MCNext]_allVars

ASSUME StoreAssumption == Store!StoreConstants

Symmetric == Permutations(Writers) \cup Permutations(Streams)

(***************************************************************************)
(* What the runs check.                                                    *)
(***************************************************************************)

\* The log two writers share is a log: positions and versions have no gaps and
\* follow each other, an append that answers Ok stands there once and one that
\* reports a conflict is not there, and a writer that fails under the advisory
\* lock does not stop the others.
LogHolds ==
  part = "store" =>
    /\ Store!TypeOK /\ Store!GapFree /\ Store!VersionsFollowPositions
    /\ Store!AppendHonest /\ Store!SomeoneProceeds

\* Each append is atomic and truthful although it is six statements, other
\* transactions run between them, snapshots may be stale and answers lost.
RefinesEventLog == Store!RefinesEventLog

\* The crate's comments say that a position race "is retried internally with
\* fresh positions" and that on SQLite one writer is admitted at a time: with
\* no fault an append never fails for another append.
RaceRetried == part = "store" => Store!RaceRetried

(***************************************************************************)
(* Exactly-once for any number of pods, projections, events and faults, as *)
(* long as a read model is rebuilt only while its workers are stopped.     *)
(*                                                                         *)
(* ExactlyOnce is not inductive: a COMMIT keeps it only because the worker *)
(* still holds the row whose position it has read, and because what it has *)
(* read of the log is still the log's continuation from there.             *)
(***************************************************************************)

Ev == [stream : {q.stream : q \in Requests}, call : Calls]

Types ==
  /\ events \in Seq(Ev)
  /\ requests \in [Calls -> Requests \cup {NONE}]
  /\ position \in [Names -> Nat \cup {NONE}]
  /\ model \in [Names -> Seq(Ev)]
  /\ lock \in [Names -> Workers \cup {NONE}]
  /\ wpc \in [Workers -> {"down", "loop", "claim", "waiting", "exited",
                          "position", "events", "handle"}]
  /\ from \in [Workers -> Nat]
  /\ batch \in [Workers -> Seq(Ev)]
  /\ handled \in [Workers -> Nat]
  /\ rebuilding \in [Names -> BOOLEAN]

\* What a worker inside its transaction may rely on.
TickInv ==
  \A w \in Workers :
    /\ wpc[w] \in InTx => lock[w[2]] = w /\ position[w[2]] \in Nat
    /\ wpc[w] \in {"events", "handle"} => from[w] = position[w[2]]
    /\ wpc[w] = "handle" =>
         /\ from[w] + Len(batch[w]) <= Len(events)
         /\ batch[w] = SubSeq(events, from[w] + 1, from[w] + Len(batch[w]))

RowInv ==
  \A n \in Names :
    /\ position[n] # NONE => position[n] <= Len(events)
    /\ rebuilding[n] => model[n] = <<>> /\ \A w \in Workers : wpc[w] = "down"
    /\ ~rebuilding[n] =>
         model[n] = IF position[n] = NONE THEN <<>> ELSE SubSeq(events, 1, position[n])

IInv == Types /\ TickInv /\ RowInv

\* A prefix of a log is untouched by what is appended to it.
LEMMA PrefixStays ==
  ASSUME NEW S, NEW s \in Seq(S), NEW t \in Seq(S), NEW a \in Nat, NEW b \in Nat,
         b <= Len(s)
  PROVE  SubSeq(s \o t, a + 1, b) = SubSeq(s, a + 1, b)
  OBVIOUS

\* Two consecutive pieces of a log are one piece.
LEMMA PiecesJoin ==
  ASSUME NEW S, NEW s \in Seq(S), NEW a \in Nat, NEW b \in Nat, a <= b, b <= Len(s)
  PROVE  SubSeq(s, 1, a) \o SubSeq(s, a + 1, b) = SubSeq(s, 1, b)
  OBVIOUS

\* The length of a piece of a log.
LEMMA PieceLength ==
  ASSUME NEW S, NEW s \in Seq(S), NEW a \in Nat, NEW b \in Nat, a <= b, b <= Len(s)
  PROVE  /\ SubSeq(s, a + 1, b) \in Seq(S)
         /\ Len(SubSeq(s, a + 1, b)) = b - a
  OBVIOUS

\* The invariant holds before anything has happened.
LEMMA InitIInv == Init => IInv
  BY DEF Init, Log!Init, IInv, Types, TickInv, RowInv, Workers, InTx

\* An append leaves what has been read or applied of the log as it was.
LEMMA LogKeeps == IInv /\ LogStep => IInv'
<1> SUFFICES ASSUME IInv, LogStep PROVE IInv'
  OBVIOUS
<1> USE DEF IInv
<1>1. UNCHANGED <<position, model, lock, wpc, from, batch, handled, rebuilding>>
  BY DEF LogStep, rowVars, tickVars
<1>2. /\ requests' \in [Calls -> Requests \cup {NONE}]
      /\ \E t \in Seq(Ev) : events' = events \o t
  <2>1. ASSUME NEW c \in Calls, Log!Extend(c)
        PROVE  /\ requests' \in [Calls -> Requests \cup {NONE}]
               /\ \E t \in Seq(Ev) : events' = events \o t
    <3> DEFINE q == requests[c]
               t == [i \in 1..q.n |-> [stream |-> q.stream, call |-> c]]
    <3>1. q \in Requests /\ q.n \in Nat
      BY <2>1, ProjectionConstants DEF Log!Extend, Log!Open, Types
    <3>2. [stream |-> q.stream, call |-> c] \in Ev
      BY <3>1 DEF Ev
    <3>3. t \in Seq(Ev)
      BY <3>1, <3>2
    <3>4. events' = events \o t /\ requests' = requests
      BY <2>1 DEF Log!Extend
    <3> QED
      BY <3>3, <3>4 DEF Types
  <2>2. ASSUME NEW c \in Calls,
               Log!Submit(c) \/ Log!Check(c) \/ Log!Refuse(c) \/ Log!Fail(c)
        PROVE  /\ requests' \in [Calls -> Requests \cup {NONE}]
               /\ \E t \in Seq(Ev) : events' = events \o t
    <3>1. events' = events /\ events = events \o <<>> /\ <<>> \in Seq(Ev)
      BY <2>2 DEF Log!Submit, Log!Check, Log!Refuse, Log!Fail, Types
    <3>2. requests' \in [Calls -> Requests \cup {NONE}]
      BY <2>2 DEF Log!Submit, Log!Check, Log!Refuse, Log!Fail, Types
    <3> QED
      BY <3>1, <3>2
  <2> QED
    BY <2>1, <2>2 DEF LogStep, Log!Next
<1>3. PICK t \in Seq(Ev) : events' = events \o t
  BY <1>2
<1>4. events' \in Seq(Ev) /\ Len(events') >= Len(events)
  BY <1>3 DEF Types
<1>5. Types'
  BY <1>1, <1>2, <1>4 DEF Types
<1>6. \A a, b \in Nat : b <= Len(events) =>
        SubSeq(events', a + 1, b) = SubSeq(events, a + 1, b)
  BY <1>3, PrefixStays DEF Types
<1>7. TickInv'
  <2> SUFFICES ASSUME NEW w \in Workers, wpc[w] = "handle"
               PROVE  /\ from[w] + Len(batch[w]) <= Len(events')
                      /\ batch[w] = SubSeq(events', from[w] + 1, from[w] + Len(batch[w]))
    BY <1>1 DEF TickInv
  <2>1. from[w] \in Nat /\ Len(batch[w]) \in Nat /\ from[w] + Len(batch[w]) \in Nat
    BY DEF Types
  <2>2. /\ from[w] + Len(batch[w]) <= Len(events)
        /\ batch[w] = SubSeq(events, from[w] + 1, from[w] + Len(batch[w]))
    BY DEF TickInv
  <2>3. SubSeq(events', from[w] + 1, from[w] + Len(batch[w])) = batch[w]
    BY <2>1, <2>2, <1>6
  <2>4. Len(events) \in Nat /\ Len(events') \in Nat
    BY <1>4 DEF Types
  <2> QED
    BY <2>1, <2>2, <2>3, <2>4, <1>4
<1>8. RowInv'
  <2> SUFFICES ASSUME NEW n \in Names, position[n] # NONE
               PROVE  /\ position[n] <= Len(events')
                      /\ SubSeq(events', 1, position[n]) = SubSeq(events, 1, position[n])
    BY <1>1 DEF RowInv
  <2>1. position[n] \in Nat /\ position[n] <= Len(events)
    BY DEF Types, RowInv
  <2>2. SubSeq(events', 0 + 1, position[n]) = SubSeq(events, 0 + 1, position[n])
    BY <2>1, <1>6
  <2> QED
    BY <2>1, <2>2, <1>4 DEF Types
<1> QED
  BY <1>5, <1>7, <1>8

\* Each step of a worker keeps the invariant.
LEMMA WorkerKeeps ==
  ASSUME NEW w \in Workers PROVE IInv /\ WorkerStep(w) => IInv'
<1> SUFFICES ASSUME IInv, WorkerStep(w) PROVE IInv'
  OBVIOUS
<1> DEFINE n == w[2]
<1>n. n \in Names /\ w[1] \in Pods
  BY DEF Workers
<1>e. events' = events /\ requests' = requests /\ rebuilding' = rebuilding
  BY DEF WorkerStep, Tick, CheckStop, Claim, ClaimNothing, ReadPosition, ReadEvents,
         Handle, Commit, CommitUnheard, Rollback, Panic, PollTimeout, EndTx, logVars
\* Steps outside a transaction.
<1>1. CASE CheckStop(w) \/ ClaimNothing(w) \/ PollTimeout(w)
  <2>1. /\ UNCHANGED <<position, model, lock, from, batch, handled>>
        /\ wpc[w] \notin InTx /\ wpc[w] # "down"
        /\ \E pc \in {"loop", "claim", "waiting", "exited"} :
             wpc' = [wpc EXCEPT ![w] = pc]
    BY <1>1 DEF CheckStop, ClaimNothing, PollTimeout, Goes, rowVars, tickVars, InTx
  <2>2. Types'
    BY <1>e, <2>1 DEF IInv, Types
  <2>3. TickInv'
    BY <1>e, <2>1 DEF IInv, Types, TickInv, InTx
  <2>4. RowInv'
    BY <1>e, <2>1 DEF IInv, Types, RowInv
  <2> QED
    BY <2>2, <2>3, <2>4 DEF IInv
<1>2. CASE Claim(w)
  <2>1. /\ UNCHANGED <<position, model, from, batch, handled>>
        /\ wpc[w] = "claim" /\ position[n] # NONE /\ lock[n] = NONE
        /\ lock' = [lock EXCEPT ![n] = w]
        /\ wpc' = [wpc EXCEPT ![w] = "position"]
    BY <1>2 DEF Claim, Goes, rowVars, tickVars
  <2>2. Types'
    BY <1>e, <1>n, <2>1 DEF IInv, Types
  <2>3. TickInv'
    <3> SUFFICES ASSUME NEW v \in Workers, v # w, wpc[v] \in InTx PROVE v[2] # n
      BY <1>e, <1>n, <2>1, ProjectionConstants DEF IInv, Types, TickInv, InTx, Workers
    <3> QED
      BY <2>1, ProjectionConstants DEF IInv, TickInv, Workers
  <2>4. RowInv'
    BY <1>e, <2>1 DEF IInv, Types, RowInv
  <2> QED
    BY <2>2, <2>3, <2>4 DEF IInv
\* Steps inside it that write nothing.
<1>3. CASE ReadPosition(w)
  <2>1. /\ UNCHANGED <<position, model, lock, batch, handled>>
        /\ wpc[w] = "position"
        /\ from' = [from EXCEPT ![w] = position[n]]
        /\ wpc' = [wpc EXCEPT ![w] = "events"]
    BY <1>3 DEF ReadPosition, Goes, rowVars
  <2>p. position[n] \in Nat /\ lock[n] = w
    BY <2>1 DEF IInv, TickInv, InTx
  <2>2. Types'
    BY <1>e, <1>n, <2>1, <2>p DEF IInv, Types
  <2>3. TickInv'
    BY <1>e, <2>1, <2>p DEF IInv, Types, TickInv, InTx
  <2>4. RowInv'
    BY <1>e, <2>1 DEF IInv, Types, RowInv
  <2> QED
    BY <2>2, <2>3, <2>4 DEF IInv
<1>4. CASE ReadEvents(w)
  <2> DEFINE last == IF from[w] + Batch < Len(events) THEN from[w] + Batch ELSE Len(events)
             read == SubSeq(events, from[w] + 1, last)
  <2>1. /\ UNCHANGED <<position, model, lock, from, handled>>
        /\ wpc[w] = "events"
        /\ batch' = [batch EXCEPT ![w] = read]
        /\ wpc' = [wpc EXCEPT ![w] = "handle"]
    BY <1>4 DEF ReadEvents, Goes, rowVars
  <2>p. from[w] = position[n] /\ position[n] \in Nat /\ lock[n] = w
    BY <2>1 DEF IInv, TickInv, InTx
  <2>q. position[n] <= Len(events)
    BY <1>n, <2>p, ProjectionConstants DEF IInv, RowInv
  <2>r. /\ last \in Nat /\ from[w] <= last /\ last <= Len(events)
        /\ from[w] \in Nat /\ events \in Seq(Ev)
    BY <2>p, <2>q, ProjectionConstants DEF IInv, Types
  <2>s. read \in Seq(Ev) /\ Len(read) = last - from[w]
    BY <2>r, PieceLength
  <2>t. /\ from[w] + Len(read) <= Len(events)
        /\ read = SubSeq(events, from[w] + 1, from[w] + Len(read))
    <3>1. from[w] + Len(read) = last
      BY <2>r, <2>s
    <3> QED
      BY <2>r, <3>1
  <2> HIDE DEF read, last
  <2>2. Types'
    BY <1>e, <2>1, <2>s DEF IInv, Types
  <2>3. TickInv'
    <3>1. batch'[w] = read /\ wpc'[w] = "handle"
      BY <2>1 DEF IInv, Types
    <3>2. \A v \in Workers : v # w => batch'[v] = batch[v] /\ wpc'[v] = wpc[v]
      BY <2>1 DEF IInv, Types
    <3> QED
      BY <1>e, <2>1, <2>p, <2>t, <3>1, <3>2 DEF IInv, TickInv, InTx
  <2>4. RowInv'
    BY <1>e, <2>1 DEF IInv, Types, RowInv
  <2> QED
    BY <2>2, <2>3, <2>4 DEF IInv
<1>5. CASE Handle(w)
  <2>1. /\ UNCHANGED <<position, model, lock, wpc, from, batch>>
        /\ handled' = [handled EXCEPT ![w] = @ + 1]
    BY <1>5 DEF Handle, rowVars
  <2> QED
    BY <1>e, <2>1 DEF IInv, Types, TickInv, RowInv
\* The ends of the transaction.
<1>6. CASE Rollback(w) \/ Panic(w)
  <2>1. /\ UNCHANGED <<position, model>>
        /\ wpc[w] \in InTx
        /\ lock' = [lock EXCEPT ![n] = NONE]
        /\ \E pc \in {"waiting", "exited"} : wpc' = [wpc EXCEPT ![w] = pc]
        /\ from' = [from EXCEPT ![w] = 0]
        /\ batch' = [batch EXCEPT ![w] = <<>>]
        /\ handled' = [handled EXCEPT ![w] = 0]
    BY <1>6 DEF Rollback, Panic, EndTx, Goes, rowVars, InTx
  <2>2. Types'
    BY <1>e, <1>n, <2>1 DEF IInv, Types
  <2>3. TickInv'
    BY <1>e, <2>1 DEF IInv, Types, TickInv, InTx
  <2>4. RowInv'
    BY <1>e, <2>1 DEF IInv, Types, RowInv, InTx
  <2> QED
    BY <2>2, <2>3, <2>4 DEF IInv
<1>7. CASE Commit(w) \/ CommitUnheard(w)
  <2>1. /\ wpc[w] = "handle"
        /\ model' = [model EXCEPT ![n] = @ \o batch[w]]
        /\ position' = IF batch[w] = <<>> THEN position
                       ELSE [position EXCEPT ![n] = from[w] + Len(batch[w])]
        /\ lock' = [lock EXCEPT ![n] = NONE]
        /\ \E pc \in {"waiting", "loop"} : wpc' = [wpc EXCEPT ![w] = pc]
        /\ from' = [from EXCEPT ![w] = 0]
        /\ batch' = [batch EXCEPT ![w] = <<>>]
        /\ handled' = [handled EXCEPT ![w] = 0]
    BY <1>7 DEF Commit, CommitUnheard, Committed, EndTx, Goes
  <2> DEFINE next == from[w] + Len(batch[w])
  <2>p. /\ from[w] = position[n] /\ position[n] \in Nat /\ lock[n] = w
        /\ next <= Len(events) /\ batch[w] = SubSeq(events, from[w] + 1, next)
    BY <2>1 DEF IInv, TickInv, InTx
  <2>q. /\ next \in Nat /\ from[w] \in Nat /\ from[w] <= next
        /\ events \in Seq(Ev) /\ batch[w] \in Seq(Ev) /\ model[n] \in Seq(Ev)
    BY <1>n, <2>p DEF IInv, Types
  <2>r. ~rebuilding[n] /\ model[n] = SubSeq(events, 1, from[w])
    BY <1>n, <2>1, <2>p, ProjectionConstants DEF IInv, RowInv
  <2>s. model[n] \o batch[w] = SubSeq(events, 1, next)
    BY <2>p, <2>q, <2>r, PiecesJoin
  <2>t. position'[n] = next /\ \A m \in Names : m # n => position'[m] = position[m]
    <3>1. CASE batch[w] = <<>>
      BY <2>1, <2>p, <2>q, <3>1
    <3>2. CASE batch[w] # <<>>
      BY <1>n, <2>1, <3>2 DEF IInv, Types
    <3> QED
      BY <3>1, <3>2
  <2>2. Types'
    <3>1. position' \in [Names -> Nat \cup {NONE}]
      BY <1>n, <2>1, <2>q DEF IInv, Types
    <3>2. model' \in [Names -> Seq(Ev)]
      BY <1>n, <2>1, <2>q DEF IInv, Types
    <3> QED
      BY <1>e, <1>n, <2>1, <3>1, <3>2 DEF IInv, Types
  <2> HIDE DEF next
  <2>3. TickInv'
    <3>1. \A v \in Workers : v # w /\ wpc[v] \in InTx => v[2] # n /\ v[2] \in Names
      BY <2>p DEF IInv, TickInv, Workers
    <3>2. \A v \in Workers : v # w =>
            batch'[v] = batch[v] /\ wpc'[v] = wpc[v] /\ from'[v] = from[v]
      BY <2>1 DEF IInv, Types
    <3>3. wpc'[w] \notin InTx
      BY <2>1 DEF IInv, Types, InTx
    <3>4. \A m \in Names : m # n => lock'[m] = lock[m]
      BY <2>1 DEF IInv, Types
    <3>5. ASSUME NEW v \in Workers, wpc'[v] \in InTx
          PROVE  /\ v # w /\ wpc'[v] = wpc[v] /\ from'[v] = from[v] /\ batch'[v] = batch[v]
                 /\ lock'[v[2]] = lock[v[2]] /\ position'[v[2]] = position[v[2]]
      BY <2>t, <3>1, <3>2, <3>3, <3>4, <3>5
    <3> QED
      BY <1>e, <3>5 DEF IInv, TickInv, InTx
  <2>4. RowInv'
    <3>1. model'[n] = SubSeq(events, 1, next) /\ \A m \in Names : m # n => model'[m] = model[m]
      BY <1>n, <2>1, <2>s DEF IInv, Types
    <3>2. \A m \in Names : ~rebuilding[m]
      BY <2>1 DEF IInv, RowInv
    <3>3. next # NONE
      BY <2>q, ProjectionConstants
    <3> QED
      BY <1>e, <2>p, <2>t, <3>1, <3>2, <3>3 DEF IInv, RowInv
  <2> QED
    BY <2>2, <2>3, <2>4 DEF IInv
<1> QED
  BY <1>1, <1>2, <1>3, <1>4, <1>5, <1>6, <1>7 DEF WorkerStep, Tick

\* So does each step of a pod or an operator, unless a rebuild is live.
LEMMA PodKeeps ==
  ASSUME Rebuilds # "live", NEW pod \in Pods
  PROVE  IInv /\ PodStep(pod) => IInv'
<1> SUFFICES ASSUME IInv, PodStep(pod) PROVE IInv'
  OBVIOUS
<1>e. /\ events' = events /\ requests' = requests /\ rebuilding' = rebuilding
      /\ position' = position /\ model' = model
  BY DEF PodStep, Wake, Start, Stop, Crash, Joined, Dies, logVars, rowVars
<1>1. CASE Stop(pod)
  BY <1>e, <1>1 DEF Stop, tickVars, IInv, Types, TickInv, RowInv
<1>2. CASE Wake(pod)
  <2>1. /\ UNCHANGED <<lock, from, batch, handled>>
        /\ \E v \in Workers : wpc[v] = "waiting"
        /\ wpc' \in [Workers -> {wpc[w] : w \in Workers} \cup {"loop"}]
        /\ \A w \in Workers : wpc'[w] = wpc[w] \/ wpc'[w] = "loop"
    BY <1>2 DEF Wake, tickVars, Workers
  <2>2. Types'
    BY <1>e, <2>1 DEF IInv, Types
  <2>3. TickInv'
    BY <1>e, <2>1 DEF IInv, TickInv, InTx
  <2>4. RowInv'
    BY <1>e, <2>1 DEF IInv, RowInv
  <2> QED
    BY <2>2, <2>3, <2>4 DEF IInv
<1>3. CASE Crash(pod) \/ Joined(pod)
  <2>1. /\ wpc' = [w \in Workers |-> IF w[1] = pod THEN "down" ELSE wpc[w]]
        /\ lock' = [n \in Names |-> IF lock[n] = <<pod, n>> THEN NONE ELSE lock[n]]
        /\ from' = [w \in Workers |-> IF w[1] = pod THEN 0 ELSE from[w]]
        /\ batch' = [w \in Workers |-> IF w[1] = pod THEN <<>> ELSE batch[w]]
        /\ handled' = [w \in Workers |-> IF w[1] = pod THEN 0 ELSE handled[w]]
    BY <1>3 DEF Crash, Joined, Dies
  <2>2. Types'
    BY <1>e, <2>1 DEF IInv, Types
  <2>3. TickInv'
    <3>1. ASSUME NEW w \in Workers, wpc'[w] \in InTx
          PROVE  /\ wpc'[w] = wpc[w] /\ from'[w] = from[w] /\ batch'[w] = batch[w]
                 /\ lock'[w[2]] = lock[w[2]]
      <4>1. w[1] # pod /\ w[2] \in Names /\ wpc'[w] = wpc[w]
        BY <2>1, <3>1 DEF InTx, Workers
      <4>2. lock[w[2]] = w
        BY <3>1, <4>1 DEF IInv, TickInv
      <4>3. w # <<pod, w[2]>>
        BY <4>1
      <4> QED
        BY <2>1, <4>1, <4>2, <4>3
    <3> QED
      BY <1>e, <3>1 DEF IInv, TickInv, InTx
  <2>4. RowInv'
    BY <1>e, <2>1 DEF IInv, RowInv
  <2> QED
    BY <2>2, <2>3, <2>4 DEF IInv
<1>4. CASE Start(pod)
  <2>1. /\ UNCHANGED <<lock, from, batch, handled>>
        /\ \A n \in Names : ~rebuilding[n]
        /\ wpc' = [w \in Workers |-> IF w[1] = pod THEN "loop" ELSE wpc[w]]
    BY <1>4 DEF Start, tickVars
  <2>2. Types'
    BY <1>e, <2>1 DEF IInv, Types
  <2>3. TickInv'
    BY <1>e, <2>1 DEF IInv, TickInv, InTx
  <2>4. RowInv'
    BY <1>e, <2>1 DEF IInv, RowInv
  <2> QED
    BY <2>2, <2>3, <2>4 DEF IInv
<1> QED
  BY <1>1, <1>2, <1>3, <1>4 DEF PodStep

\* And so do the statements of migrate, of the operator and of reset.
LEMMA RowKeeps ==
  ASSUME Rebuilds # "live", NEW n \in Names
  PROVE  IInv /\ (Migrate(n) \/ Clear(n) \/ Reset(n)) => IInv'
<1> SUFFICES ASSUME IInv, Migrate(n) \/ Clear(n) \/ Reset(n) PROVE IInv'
  OBVIOUS
<1>e. UNCHANGED <<events, requests, lock, wpc, from, batch, handled>>
  BY DEF Migrate, Clear, Reset, logVars, tickVars
<1>1. CASE Migrate(n)
  <2>1. /\ position[n] = NONE /\ position' = [position EXCEPT ![n] = 0]
        /\ UNCHANGED <<model, rebuilding>>
    BY <1>1 DEF Migrate
  <2>2. Types'
    BY <1>e, <2>1 DEF IInv, Types
  <2>3. TickInv'
    <3>1. \A w \in Workers : wpc[w] \in InTx => w[2] # n
      BY <2>1, ProjectionConstants DEF IInv, TickInv
    <3>2. \A w \in Workers : w[2] # n => position'[w[2]] = position[w[2]]
      BY <2>1 DEF IInv, Types, Workers
    <3> QED
      BY <1>e, <3>1, <3>2 DEF IInv, TickInv, InTx
  <2>4. RowInv'
    <3>1. SubSeq(events, 1, 0) = <<>> /\ 0 # NONE /\ 0 <= Len(events)
      BY ProjectionConstants DEF IInv, Types
    <3>2. position'[n] = 0 /\ \A m \in Names : m # n => position'[m] = position[m]
      BY <2>1 DEF IInv, Types
    <3> QED
      BY <1>e, <2>1, <3>1, <3>2 DEF IInv, RowInv
  <2> QED
    BY <2>2, <2>3, <2>4 DEF IInv
<1>2. CASE Clear(n)
  <2>1. /\ position' = position /\ \A w \in Workers : wpc[w] = "down"
        /\ model' = [model EXCEPT ![n] = <<>>]
        /\ rebuilding' = [rebuilding EXCEPT ![n] = TRUE]
    BY <1>2, ProjectionConstants DEF Clear
  <2>2. Types'
    BY <1>e, <2>1 DEF IInv, Types
  <2>3. TickInv'
    BY <1>e, <2>1 DEF IInv, TickInv
  <2>4. RowInv'
    BY <1>e, <2>1 DEF IInv, Types, RowInv
  <2> QED
    BY <2>2, <2>3, <2>4 DEF IInv
<1>3. CASE Reset(n)
  <2>1. /\ rebuilding[n] /\ model' = model
        /\ position' = [position EXCEPT ![n] = 0]
        /\ rebuilding' = [rebuilding EXCEPT ![n] = FALSE]
    BY <1>3 DEF Reset
  <2>d. model[n] = <<>> /\ \A w \in Workers : wpc[w] = "down"
    BY <2>1 DEF IInv, RowInv
  <2>2. Types'
    BY <1>e, <2>1 DEF IInv, Types
  <2>3. TickInv'
    BY <1>e, <2>1, <2>d DEF IInv, TickInv, InTx
  <2>4. RowInv'
    <3>1. SubSeq(events, 1, 0) = <<>> /\ 0 # NONE /\ 0 <= Len(events)
      BY ProjectionConstants DEF IInv, Types
    <3>2. /\ position'[n] = 0 /\ ~rebuilding'[n]
          /\ \A m \in Names : m # n =>
               position'[m] = position[m] /\ rebuilding'[m] = rebuilding[m]
      BY <2>1 DEF IInv, Types
    <3> QED
      BY <1>e, <2>1, <2>d, <3>1, <3>2 DEF IInv, RowInv
  <2> QED
    BY <2>2, <2>3, <2>4 DEF IInv
<1> QED
  BY <1>1, <1>2, <1>3

\* Exactly-once: while read models are rebuilt only with their workers
\* stopped, each is at every moment the events up to its checkpoint, each
\* applied once and in order.
THEOREM ProjectionsExactlyOnce ==
  ASSUME Rebuilds # "live" PROVE Spec => []ExactlyOnce
<1>1. Init => IInv
  BY InitIInv
<1>2. IInv /\ [Next]_vars => IInv'
  <2>1. IInv /\ Next => IInv'
    BY LogKeeps, WorkerKeeps, PodKeeps, RowKeeps DEF Next
  <2>2. IInv /\ UNCHANGED vars => IInv'
    BY DEF vars, logVars, rowVars, tickVars, IInv, Types, TickInv, RowInv
  <2> QED
    BY <2>1, <2>2
<1>3. IInv => ExactlyOnce
  BY DEF IInv, RowInv, ExactlyOnce
<1> QED
  BY <1>1, <1>2, <1>3, PTL DEF Spec

(***************************************************************************)
(* The event store under the projections, as the runs compose it.          *)
(***************************************************************************)

\* A behaviour of the runs is one of the store: it takes its steps or none.
LEMMA StoreBehaves == MCSpec => Store!Spec
<1>1. MCInit => Store!Init
  BY DEF MCInit
<1>2. [MCNext]_allVars => [Store!Next]_(Store!vars)
  <2> SUFFICES ASSUME [MCNext]_allVars PROVE [Store!Next]_(Store!vars)
    OBVIOUS
  <2>1. CASE StoreStep
    BY <2>1 DEF StoreStep
  <2>2. CASE UNCHANGED storeVars
    BY <2>2 DEF storeVars, Store!vars
  <2> QED
    BY <2>1, <2>2 DEF MCNext, ProjectionsStep, Rest, allVars
<1> QED
  BY <1>1, <1>2, PTL DEF MCSpec, Store!Spec

\* The log is a log: its numbers have no gaps, appends are atomic and their
\* answers truthful, and a writer that fails stops nobody.
THEOREM LogIsALog == MCSpec => []LogHolds
<1>1. Store!Spec => [](Store!TypeOK)
  <2>1. Store!StoreInv => Store!TypeOK
    BY DEF Store!StoreInv
  <2> QED
    BY <2>1, StoreAssumption, Store!StoreInvariant, PTL
<1>2. Store!Spec => [](Store!GapFree)
  BY StoreAssumption, Store!NoGaps
<1>3. Store!Spec => [](Store!VersionsFollowPositions)
  BY StoreAssumption, Store!StreamOrder
<1>4. Store!Spec => [](Store!AppendHonest)
  BY StoreAssumption, Store!HonestAppends
<1>5. Store!Spec => [](Store!SomeoneProceeds)
  BY StoreAssumption, Store!NoStandstill
<1>6. /\ Store!TypeOK /\ Store!GapFree /\ Store!VersionsFollowPositions
      /\ Store!AppendHonest /\ Store!SomeoneProceeds
      => LogHolds
  BY DEF LogHolds
<1> QED
  BY <1>1, <1>2, <1>3, <1>4, <1>5, <1>6, StoreBehaves, PTL

\* The store the projections read implements the log they are specified over.
THEOREM LogRefines == MCSpec => RefinesEventLog
BY StoreBehaves, StoreAssumption, Store!Refinement DEF RefinesEventLog

=============================================================================
