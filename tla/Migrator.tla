------------------------------ MODULE Migrator ------------------------------
(***************************************************************************)
(* Versioned migrations (sutegi-orm/src/migrate.rs): any number of runners *)
(* (pods booting at once, an operator rolling back) against one database.  *)
(* A migration is its version; what its body does to the schema is one     *)
(* entry of `effects`.  A transactional migration's body and history row   *)
(* are one step of the database; one that opted out is three.              *)
(*                                                                         *)
(* The advisory lock reaches as far as LockDomain says: all runners on     *)
(* PostgreSQL or in one process, only its own process on a SQLite file two *)
(* processes share.                                                        *)
(***************************************************************************)
EXTENDS Integers, Sequences, FiniteSets, SequencesExt

CONSTANTS Runners,         \* processes or threads calling run and rollback
          Registered,      \* runner -> the versions its code adds, in the order added
          Content,         \* runner -> what its code's bodies hash to
          LockDomain,      \* runner -> the lock registry or server its try_lock asks
          Transactional,   \* versions that did not opt out with no_transaction
          Irreversible,    \* versions that are closures without a down
          OutOfOrder,      \* allow_out_of_order
          MaxCalls,        \* bound: calls of run, rollback and repair, all runners together
          MaxFaults        \* bound: crashes and failing bodies

VARIABLES history,    \* _sutegi_migrations: version -> [batch, checksum]
          effects,    \* the bodies in force in the schema, in the order they ran
          lock,       \* lock domain -> the runner holding sutegi:migrations, or NoRunner
          pc,         \* runner -> where its call is
          call,       \* runner -> the call: "run", "rollback", "repair"
          todo,       \* runner -> versions still to apply, undo or re-stamp
          batch,      \* runner -> next_batch, as its snapshot gave it
          bodies,     \* version -> times a body ran since it was last undone (history)
          calls, faults

vars == <<history, effects, lock, pc, call, todo, batch, bodies, calls, faults>>

NoRunner == "none"
Versions == UNION {Range(Registered[r]) : r \in Runners}
Domains == {LockDomain[r] : r \in Runners}
Applied == DOMAIN history

Ascending(S) == SetToSortSeq(S, <)

\* A plausible slip: undo in the order of applying.
OldestFirst(S) == SetToSortSeq(S, <)

Descending(S) == SetToSortSeq(S, >)

\* Where the lock reaches every runner.
Serialized == Cardinality(Domains) = 1

Init ==
    /\ history = << >>
    /\ effects = << >>
    /\ lock = [d \in Domains |-> NoRunner]
    /\ pc = [r \in Runners |-> "idle"]
    /\ call = [r \in Runners |-> "run"]
    /\ todo = [r \in Runners |-> << >>]
    /\ batch = [r \in Runners |-> 0]
    /\ bodies = [v \in Versions |-> 0]
    /\ calls = 0
    /\ faults = 0

Goto(r, label) == pc' = [pc EXCEPT ![r] = label]

\* The guard is dropped when run or rollback returns, however it does.
Release(r) == lock' = [lock EXCEPT ![LockDomain[r]] = IF @ = r THEN NoRunner ELSE @]

Finish(r) ==
    /\ Goto(r, "idle")
    /\ Release(r)
    /\ todo' = [todo EXCEPT ![r] = << >>]

\* Duplicate versions are refused before the database is asked anything.
validate(r) == IsInjective(Registered[r])

Call(r, what) ==
    /\ pc[r] = "idle"
    /\ calls < MaxCalls
    /\ validate(r)
    /\ calls' = calls + 1
    /\ call' = [call EXCEPT ![r] = what]
    /\ Goto(r, IF what = "repair" THEN "snapshot" ELSE "lock")
    /\ UNCHANGED <<history, effects, lock, todo, batch, bodies, faults>>

\* acquire_lock polls try_lock: it gets the lock, or gives up at the deadline.
acquire_lock(r) ==
    /\ pc[r] = "lock"
    /\ \/ /\ lock[LockDomain[r]] = NoRunner
          /\ lock' = [lock EXCEPT ![LockDomain[r]] = r]
          /\ Goto(r, "snapshot")
       \/ /\ lock[LockDomain[r]] # NoRunner
          /\ Goto(r, "idle")
          /\ UNCHANGED lock
    /\ UNCHANGED <<history, effects, call, todo, batch, bodies, calls, faults>>

\* An applied migration must still hash to its stored checksum.
check_integrity(r) ==
    \A v \in Range(Registered[r]) \cap Applied : history[v].checksum = Content[r]

\* No pending migration sorts before the newest applied one this code defines.
check_order(r) ==
    \/ OutOfOrder
    \/ \A v \in Range(Registered[r]) \ Applied :
          \A w \in Range(Registered[r]) \cap Applied : v > w

NextBatch == 1 + (IF Applied = {} THEN 0 ELSE Max({history[v].batch : v \in Applied}))

\* The history is read once, checked, and planned from.
SnapshotRun(r) ==
    /\ pc[r] = "snapshot" /\ call[r] = "run"
    /\ IF check_integrity(r) /\ check_order(r)
       THEN /\ todo' = [todo EXCEPT ![r] = Ascending(Range(Registered[r]) \ Applied)]
            /\ batch' = [batch EXCEPT ![r] = NextBatch]
            /\ Goto(r, "next")
            /\ UNCHANGED lock
       ELSE Finish(r) /\ UNCHANGED batch
    /\ UNCHANGED <<history, effects, call, bodies, calls, faults>>

\* The newest n batch numbers' migrations, all of them defined and reversible.
Victims(n) ==
    LET numbers == {history[v].batch : v \in Applied}
    IN  {v \in Applied : Cardinality({b \in numbers : b > history[v].batch}) < n}

Preflight(r, S) == S \subseteq Range(Registered[r]) \ Irreversible

SnapshotRollback(r) ==
    /\ pc[r] = "snapshot" /\ call[r] = "rollback"
    /\ \E n \in 1..2 :
          IF Preflight(r, Victims(n))
          THEN /\ todo' = [todo EXCEPT ![r] = Descending(Victims(n))]
               /\ Goto(r, "next")
               /\ UNCHANGED lock
          ELSE Finish(r)
    /\ UNCHANGED <<history, effects, call, batch, bodies, calls, faults>>

\* repair takes no lock: the rows to re-stamp are those its own read found stale.
SnapshotRepair(r) ==
    /\ pc[r] = "snapshot" /\ call[r] = "repair"
    /\ todo' = [todo EXCEPT ![r] = Ascending({v \in Range(Registered[r]) \cap Applied :
                                                 history[v].checksum # Content[r]})]
    /\ Goto(r, "next")
    /\ UNCHANGED <<history, effects, lock, call, batch, bodies, calls, faults>>

Done(r) ==
    /\ pc[r] = "next"
    /\ todo[r] = << >>
    /\ Finish(r)
    /\ UNCHANGED <<history, effects, call, batch, bodies, calls, faults>>

Pop(r) == todo' = [todo EXCEPT ![r] = Tail(@)]
Record(r, v) == [w \in Applied \cup {v} |->
                    IF w = v THEN [batch |-> batch[r], checksum |-> Content[r]] ELSE history[w]]
Erase(v) == [w \in Applied \ {v} |-> history[w]]

\* run_up: the body's effect is in force; run_down: no longer.
Up(v) ==
    /\ effects' = Append(effects, v)
    /\ bodies' = [bodies EXCEPT ![v] = @ + 1]
Down(v) ==
    /\ effects' = SelectSeq(effects, LAMBDA w : w # v)
    /\ bodies' = [bodies EXCEPT ![v] = 0]

\* apply_one in a write transaction: the history is asked again inside it.
ApplyInTxAs(r, seesRow) ==
    /\ pc[r] = "next" /\ call[r] = "run" /\ todo[r] # << >>
    /\ LET v == Head(todo[r]) IN
        /\ v \in Transactional
        /\ Pop(r)
        /\ IF seesRow
           THEN UNCHANGED <<history, effects, bodies>>
           ELSE Up(v) /\ history' = Record(r, v)
    /\ UNCHANGED <<lock, pc, call, batch, calls, faults>>

ApplyInTx(r) == ApplyInTxAs(r, Head(todo[r]) \in Applied)

\* apply_one outside a transaction: re-check, body, row are three steps.
ApplyCheck(r) ==
    /\ pc[r] = "next" /\ call[r] = "run" /\ todo[r] # << >>
    /\ Head(todo[r]) \notin Transactional
    /\ IF Head(todo[r]) \in Applied
       THEN Pop(r) /\ UNCHANGED pc
       ELSE Goto(r, "body") /\ UNCHANGED todo
    /\ UNCHANGED <<history, effects, lock, call, batch, bodies, calls, faults>>

ApplyBody(r) ==
    /\ pc[r] = "body" /\ call[r] = "run"
    /\ Up(Head(todo[r]))
    /\ Goto(r, "record")
    /\ UNCHANGED <<history, lock, call, todo, batch, calls, faults>>

\* The row's primary key refuses a second record of the version.
ApplyRecord(r) ==
    /\ pc[r] = "record" /\ call[r] = "run"
    /\ IF Head(todo[r]) \in Applied
       THEN Finish(r) /\ UNCHANGED history
       ELSE /\ history' = Record(r, Head(todo[r]))
            /\ Pop(r)
            /\ Goto(r, "next")
            /\ UNCHANGED lock
    /\ UNCHANGED <<effects, call, batch, bodies, calls, faults>>

\* rollback_one in a transaction.
UndoInTx(r) ==
    /\ pc[r] = "next" /\ call[r] = "rollback" /\ todo[r] # << >>
    /\ LET v == Head(todo[r]) IN
        /\ v \in Transactional
        /\ Pop(r)
        /\ IF v \in Applied THEN Down(v) /\ history' = Erase(v)
                            ELSE UNCHANGED <<history, effects, bodies>>
    /\ UNCHANGED <<lock, pc, call, batch, calls, faults>>

UndoCheck(r) ==
    /\ pc[r] = "next" /\ call[r] = "rollback" /\ todo[r] # << >>
    /\ Head(todo[r]) \notin Transactional
    /\ IF Head(todo[r]) \in Applied
       THEN Goto(r, "body") /\ UNCHANGED todo
       ELSE Pop(r) /\ UNCHANGED pc
    /\ UNCHANGED <<history, effects, lock, call, batch, bodies, calls, faults>>

UndoBody(r) ==
    /\ pc[r] = "body" /\ call[r] = "rollback"
    /\ Down(Head(todo[r]))
    /\ Goto(r, "record")
    /\ UNCHANGED <<history, lock, call, todo, batch, calls, faults>>

UndoErase(r) ==
    /\ pc[r] = "record" /\ call[r] = "rollback"
    /\ history' = Erase(Head(todo[r]))
    /\ Pop(r)
    /\ Goto(r, "next")
    /\ UNCHANGED <<effects, lock, call, batch, bodies, calls, faults>>

\* UPDATE ... WHERE version = ?: nothing happens to a row that has gone.
RepairRow(r) ==
    /\ pc[r] = "next" /\ call[r] = "repair" /\ todo[r] # << >>
    /\ history' = [v \in Applied |->
                      IF v = Head(todo[r]) THEN [history[v] EXCEPT !.checksum = Content[r]]
                                           ELSE history[v]]
    /\ Pop(r)
    /\ UNCHANGED <<effects, lock, pc, call, batch, bodies, calls, faults>>

\* A body returns an error: a transaction takes everything back, without one
\* whatever it did before the error stays.
BodyFails(r) ==
    /\ faults < MaxFaults
    /\ faults' = faults + 1
    /\ todo[r] # << >> /\ call[r] # "repair"
    /\ \/ pc[r] = "next" /\ Head(todo[r]) \in Transactional /\ UNCHANGED <<effects, bodies>>
       \/ /\ pc[r] = "body"
          /\ \/ UNCHANGED <<effects, bodies>>
             \/ call[r] = "run" /\ Up(Head(todo[r]))
             \/ call[r] = "rollback" /\ Down(Head(todo[r]))
    /\ Finish(r)
    /\ UNCHANGED <<history, call, batch, calls>>

\* The process dies; the server closes its session, or the registry its guard.
Crash(r) ==
    /\ faults < MaxFaults
    /\ pc[r] # "idle"
    /\ faults' = faults + 1
    /\ Finish(r)
    /\ UNCHANGED <<history, effects, call, batch, bodies, calls>>

Next ==
    \E r \in Runners :
        \/ \E what \in {"run", "rollback", "repair"} : Call(r, what)
        \/ acquire_lock(r) \/ SnapshotRun(r) \/ SnapshotRollback(r) \/ SnapshotRepair(r)
        \/ ApplyInTx(r) \/ ApplyCheck(r) \/ ApplyBody(r) \/ ApplyRecord(r)
        \/ UndoInTx(r) \/ UndoCheck(r) \/ UndoBody(r) \/ UndoErase(r)
        \/ RepairRow(r) \/ Done(r) \/ BodyFails(r) \/ Crash(r)

Spec == Init /\ [][Next]_vars
-----------------------------------------------------------------------------
Times(v) == Cardinality({i \in DOMAIN effects : effects[i] = v})

\* "No outcome leaves the database in a state the migrator cannot account
\* for": whatever interleaves, crashes or fails, and however far the lock
\* reaches, a transactional migration's body is in force exactly once when
\* its row is there and not at all when it is not.
EffectsMatchHistory ==
    \A v \in Versions \cap Transactional : Times(v) = IF v \in Applied THEN 1 ELSE 0

\* Where the lock reaches every runner, pods that run different sets of
\* migrations still never apply one behind a later one that their own code
\* defines: what check_order saw is what apply_one works on.
AppliedInOrder ==
    Serialized /\ ~OutOfOrder =>
        \A r \in Runners :
            LET mine == SelectSeq(effects, LAMBDA v : v \in Range(Registered[r])
                                                      /\ v \in Transactional)
            IN  \A i, j \in DOMAIN mine : i < j => mine[i] < mine[j]

\* Where the lock reaches every runner, a non-transactional body runs again
\* for the same row only if an earlier call failed or died on the way.
RepeatsNeedAFault ==
    Serialized => \A v \in Versions : bodies[v] <= 1 + faults

\* Where the lock reaches every runner, no two of them are between their
\* snapshot and their last step, and what a runner still has to apply has no
\* row yet unless it is a non-transactional migration about to be recorded.
PlanStaysTrue ==
    Serialized =>
        \A r \in Runners : pc[r] \in {"next", "body", "record"} =>
            /\ call[r] = "run" => Range(todo[r]) \cap Applied = {}
            /\ call[r] = "rollback" => Range(todo[r]) \subseteq Applied

\* Within a batch a rollback undoes the last body first: when one is undone
\* nothing the same batch applied after it is still in force.
NewestFirst ==
    \A v \in Versions \cap Transactional :
        Serialized /\ v \in Applied /\ v \notin DOMAIN history' =>
            \A w \in Applied \cap Transactional :
                history[w].batch = history[v].batch /\ w \in DOMAIN history' =>
                    \A i, j \in DOMAIN effects : effects[i] = w /\ effects[j] = v => i < j
=============================================================================
