------------------------------- MODULE Watch -------------------------------
(***************************************************************************)
(* Reactive queries (sutegi-orm watch.rs): a subscription starts from the  *)
(* rows of its query and is sent a diff after every change of the table.   *)
(*                                                                         *)
(* On SQLite the change signal is the update_hook of the pooled connection *)
(* that writes (db.rs), fired inside the statement and so before COMMIT.   *)
(* On PostgreSQL it is a trigger's NOTIFY, delivered at COMMIT through a   *)
(* LISTEN session that a pump thread reads.  The worker thread drains the  *)
(* feed for a moment, then re-runs the query and diffs by primary key.     *)
(*                                                                         *)
(* One watched query on one table; a row is absent (0) or has a content.   *)
(***************************************************************************)
EXTENDS Integers, Sequences, FiniteSets

CONSTANTS
    Conns,      \* the pooled connections
    Keys,       \* primary keys
    Contents,   \* contents of a row, without 0
    MaxWrites   \* bound: statements that write

VARIABLES
    backend,    \* "sqlite" or "postgres"
    db,         \* the committed table
    txn,        \* the open transaction's table, or None
    owner,      \* the connection of the open transaction, or None
    out,        \* the connections that are checked out
    opened,     \* the connections the pool has opened
    hooked,     \* the connections with an update_hook
    hook,       \* whether the pool has a change hook
    trigger,    \* whether the table has the notify trigger
    pump,       \* whether the LISTEN pump is alive
    feed,       \* signals the worker has not received
    worker,     \* "down", "wait", "burst" or "done"
    call,       \* the watch call: "none", "ensured", "selected", "live", "dropped"
    rows,       \* what the call's SELECT returned
    snapshot,   \* the subscription's last-seen state, kept by the worker
    queue,      \* changes sent and not received
    view,       \* what the subscriber makes of the rows and the changes
    writes,     \* statements so far
    heard       \* the last committed change was signalled to a live subscription,
                \* no earlier than its commit

pool == <<out, opened, hooked, hook>>
source == <<backend, trigger, pump>>
data == <<db, txn, owner, writes>>
sub == <<call, rows, snapshot, queue, view>>
vars == <<pool, source, data, sub, feed, worker, heard>>

None == "none"
Table == [Keys -> {0} \cup Contents]
Empty == [k \in Keys |-> 0]

TypeOK ==
    /\ backend \in {"sqlite", "postgres"}
    /\ db \in Table /\ rows \in Table /\ snapshot \in Table /\ view \in Table
    /\ owner \in {None} \cup Conns
    /\ txn \in Table
    /\ out \subseteq opened /\ hooked \subseteq opened /\ opened \subseteq Conns
    /\ hook \in BOOLEAN /\ trigger \in BOOLEAN /\ pump \in BOOLEAN /\ heard \in BOOLEAN
    /\ feed \in 0..(2 * MaxWrites) /\ writes \in 0..MaxWrites
    /\ worker \in {"down", "wait", "burst", "done"}
    /\ call \in {"none", "ensured", "selected", "live", "dropped"}

Init ==
    /\ backend \in {"sqlite", "postgres"}
    /\ db = Empty /\ txn = Empty /\ rows = Empty /\ snapshot = Empty /\ view = Empty
    /\ owner = None
    /\ out = {} /\ opened = {} /\ hooked = {}
    /\ hook = FALSE /\ trigger = FALSE /\ pump = FALSE /\ heard = TRUE
    /\ feed = 0 /\ writes = 0
    /\ worker = "down" /\ call = "none" /\ queue = <<>>

(***************************************************************************)
(* The pool.                                                               *)
(***************************************************************************)
checkout(c) ==
    /\ c \in opened \ out
    /\ out' = out \cup {c}
    /\ UNCHANGED <<opened, hooked, hook, source, data, sub, feed, worker, heard>>

checkin(c) ==
    /\ c \in out /\ owner # c
    /\ out' = out \ {c}
    /\ UNCHANGED <<opened, hooked, hook, source, data, sub, feed, worker, heard>>

\* A new connection gets the pool's hook.
connect(c) ==
    /\ c \notin opened
    /\ opened' = opened \cup {c}
    /\ out' = out \cup {c}
    /\ hooked' = IF hook THEN hooked \cup {c} ELSE hooked
    /\ UNCHANGED <<hook, source, data, sub, feed, worker, heard>>

(***************************************************************************)
(* Attaching the watcher: Watcher::sqlite hooks the idle connections,      *)
(* Watcher::postgres starts the pump; both start the worker.               *)
(***************************************************************************)
set_change_hook == hooked \cup (opened \ out)

Attach ==
    /\ worker = "down"
    /\ worker' = "wait"
    /\ IF backend = "sqlite"
       THEN hook' = TRUE /\ hooked' = set_change_hook /\ UNCHANGED pump
       ELSE pump' = TRUE /\ UNCHANGED <<hook, hooked>>
    /\ UNCHANGED <<data, sub, backend, out, trigger, feed, heard, opened>>

\* The LISTEN session is lost; nothing reconnects it.
PumpDies ==
    /\ pump
    /\ pump' = FALSE
    /\ UNCHANGED <<pool, data, sub, backend, trigger, feed, worker, heard>>

(***************************************************************************)
(* Writing.                                                                *)
(***************************************************************************)
install_change_hook(c) == backend = "sqlite" /\ c \in hooked
notify == backend = "postgres" /\ trigger /\ pump
Live == call = "live" /\ worker \in {"wait", "burst"}

\* A statement of its own transaction: it is signalled and committed at once.
WriteAuto(c, k, v) ==
    /\ c \in out /\ owner = None /\ writes < MaxWrites
    /\ db[k] # v
    /\ db' = [db EXCEPT ![k] = v]
    /\ writes' = writes + 1
    /\ feed' = IF install_change_hook(c) \/ notify THEN feed + 1 ELSE feed
    /\ heard' = (Live /\ (install_change_hook(c) \/ notify))
    /\ UNCHANGED <<pool, source, sub, txn, owner, worker>>

\* A statement inside transaction(): the hook fires now.
WriteTx(c, k, v) ==
    /\ c \in out /\ owner \in {None, c} /\ writes < MaxWrites
    /\ LET now == IF owner = None THEN db ELSE txn
       IN now[k] # v /\ txn' = [now EXCEPT ![k] = v]
    /\ owner' = c
    /\ writes' = writes + 1
    /\ feed' = IF install_change_hook(c) THEN feed + 1 ELSE feed
    /\ UNCHANGED <<pool, source, sub, db, worker, heard>>

\* COMMIT: on PostgreSQL the NOTIFY goes out with it.
Commit ==
    /\ owner # None
    /\ db' = txn
    /\ owner' = None
    /\ feed' = IF notify THEN feed + 1 ELSE feed
    /\ heard' = ((db = txn /\ heard) \/ (Live /\ notify))
    /\ UNCHANGED <<pool, source, sub, txn, worker, writes>>

Rollback ==
    /\ owner # None
    /\ owner' = None
    /\ UNCHANGED <<pool, source, sub, db, txn, feed, worker, writes, heard>>

(***************************************************************************)
(* Watcher::watch: cover the table, read the rows, register; three steps   *)
(* with nothing held between them.                                         *)
(***************************************************************************)
ensure_table ==
    /\ call = "none" /\ worker # "down"
    /\ call' = "ensured"
    /\ trigger' = (backend = "postgres")
    /\ UNCHANGED <<pool, data, backend, pump, feed, worker, rows, snapshot, queue, view, heard>>

Select ==
    /\ call = "ensured"
    /\ call' = "selected"
    /\ rows' = db
    /\ UNCHANGED <<pool, source, data, feed, worker, snapshot, queue, view, heard>>

Register ==
    /\ call = "selected"
    /\ call' = "live"
    /\ snapshot' = rows
    /\ view' = rows
    /\ heard' = (rows = db)
    /\ UNCHANGED <<pool, source, data, feed, worker, rows, queue>>

\* Dropping the subscription takes it out of the registry.
DropSubscription ==
    /\ call = "live"
    /\ call' = "dropped"
    /\ UNCHANGED <<pool, source, data, feed, worker, rows, snapshot, queue, view, heard>>

(***************************************************************************)
(* The worker.                                                             *)
(***************************************************************************)
Rows(t) == {<<k, t[k]>> : k \in {j \in Keys : t[j] # 0}}

diff(prev, next) ==
    [added   |-> {r \in Rows(next) : prev[r[1]] = 0},
     updated |-> {r \in Rows(next) : prev[r[1]] # 0 /\ prev[r[1]] # r[2]},
     removed |-> {r \in Rows(prev) : next[r[1]] = 0}]

IsEmpty(change) == change.added = {} /\ change.updated = {} /\ change.removed = {}

RecvAndForget ==
    /\ worker = "wait" /\ feed > 0
    /\ worker' = IF feed = 1 THEN "wait" ELSE "burst"
    /\ feed' = feed - 1
    /\ UNCHANGED <<pool, source, data, sub, heard>>

\* The first signal.
Recv ==
    /\ worker = "wait" /\ feed > 0
    /\ worker' = "burst"
    /\ feed' = feed - 1
    /\ UNCHANGED <<pool, source, data, sub, heard>>

\* A signal within the debounce window joins the burst.
Coalesce ==
    /\ worker = "burst" /\ feed > 0
    /\ feed' = feed - 1
    /\ UNCHANGED <<pool, source, data, sub, worker, heard>>

\* The window closes: requery and diff, under the registry's lock.
Requery ==
    /\ worker = "burst"
    /\ worker' = "wait"
    /\ IF call = "live"
       THEN LET change == diff(snapshot, db) IN
            /\ snapshot' = db
            /\ queue' = IF IsEmpty(change) THEN queue ELSE Append(queue, change)
       ELSE UNCHANGED <<snapshot, queue>>
    /\ UNCHANGED <<pool, source, data, feed, call, rows, view, heard>>

\* A requery that fails skips the round; the next change retries.
SkipRound ==
    /\ worker = "burst" /\ call = "live"
    /\ worker' = "wait"
    /\ heard' = (heard /\ snapshot = db)
    /\ UNCHANGED <<pool, source, data, sub, feed>>

Apply(t, change) ==
    [k \in Keys |->
        IF \E r \in change.removed : r[1] = k THEN 0
        ELSE IF \E r \in change.added \cup change.updated : r[1] = k
        THEN (CHOOSE r \in change.added \cup change.updated : r[1] = k)[2]
        ELSE t[k]]

RecvChange ==
    /\ call = "live" /\ queue # <<>>
    /\ view' = Apply(view, Head(queue))
    /\ queue' = Tail(queue)
    /\ UNCHANGED <<pool, source, data, feed, worker, call, rows, snapshot, heard>>

\* Dropping the watcher: Shutdown through the feed, behind what is in it.
DropWatcher ==
    /\ worker \in {"wait", "burst"} /\ feed = 0
    /\ worker' = "done"
    /\ pump' = FALSE
    /\ UNCHANGED <<pool, data, sub, backend, trigger, feed, heard>>

Next ==
    \/ \E c \in Conns : checkout(c) \/ checkin(c) \/ connect(c)
    \/ \E c \in Conns, k \in Keys, v \in {0} \cup Contents : WriteAuto(c, k, v) \/ WriteTx(c, k, v)
    \/ Attach \/ PumpDies \/ Commit \/ Rollback
    \/ ensure_table \/ Select \/ Register \/ DropSubscription
    \/ Recv \/ Coalesce \/ Requery \/ SkipRound \/ RecvChange \/ DropWatcher

\* The worker and the subscriber are threads of their own; the debounce
\* window closes at its deadline whatever arrives.
Fairness == WF_vars(Recv) /\ WF_vars(Requery) /\ WF_vars(RecvChange)

Spec == Init /\ [][Next]_vars /\ Fairness

(***************************************************************************)
(* Properties.                                                             *)
(***************************************************************************)

\* Rows and changes add up: a subscriber that applies what it was sent, in
\* order, has the state the worker diffs against next (worker, diff).
ChangesAddUp ==
    call = "live" =>
        LET Step[i \in 0..Len(queue)] == IF i = 0 THEN view ELSE Apply(Step[i - 1], queue[i])
        IN Step[Len(queue)] = snapshot

Quiet == feed = 0 /\ worker = "wait" /\ queue = <<>> /\ owner = None

\* A change that was signalled to a live subscription when it committed is
\* seen: when the feed, the worker and the queue are empty, the subscriber
\* has the table, unless a requery failed in between (the next change retries).
SignalledIsSeen == call = "live" /\ heard /\ Quiet => view = db

\* A signalled change reaches the subscriber, however long the bursts last.
EventuallySeen ==
    (call = "live" /\ heard /\ owner = None /\ writes = MaxWrites)
        ~> (view = db \/ call = "dropped" \/ worker = "done" \/ ~heard)

=============================================================================
