----------------------------- MODULE EventStore -----------------------------
(***************************************************************************)
(* The event store of crates/sutegi-events (src/store.rs): append and      *)
(* append_tx statement by statement, by concurrent writers on PostgreSQL   *)
(* or on a SQLite file.                                                    *)
(*                                                                         *)
(* A call runs in one of these transactions:                               *)
(*   "append"    EventStore::append, its own transaction (a plain BEGIN)   *)
(*   "repeat"    append_tx in a caller's REPEATABLE READ transaction of    *)
(*               PostgreSQL that has read something before                 *)
(*   "immediate" append_tx in a caller's BEGIN IMMEDIATE of SQLite         *)
(* The databases are modelled as far as the code relies on them: row       *)
(* visibility, unique keys, the advisory lock, and SQLite's write lock,    *)
(* which a deferred transaction gets for its first write only if nobody    *)
(* holds it and its snapshot is still the newest one.                      *)
(***************************************************************************)
EXTENDS Integers, Sequences, FiniteSets, FiniteSetsExt

CONSTANTS
  Writers,      \* threads or pods that append
  Streams,
  MaxRetries,   \* MAX_APPEND_RETRIES
  Sizes,        \* bound: numbers of events in a call
  MaxCalls,     \* bound: calls
  MaxFaults,    \* bound: failed statements and lost connections
  NONE

VARIABLES
  dialect,  \* Backend::dialect: "Postgres" or "Sqlite", never changed
  log,      \* the committed rows of sutegi_events
  lock,     \* holder of the advisory lock (the write lock on SQLite)
  wpc,      \* control point of each writer
  call,     \* number of each writer's current or last call
  calls,    \* history: the request of each call
  result,   \* history: the outcome of each call
  snap,     \* what the transaction reads, where it has a snapshot
  cur,      \* stream_version, as read
  head,     \* head_position, as read
  attempt,  \* retries of the call
  faults    \* faults so far

vars == <<dialect, log, lock, wpc, call, calls, result, snap, cur, head, attempt,
          faults>>

Appends == 1..MaxCalls
AnyVersion == -2
NoStream == -1
Expected == {AnyVersion, NoStream} \cup Nat
AnyMode == {"append", "repeat", "immediate"}
Modes == AnyMode \ (IF dialect = "Postgres" THEN {"immediate"} ELSE {"repeat"})
Request == [stream : Streams, expected : Expected, n : Sizes, mode : AnyMode]
Event == [position : Nat, stream : Streams, version : Nat, call : Appends]
Result == [kind : {"ok", "conflict", "store"}, version : Nat]

StoreConstants ==
  /\ MaxRetries \in Nat \ {0}
  /\ Sizes \in SUBSET Nat /\ MaxCalls \in Nat /\ MaxFaults \in Nat
  /\ NONE \notin Writers /\ NONE \notin Request /\ NONE \notin Result

\* Expected::matches.
matches(expected, current) ==
  \/ expected = AnyVersion
  \/ expected = NoStream /\ current = 0
  \/ expected = current

\* COALESCE(MAX(version), 0) and COALESCE(MAX(position), 0).
stream_version(rows, s) == Max({e.version : e \in {r \in rows : r.stream = s}} \cup {0})
head_position(rows) == Max({e.position : e \in rows} \cup {0})

Req(w) == calls[call[w]]

\* The rows a statement of w reads: the newest ones on READ COMMITTED.
Visible(w) == IF dialect = "Postgres" /\ Req(w).mode = "append" THEN log ELSE snap[w]

\* The rows of w's INSERTs.
Rows(w) == {[position |-> head[w] + i, stream |-> Req(w).stream,
             version |-> cur[w] + i, call |-> call[w]] : i \in 1..Req(w).n}

\* The primary key on position and UNIQUE (stream, version).
Violates(rows) ==
  \E r \in rows, e \in log :
    \/ r.position = e.position
    \/ r.stream = e.stream /\ r.version = e.version

(***************************************************************************)
(* The end of a transaction.                                               *)
(***************************************************************************)

\* Mutant of Unlocked: a session lock, which the end of the transaction
\* leaves in place.
Unlocked_Session(w) == lock' = lock

\* The lock goes with the transaction.
Unlocked(w) == lock' = IF lock = w THEN NONE ELSE lock

Return(w, kind, version) ==
  /\ wpc' = [wpc EXCEPT ![w] = "idle"]
  /\ result' = [result EXCEPT ![call[w]] = [kind |-> kind, version |-> version]]
  /\ snap' = [snap EXCEPT ![w] = {}]
  /\ cur' = [cur EXCEPT ![w] = 0]
  /\ head' = [head EXCEPT ![w] = 0]
  /\ attempt' = [attempt EXCEPT ![w] = 0]

\* The unique violation: append begins again while it has retries left.
RaceLost(w) ==
  IF Req(w).mode = "append" /\ attempt[w] + 1 < MaxRetries
  THEN /\ wpc' = [wpc EXCEPT ![w] = "begin"]
       /\ attempt' = [attempt EXCEPT ![w] = @ + 1]
       /\ UNCHANGED <<result, snap, cur, head>>
  ELSE Return(w, "store", 0)

(***************************************************************************)
(* The statements.                                                         *)
(***************************************************************************)

\* A caller appends whatever the version, to a new stream (Version(0) is the
\* same expectation), or after the version it has just loaded, which may be
\* stale before the BEGIN.
Call(w, s, expected, n, mode) ==
  LET c == Cardinality({k \in Appends : calls[k] # NONE}) + 1 IN
  /\ wpc[w] = "idle" /\ c <= MaxCalls
  /\ call' = [call EXCEPT ![w] = c]
  /\ calls' = [calls EXCEPT ![c] = [stream |-> s, expected |-> expected,
                                    n |-> n, mode |-> mode]]
  /\ wpc' = [wpc EXCEPT ![w] = "begin"]
  /\ UNCHANGED <<dialect, log, lock, result, snap, cur, head, attempt, faults>>

\* A writer's next statement blocks: on the advisory lock, or on the write
\* lock that BEGIN IMMEDIATE takes.
Waits(w) ==
  /\ lock # NONE
  /\ \/ wpc[w] = "lock"
     \/ wpc[w] = "begin" /\ Req(w).mode = "immediate"

\* BEGIN.  A repeatable-read caller has its snapshot from a statement of its
\* own; BEGIN IMMEDIATE waits for the write lock and then sees everything.
Begin(w) ==
  /\ wpc[w] = "begin" /\ ~Waits(w)
  /\ wpc' = [wpc EXCEPT ![w] = IF dialect = "Postgres" THEN "lock" ELSE "version"]
  /\ \/ Req(w).mode = "append" /\ UNCHANGED <<snap, lock>>
     \/ Req(w).mode = "repeat" /\ snap' = [snap EXCEPT ![w] = log] /\ lock' = lock
     \/ /\ Req(w).mode = "immediate"
        /\ lock' = w /\ snap' = [snap EXCEPT ![w] = log]
  /\ UNCHANGED <<dialect, log, call, calls, result, cur, head, attempt, faults>>

\* SELECT pg_advisory_xact_lock.
Lock(w) ==
  /\ wpc[w] = "lock" /\ ~Waits(w)
  /\ lock' = w
  /\ wpc' = [wpc EXCEPT ![w] = "version"]
  /\ UNCHANGED <<dialect, log, call, calls, result, snap, cur, head, attempt,
                 faults>>

\* The first read of a deferred SQLite transaction takes its snapshot.
Reads(w) == IF dialect = "Sqlite" /\ Req(w).mode = "append" THEN log ELSE Visible(w)

\* SELECT MAX(version) and the expectation: a conflict, or an append of
\* nothing, ends the transaction with nothing written.
ReadVersion(w) ==
  LET current == stream_version(Reads(w), Req(w).stream)
      ok == matches(Req(w).expected, current)
  IN /\ wpc[w] = "version"
     /\ \/ /\ ok /\ Req(w).n > 0
           /\ snap' = [snap EXCEPT ![w] = IF dialect = "Sqlite" THEN Reads(w) ELSE @]
           /\ cur' = [cur EXCEPT ![w] = current]
           /\ wpc' = [wpc EXCEPT ![w] = "head"]
           /\ UNCHANGED <<lock, result, head, attempt>>
        \/ /\ ok /\ Req(w).n = 0
           /\ Unlocked(w) /\ Return(w, "ok", current)
        \/ /\ ~ok
           /\ Unlocked(w) /\ Return(w, "conflict", current)
     /\ UNCHANGED <<dialect, log, call, calls, faults>>

\* SELECT MAX(position).
ReadHead(w) ==
  /\ wpc[w] = "head"
  /\ head' = [head EXCEPT ![w] = head_position(Visible(w))]
  /\ wpc' = [wpc EXCEPT ![w] = "insert"]
  /\ UNCHANGED <<dialect, log, lock, call, calls, result, snap, cur, attempt,
                 faults>>

\* A deferred SQLite transaction cannot become a writer: "database is locked".
Busy(w) == /\ dialect = "Sqlite" /\ lock # w
           /\ lock # NONE \/ snap[w] # log

\* The INSERTs; NOTIFY goes out with the commit and changes nothing here.
Insert(w) ==
  /\ wpc[w] = "insert"
  /\ \/ /\ ~Busy(w) /\ ~Violates(Rows(w))
        /\ wpc' = [wpc EXCEPT ![w] = "commit"]
        /\ lock' = w
        /\ UNCHANGED <<result, snap, cur, head, attempt>>
     \/ /\ ~Busy(w) /\ Violates(Rows(w))
        /\ Unlocked(w) /\ RaceLost(w)
     \/ /\ Busy(w)
        /\ Unlocked(w) /\ Return(w, "store", 0)
  /\ UNCHANGED <<dialect, log, call, calls, faults>>

\* Mutant of Commit: the last event of a batch is not written.
Commit_DropsLast(w) ==
  /\ wpc[w] = "commit"
  /\ log' = log \cup {r \in Rows(w) : r.version < cur[w] + Req(w).n}
  /\ Unlocked(w)
  /\ Return(w, "ok", cur[w] + Req(w).n)
  /\ UNCHANGED <<dialect, call, calls, faults>>

\* COMMIT makes the rows visible and frees the lock.
Commit(w) ==
  /\ wpc[w] = "commit"
  /\ log' = log \cup Rows(w)
  /\ Unlocked(w)
  /\ Return(w, "ok", cur[w] + Req(w).n)
  /\ UNCHANGED <<dialect, call, calls, faults>>

\* A statement fails, the connection is lost or the process dies, before
\* the COMMIT takes effect; or a caller rolls its transaction back.
Rollback(w) ==
  /\ wpc[w] # "idle" /\ faults < MaxFaults
  /\ faults' = faults + 1
  /\ Unlocked(w)
  /\ Return(w, "store", 0)
  /\ UNCHANGED <<dialect, log, call, calls>>

\* The COMMIT takes effect and its answer is lost.
CommitUnheard(w) ==
  /\ wpc[w] = "commit" /\ faults < MaxFaults
  /\ faults' = faults + 1
  /\ log' = log \cup Rows(w)
  /\ Unlocked(w)
  /\ Return(w, "store", 0)
  /\ UNCHANGED <<dialect, call, calls>>

Init ==
  /\ dialect \in {"Postgres", "Sqlite"}
  /\ log = {} /\ lock = NONE
  /\ wpc = [w \in Writers |-> "idle"]
  /\ call = [w \in Writers |-> 0]
  /\ calls = [c \in Appends |-> NONE]
  /\ result = [c \in Appends |-> NONE]
  /\ snap = [w \in Writers |-> {}]
  /\ cur = [w \in Writers |-> 0]
  /\ head = [w \in Writers |-> 0]
  /\ attempt = [w \in Writers |-> 0]
  /\ faults = 0

Statement(w) ==
  \/ Begin(w) \/ Lock(w) \/ ReadVersion(w) \/ ReadHead(w) \/ Insert(w) \/ Commit(w)

Next ==
  \E w \in Writers :
    \/ \E s \in Streams, n \in Sizes, m \in Modes :
         \E x \in {AnyVersion, NoStream} \cup ({stream_version(log, s)} \ {0}) :
           Call(w, s, x, n, m)
    \/ Statement(w)
    \/ Rollback(w) \/ CommitUnheard(w)

Spec == Init /\ [][Next]_vars

(***************************************************************************)
(* Properties.                                                             *)
(***************************************************************************)

\* Every variable has its type.
TypeOK ==
  /\ dialect \in {"Postgres", "Sqlite"}
  /\ log \subseteq Event /\ lock \in Writers \cup {NONE}
  /\ wpc \in [Writers -> {"idle", "begin", "lock", "version", "head", "insert", "commit"}]
  /\ call \in [Writers -> 0..MaxCalls]
  /\ calls \in [Appends -> Request \cup {NONE}]
  /\ result \in [Appends -> Result \cup {NONE}]
  /\ snap \in [Writers -> SUBSET Event]
  /\ cur \in [Writers -> Nat] /\ head \in [Writers -> Nat]
  /\ attempt \in [Writers -> 0..(MaxRetries - 1)]
  /\ faults \in 0..MaxFaults

Of(c) == {e \in log : e.call = c}

\* The committed positions are 1..n at every moment, one event each, whatever
\* commits out of order, aborts or is lost: what lets a projection page by
\* position and never skip an event.
GapFree ==
  /\ {e.position : e \in log} = 1..Cardinality(log)
  /\ \A s \in Streams :
       LET S == {e \in log : e.stream = s}
       IN {e.version : e \in S} = 1..Cardinality(S)

\* The order of a stream's versions is the order of their positions.
VersionsFollowPositions ==
  \A e, f \in log :
    e.stream = f.stream => (e.version < f.version <=> e.position < f.position)

\* Optimistic concurrency: the events of a call continue the stream exactly
\* from the version the caller expected, all of them or none, and the answer
\* tells which: ok means stored up to the returned version, a conflict means
\* nothing stored.  Only a store error leaves the caller in doubt.
AppendHonest ==
  \A c \in Appends : result[c] # NONE \/ Of(c) # {} =>
    LET q == calls[c]
        first == Min({e.version : e \in Of(c)})
    IN /\ Of(c) # {} =>
            /\ Cardinality(Of(c)) = q.n
            /\ {e.version : e \in Of(c)} = first..(first + q.n - 1)
            /\ matches(q.expected, first - 1)
       /\ result[c] # NONE =>
            /\ result[c].kind = "ok" =>
                 /\ Cardinality(Of(c)) = q.n
                 /\ q.n > 0 => result[c].version = first + q.n - 1
            /\ result[c].kind = "conflict" => Of(c) = {}

\* Writers never wait on each other in a circle, nor on a transaction that is
\* over, however the others ended: while an append is unfinished, some writer's
\* next statement does not block.  Its statements are bounded, so every append
\* returns.
SomeoneProceeds ==
  (\E w \in Writers : wpc[w] # "idle")
    => \E w \in Writers : wpc[w] # "idle" /\ ~Waits(w)

\* The crate's comments say that a position race "is retried internally with
\* fresh positions" and that on SQLite one writer is admitted at a time: with
\* no fault an append never fails for another append.
RaceRetried ==
  faults = 0 =>
    \A c \in Appends : result[c] # NONE /\ calls[c].mode = "append"
                       => result[c].kind # "store"

(***************************************************************************)
(* The statement-level event store implements EventLog: every append takes *)
(* effect at its COMMIT.                                                   *)
(***************************************************************************)
EventAt(i) == CHOOSE e \in log : e.position = i

EventsBar == [i \in 1..Cardinality(log) |->
                [stream |-> EventAt(i).stream, call |-> EventAt(i).call]]

Accepts(q, v) == matches(q.expected, v)

Abstract == INSTANCE EventLog WITH
  Calls <- Appends, Requests <- Request,
  Matches <- Accepts, events <- EventsBar, requests <- calls, answer <- result

\* Each append is atomic and truthful although it is six statements, other
\* transactions run between them, snapshots may be stale and answers lost: a
\* batch is at consecutive positions, its expectation holds when it goes in,
\* a conflict is reported only for a stream that has really moved on.
RefinesEventLog == Abstract!Spec

=============================================================================
