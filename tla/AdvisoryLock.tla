---------------------------- MODULE AdvisoryLock ----------------------------
(***************************************************************************)
(* Named advisory locks of sutegi-orm: try_lock, lock and with_lock of the *)
(* Backend trait (backend.rs), the process-wide registry behind the SQLite *)
(* handles (db.rs) and the session and transaction locks of PostgreSQL     *)
(* (pg.rs).  One lock name; each caller has a backend handle of its own.   *)
(***************************************************************************)
EXTENDS Integers, FiniteSets

CONSTANTS
    Callers,        \* threads (SQLite) or pods (PostgreSQL) after the lock
    NamespaceOf,    \* the namespace of each caller's SQLite handle
    None

LockConstants == DOMAIN NamespaceOf = Callers /\ None \notin Callers

VARIABLES
    backend,    \* "sqlite" or "postgres"
    pc,         \* what each caller is doing
    registry,   \* SQLite: the namespaces whose entry for the name is present
    session,    \* PostgreSQL: the caller whose server session holds the lock
    late,       \* callers whose timeout has passed
    cut         \* callers whose session the server has lost

vars == <<backend, pc, registry, session, late, cut>>

PCs == {"idle", "poll", "sleep", "ask", "granted", "held", "tx", "txheld", "txdropped"}

TypeOK ==
    /\ backend \in {"sqlite", "postgres"}
    /\ pc \in [Callers -> PCs]
    /\ registry \subseteq {NamespaceOf[c] : c \in Callers}
    /\ session \in Callers \cup {None}
    /\ late \subseteq Callers /\ cut \subseteq Callers

Init ==
    /\ backend \in {"sqlite", "postgres"}
    /\ pc = [c \in Callers |-> "idle"]
    /\ registry = {} /\ session = None /\ late = {} /\ cut = {}

To(c, where) == pc' = [pc EXCEPT ![c] = where]

\* A caller at rest; while a dead session of c's still holds the lock, the pod
\* that took its place is another caller.
Idle(c) == pc[c] = "idle" /\ session # c

(***************************************************************************)
(* SQLite: one mutex around the registry makes the test and insert one     *)
(* step; lock polls it until the deadline.                                 *)
(***************************************************************************)
Free(c) == NamespaceOf[c] \notin registry

\* try_lock: held, or None at once.
try_lock(c) ==
    /\ backend = "sqlite" /\ pc[c] = "idle"
    /\ Free(c)
    /\ registry' = registry \cup {NamespaceOf[c]}
    /\ To(c, "held")
    /\ UNCHANGED <<backend, session, late, cut>>

lock(c) ==
    /\ Idle(c)
    /\ To(c, IF backend = "sqlite" THEN "poll" ELSE "ask")
    /\ late' = late \ {c}
    /\ cut' = cut \ {c}
    /\ UNCHANGED <<backend, registry, session>>

PollForever(c) ==
    /\ pc[c] = "poll"
    /\ \/ /\ Free(c)
          /\ registry' = registry \cup {NamespaceOf[c]}
          /\ To(c, "held")
       \/ ~Free(c) /\ To(c, "sleep") /\ UNCHANGED registry
    /\ UNCHANGED <<backend, session, late, cut>>

\* One turn of the loop: try, give up at the deadline, or sleep.
Poll(c) ==
    /\ pc[c] = "poll"
    /\ \/ /\ Free(c)
          /\ registry' = registry \cup {NamespaceOf[c]}
          /\ To(c, "held")
       \/ /\ ~Free(c)
          /\ To(c, IF c \in late THEN "idle" ELSE "sleep")
          /\ UNCHANGED registry
    /\ UNCHANGED <<backend, session, late, cut>>

\* The sleep is cut at the deadline, so a last attempt follows it.
Wake(c) ==
    /\ pc[c] = "sleep"
    /\ To(c, "poll")
    /\ UNCHANGED <<backend, registry, session, late, cut>>

Deadline(c) ==
    /\ pc[c] \in {"poll", "sleep", "ask"} /\ c \notin late
    /\ late' = late \cup {c}
    /\ UNCHANGED <<backend, pc, registry, session, cut>>

\* The guard drops: the registry entry goes, or the session closes.
Drop(c) ==
    /\ pc[c] = "held"
    /\ To(c, "idle")
    /\ registry' = IF backend = "sqlite" THEN registry \ {NamespaceOf[c]} ELSE registry
    /\ session' = IF session = c THEN None ELSE session
    /\ UNCHANGED <<backend, late, cut>>

(***************************************************************************)
(* PostgreSQL: a session of its own waits in the server under              *)
(* statement_timeout; the timeout is lifted once the lock is there.        *)
(***************************************************************************)
Grant(c) ==
    /\ pc[c] = "ask" /\ session = None
    /\ session' = c
    /\ To(c, "granted")
    /\ UNCHANGED <<backend, registry, late, cut>>

StatementTimeout(c) ==
    /\ pc[c] = "ask" /\ c \in late
    /\ To(c, "idle")
    /\ UNCHANGED <<backend, registry, session, late, cut>>

LiftTimeout(c) ==
    /\ pc[c] = "granted" /\ c \notin cut
    /\ To(c, "held")
    /\ UNCHANGED <<backend, registry, session, late, cut>>

\* SET statement_timeout = 0 fails: the call errs and the client is dropped.
LiftFails(c) ==
    /\ pc[c] = "granted"
    /\ To(c, "idle")
    /\ session' = IF session = c THEN None ELSE session
    /\ UNCHANGED <<backend, registry, late, cut>>

\* The pod dies; the server finds out when it reads the socket.
Crash(c) ==
    /\ backend = "postgres" /\ pc[c] \in {"ask", "granted", "held", "tx", "txheld", "txdropped"}
    /\ To(c, "idle")
    /\ cut' = cut \cup {c}
    /\ UNCHANGED <<backend, registry, session, late>>

\* The server loses the session (a dead peer, a cut line) and frees its locks.
SessionLost(c) ==
    /\ session = c
    /\ session' = None
    /\ cut' = cut \cup {c}
    /\ UNCHANGED <<backend, pc, registry, late>>

\* Tx::try_lock: on the transaction's connection, released by COMMIT or ROLLBACK.
Begin(c) ==
    /\ backend = "postgres" /\ Idle(c)
    /\ To(c, "tx")
    /\ cut' = cut \ {c}
    /\ UNCHANGED <<backend, registry, session, late>>

TxTryLock(c) ==
    /\ pc[c] = "tx" /\ c \notin cut /\ session = None
    /\ session' = c
    /\ To(c, "txheld")
    /\ UNCHANGED <<backend, registry, late, cut>>

TxDropReleases(c) ==
    /\ pc[c] = "txheld"
    /\ To(c, "txdropped")
    /\ session' = None
    /\ UNCHANGED <<backend, registry, late, cut>>

TxDrop(c) ==
    /\ pc[c] = "txheld"
    /\ To(c, "txdropped")
    /\ UNCHANGED <<backend, registry, session, late, cut>>

TxEnd(c) ==
    /\ pc[c] \in {"tx", "txheld", "txdropped"}
    /\ To(c, "idle")
    /\ session' = IF session = c THEN None ELSE session
    /\ UNCHANGED <<backend, registry, late, cut>>

Step(c) ==
    \/ try_lock(c) \/ lock(c) \/ Poll(c) \/ Wake(c) \/ Deadline(c) \/ Drop(c)
    \/ Grant(c) \/ StatementTimeout(c) \/ LiftTimeout(c) \/ LiftFails(c)
    \/ Crash(c) \/ SessionLost(c)
    \/ Begin(c) \/ TxTryLock(c) \/ TxDrop(c) \/ TxEnd(c)

Next == \E c \in Callers : Step(c)

\* Work under the lock ends, deadlines pass, the server notices a dead peer
\* that still holds, and grants or cancels what waits in it.
Fairness ==
    \A c \in Callers :
        /\ WF_vars(Poll(c)) /\ WF_vars(Wake(c)) /\ WF_vars(Deadline(c)) /\ WF_vars(Drop(c))
        /\ WF_vars(StatementTimeout(c)) /\ WF_vars(LiftTimeout(c) \/ LiftFails(c)) /\ WF_vars(TxEnd(c))
        /\ WF_vars(c \in cut /\ SessionLost(c))

Spec == Init /\ [][Next]_vars /\ Fairness

(***************************************************************************)
(* Properties.                                                             *)
(***************************************************************************)
Inside(c) == pc[c] \in {"held", "txheld"}

\* Two callers are never inside together, on SQLite when their handles have
\* one namespace, on PostgreSQL while their sessions live: a timed-out, failed
\* or crashed acquisition leaves no second owner behind.
OneInside ==
    \A c, d \in Callers :
        c # d /\ Inside(c) /\ Inside(d) =>
            IF backend = "sqlite" THEN NamespaceOf[c] # NamespaceOf[d] ELSE c \in cut \/ d \in cut

\* A transaction's lock outlives its guard: until COMMIT nobody else gets in.
TxHoldsToCommit == \A c \in Callers : pc[c] = "txdropped" /\ c \notin cut => session = c

\* Nothing is left locked, and callers never wait for each other: when none is
\* between an acquisition and its release, the registry is empty and only a
\* session the server has not yet missed holds the lock.
NothingLeaks ==
    (\A c \in Callers : pc[c] \notin {"granted", "held", "txheld", "txdropped"})
        => registry = {} /\ (session = None \/ session \in cut)

\* Every call of lock returns: with the lock, or when its time is up.
CallsReturn == \A c \in Callers : pc[c] \in {"poll", "sleep", "ask"} ~> pc[c] \in {"idle", "granted", "held"}

=============================================================================
