---------------------------- MODULE JobLifecycle ----------------------------
(***************************************************************************)
(* What the durable queue promises of each job, without workers, leases,   *)
(* clocks or control points: a job is recorded once, stays recorded until  *)
(* a handler has returned Ok for it or the operator purges it from the     *)
(* dead letters, and holds its dedupe slot exactly while it is live.       *)
(***************************************************************************)
EXTENDS Naturals

CONSTANTS
  Ids,      \* row ids
  Slots,    \* dedupe slots: (queue, key) pairs
  NoSlot    \* the slot of a job with no dedupe key

VARIABLES
  status,   \* where each job is in its life
  slot,     \* the dedupe slot of each recorded job
  ok        \* jobs some handler has returned Ok for

vars == <<status, slot, ok>>

\* No live job occupies slot s.
Free(s) == s = NoSlot \/ \A j \in Ids : status[j] = "live" => slot[j] # s

\* Ids are handed out in order and never again.
Enqueue(i, s) ==
  /\ status[i] = "none"
  /\ \A j \in Ids : j < i => status[j] # "none"
  /\ Free(s)
  /\ status' = [status EXCEPT ![i] = "live"]
  /\ slot' = [slot EXCEPT ![i] = s]
  /\ ok' = ok

\* A handler returns Ok, possibly again, possibly for a job already gone.
Succeed(i) ==
  /\ status[i] # "none"
  /\ ok' = ok \cup {i}
  /\ UNCHANGED <<status, slot>>

\* The job leaves the table.  A dead letter may still be completed by a
\* worker that had it in hand when another one gave it up.
Complete(i) ==
  /\ status[i] \in {"live", "dead"}
  /\ i \in ok
  /\ status' = [status EXCEPT ![i] = "done"]
  /\ slot' = [slot EXCEPT ![i] = NoSlot]
  /\ ok' = ok

DeadLetter(i) ==
  /\ status[i] = "live"
  /\ status' = [status EXCEPT ![i] = "dead"]
  /\ UNCHANGED <<slot, ok>>

Revive(i) ==
  /\ status[i] = "dead"
  /\ Free(slot[i])
  /\ status' = [status EXCEPT ![i] = "live"]
  /\ UNCHANGED <<slot, ok>>

Purge(S) ==
  /\ \A i \in S : status[i] = "dead"
  /\ status' = [i \in Ids |-> IF i \in S THEN "purged" ELSE status[i]]
  /\ slot' = [i \in Ids |-> IF i \in S THEN NoSlot ELSE slot[i]]
  /\ ok' = ok

Init ==
  /\ status = [i \in Ids |-> "none"]
  /\ slot = [i \in Ids |-> NoSlot]
  /\ ok = {}

Next ==
  \/ \E i \in Ids, s \in Slots \cup {NoSlot} : Enqueue(i, s)
  \/ \E i \in Ids : Succeed(i) \/ Complete(i) \/ DeadLetter(i) \/ Revive(i)
  \/ \E S \in SUBSET Ids : Purge(S)

Spec == Init /\ [][Next]_vars
=============================================================================
