------------------------------ MODULE Presence ------------------------------
(***************************************************************************)
(* Presence of crates/sutegi-channels (src/presence.rs) on one topic       *)
(* across pods.  A pod's own tracks are the truth; what it believes of     *)
(* another pod comes from that pod's diffs (join, leave) and states, which *)
(* travel through the broker: Notify order per receiver, lost when the     *)
(* receiver's listener reconnects, late at times.                          *)
(*                                                                         *)
(* Every call first changes the pod's map under its lock and then          *)
(* publishes, so messages of different threads may leave in another order  *)
(* than their changes were made.  pend holds what a thread has still to do *)
(* after the lock.  Entries are bags of keys: a key stands for key and     *)
(* meta.  Time is counted in heartbeat intervals.                          *)
(***************************************************************************)
EXTENDS Naturals, Sequences, FiniteSets, FiniteSetsExt, TLC

CONSTANTS
  Pods, Conns, Keys,
  Home,         \* the pod of each connection
  MaxOps,       \* bound: tracks and untracks
  MaxFaults,    \* bound: crashes, lost inboxes and late heartbeats
  NONE

PresenceConstants ==
  /\ IsFiniteSet(Conns) /\ Home \in [Conns -> Pods]
  /\ NONE \notin Nat /\ NONE \notin Keys

VARIABLES
  up,       \* pods that run
  local,    \* key of each tracked connection, or NONE
  entry,    \* per pod the TopicPresence's sub_id (0: none), or NONE without entry
  remote,   \* per pod and other pod: its entries and the age of last_seen, or NONE
  live,     \* per pod the broker subscriptions for the topic
  nextSub,
  inbox,    \* per pod the notifications its listener has not read
  pend,     \* per thread what it does after its critical section
  due,      \* pods whose housekeeper has this interval's round before it
  ops, faults

vars == <<up, local, entry, remote, live, nextSub, inbox, pend, due, ops, faults>>

\* Threads: a connection's shard, a pod's broker listener, its housekeeper.
Listener(p) == <<"listener", p>>
Keeper(p) == <<"keeper", p>>
Threads == {<<"conn", c>> : c \in Conns} \cup {Listener(p) : p \in Pods} \cup {Keeper(p) : p \in Pods}
PodOf(t) == IF t[1] = "conn" THEN Home[t[2]] ELSE t[2]

Nothing == [k \in Keys |-> 0]
ExpiryCertain == 4     \* intervals after which last_seen is surely older than 2.5
ExpiryPossible == 3

Tracked(p, loc) == {c \in Conns : Home[c] = p /\ loc[c] # NONE}
\* The metas of a pod's own connections, by key.
LocalState(p) == [k \in Keys |-> Cardinality({c \in Tracked(p, local) : local[c] = k})]
Seen(p, q) == IF remote[p][q] = NONE THEN Nothing ELSE remote[p][q].entries

Do(t, seq) == pend' = [pend EXCEPT ![t] = @ \o seq]
Msg(a, p, k, e) == [act |-> a, from |-> p, key |-> k, entries |-> e]

\* Every connection is tracked and every pod has heard of it.
Init ==
  /\ up = Pods /\ local \in [Conns -> Keys] /\ entry = [p \in Pods |-> 1]
  /\ remote = [p \in Pods |-> [q \in Pods |->
                 IF q = p THEN NONE ELSE [age |-> 0, entries |-> LocalState(q)]]]
  /\ live = [p \in Pods |-> {1}] /\ nextSub = 1
  /\ inbox = [p \in Pods |-> <<>>] /\ pend = [t \in Threads |-> <<>>]
  /\ due = {} /\ ops = 0 /\ faults = 0

(***************************************************************************)
(* Operations of a connection.                                             *)
(***************************************************************************)

\* Mutant: an entry left behind by a late message counts as subscribed.
Track_Trusts(c, k) ==
  LET p == Home[c]
      first == entry[p] = NONE
  IN /\ p \in up /\ pend[<<"conn", c>>] = <<>> /\ ops < MaxOps
     /\ ops' = ops + 1
     /\ entry' = IF first THEN [entry EXCEPT ![p] = nextSub + 1] ELSE entry
     /\ live' = IF first THEN [live EXCEPT ![p] = @ \cup {nextSub + 1}] ELSE live
     /\ nextSub' = IF first THEN nextSub + 1 ELSE nextSub
     /\ local' = [local EXCEPT ![c] = k]
     /\ Do(<<"conn", c>>, <<Msg("join", p, k, Nothing)>>)
     /\ UNCHANGED <<up, remote, inbox, due, faults>>

\* track_now: the first local presence subscribes and asks for the state of the
\* others; a replaced track is a leave before the join.
Track(c, k) ==
  LET p == Home[c]
      first == Tracked(p, local) = {} /\ entry[p] \in {NONE, 0}
      old == IF local[c] = NONE THEN <<>> ELSE <<Msg("leave", p, local[c], Nothing)>>
      req == IF first THEN <<Msg("req", p, NONE, Nothing)>> ELSE <<>>
  IN /\ p \in up /\ pend[<<"conn", c>>] = <<>> /\ ops < MaxOps
     /\ ops' = ops + 1
     /\ entry' = IF first THEN [entry EXCEPT ![p] = nextSub + 1] ELSE entry
     /\ live' = IF first THEN [live EXCEPT ![p] = @ \cup {nextSub + 1}] ELSE live
     /\ nextSub' = IF first THEN nextSub + 1 ELSE nextSub
     /\ local' = [local EXCEPT ![c] = k]
     /\ Do(<<"conn", c>>, old \o req \o <<Msg("join", p, k, Nothing)>>)
     /\ UNCHANGED <<up, remote, inbox, due, faults>>

\* untrack_on_teardown: the last local presence takes the topic's entry, with
\* what it knew of other pods, and cancels the subscription after the lock.
Untrack(c) ==
  LET p == Home[c]
      last == Tracked(p, local) = {c}
      leave == <<Msg("leave", p, local[c], Nothing)>>
  IN /\ p \in up /\ pend[<<"conn", c>>] = <<>> /\ local[c] # NONE /\ ops < MaxOps
     /\ ops' = ops + 1
     /\ local' = [local EXCEPT ![c] = NONE]
     /\ entry' = IF last THEN [entry EXCEPT ![p] = NONE] ELSE entry
     /\ remote' = IF last THEN [remote EXCEPT ![p] = [q \in Pods |-> NONE]] ELSE remote
     /\ Do(<<"conn", c>>, IF last THEN <<Msg("unsub", p, entry[p], Nothing)>> \o leave ELSE leave)
     /\ UNCHANGED <<up, live, nextSub, inbox, due, faults>>

(***************************************************************************)
(* What a thread does after the lock: cancel a subscription, or publish.   *)
(***************************************************************************)
Unsubscribe(t) ==
  /\ pend[t] # <<>> /\ Head(pend[t]).act = "unsub"
  /\ live' = [live EXCEPT ![PodOf(t)] = @ \ {Head(pend[t]).key}]
  /\ pend' = [pend EXCEPT ![t] = Tail(@)]
  /\ UNCHANGED <<up, local, entry, remote, nextSub, inbox, due, ops, faults>>

\* publish_action: one NOTIFY, which every other pod's listener receives; the
\* pod's own subscription ignores it by the origin.
PublishAction(t) ==
  /\ pend[t] # <<>> /\ Head(pend[t]).act # "unsub"
  /\ inbox' = [p \in Pods |-> IF p = PodOf(t) \/ p \notin up THEN inbox[p]
                              ELSE Append(inbox[p], Head(pend[t]))]
  /\ pend' = [pend EXCEPT ![t] = Tail(@)]
  /\ UNCHANGED <<up, local, entry, remote, live, nextSub, due, ops, faults>>

(***************************************************************************)
(* on_broker_message, once for each subscription the pod has.              *)
(***************************************************************************)
\* remove_one leaves a bag without the key as it is.
Applied(e, m) ==
  CASE m.act = "join"  -> [e EXCEPT ![m.key] = @ + 1]
    [] m.act = "leave" -> [e EXCEPT ![m.key] = IF @ = 0 THEN 0 ELSE @ - 1]
    [] m.act = "state" -> m.entries

\* What the pod believes after n listeners have handled the message.
Believe(p, m, n) ==
  LET e == Seen(p, m.from)
      after == IF n = 1 THEN Applied(e, m) ELSE Applied(Applied(e, m), m)
  IN [remote EXCEPT ![p][m.from] = [age |-> 0, entries |-> after]]

OnBrokerMessage(p) ==
  LET m == Head(inbox[p])
      n == Cardinality(live[p])
      answer == IF entry[p] = NONE THEN <<>> ELSE <<Msg("state", p, NONE, LocalState(p))>>
  IN /\ p \in up /\ inbox[p] # <<>> /\ pend[Listener(p)] = <<>>
     /\ inbox' = [inbox EXCEPT ![p] = Tail(@)]
     /\ \/ n = 0 /\ UNCHANGED <<entry, remote, pend>>
        \/ n > 0 /\ m.act = "req" /\ Do(Listener(p), answer) /\ UNCHANGED <<entry, remote>>
        \/ /\ n > 0 /\ m.act # "req"
           /\ remote' = Believe(p, m, n)
           /\ entry' = IF entry[p] = NONE THEN [entry EXCEPT ![p] = 0] ELSE entry
           /\ UNCHANGED pend
     /\ UNCHANGED <<up, local, live, nextSub, due, ops, faults>>

(***************************************************************************)
(* The housekeeping thread: a state each interval, and expiry.             *)
(***************************************************************************)

\* The round of one interval.
Housekeep(p) ==
  /\ p \in up /\ p \in due /\ pend[Keeper(p)] = <<>>
  /\ due' = due \ {p}
  /\ IF entry[p] = NONE THEN UNCHANGED <<remote, pend>>
     ELSE /\ Do(Keeper(p), <<Msg("state", p, NONE, LocalState(p))>>)
          /\ \E late \in SUBSET {q \in Pods : remote[p][q] # NONE /\ remote[p][q].age = ExpiryPossible} :
               remote' = [remote EXCEPT ![p] = [q \in Pods |->
                            IF q \in late \/ (@[q] # NONE /\ @[q].age = ExpiryCertain)
                              THEN NONE ELSE @[q]]]
  /\ UNCHANGED <<up, local, entry, live, nextSub, inbox, ops, faults>>

\* An interval passes.  Threads and messages keep up with it, except for a
\* bounded number of times; housekeepers, which sleep for it, always do.
Settled == \A p \in up : inbox[p] = <<>> /\ \A t \in Threads : PodOf(t) = p => pend[t] = <<>>

Tick ==
  /\ up # {} /\ due \cap up = {} /\ \A p \in up : pend[Keeper(p)] = <<>>
  /\ \/ Settled /\ UNCHANGED faults
     \/ ~Settled /\ faults < MaxFaults /\ faults' = faults + 1
  /\ due' = up
  /\ remote' = [p \in Pods |-> [q \in Pods |->
                  IF remote[p][q] = NONE THEN NONE
                  ELSE [remote[p][q] EXCEPT !.age = IF @ = ExpiryCertain THEN @ ELSE @ + 1]]]
  /\ UNCHANGED <<up, local, entry, live, nextSub, inbox, pend, ops>>

(***************************************************************************)
(* Faults.                                                                 *)
(***************************************************************************)
Crash(p) ==
  /\ p \in up /\ faults < MaxFaults
  /\ faults' = faults + 1 /\ up' = up \ {p}
  /\ local' = [c \in Conns |-> IF Home[c] = p THEN NONE ELSE local[c]]
  /\ pend' = [t \in Threads |-> IF PodOf(t) = p THEN <<>> ELSE pend[t]]
  /\ inbox' = [inbox EXCEPT ![p] = <<>>]
  /\ entry' = [entry EXCEPT ![p] = NONE] /\ live' = [live EXCEPT ![p] = {}]
  /\ remote' = [remote EXCEPT ![p] = [q \in Pods |-> NONE]]
  /\ due' = due \ {p}
  /\ UNCHANGED <<nextSub, ops>>

\* The pod's listener loses its connection and what was sent meanwhile.
LoseInbox(p) ==
  /\ p \in up /\ inbox[p] # <<>> /\ faults < MaxFaults
  /\ faults' = faults + 1 /\ inbox' = [inbox EXCEPT ![p] = <<>>]
  /\ UNCHANGED <<up, local, entry, remote, live, nextSub, pend, due, ops>>

Next ==
  \/ \E c \in Conns : Untrack(c) \/ \E k \in Keys : Track(c, k)
  \/ \E t \in Threads : Unsubscribe(t) \/ PublishAction(t)
  \/ \E p \in Pods : OnBrokerMessage(p) \/ Housekeep(p) \/ Crash(p) \/ LoseInbox(p)
  \/ Tick

\* Threads run, messages arrive, time passes.  Tracks and faults owe nothing.
Fairness ==
  /\ \A t \in Threads : WF_vars(Unsubscribe(t) \/ PublishAction(t))
  /\ \A p \in Pods : WF_vars(OnBrokerMessage(p)) /\ WF_vars(Housekeep(p))
  /\ WF_vars(Tick)

Spec == Init /\ [][Next]_vars /\ Fairness

(***************************************************************************)
(* Properties.                                                             *)
(***************************************************************************)
TypeOK ==
  /\ local \in [Conns -> Keys \cup {NONE}]
  /\ \A p \in Pods : entry[p] \in {NONE} \cup 0..nextSub /\ live[p] \subseteq 1..nextSub
  /\ \A p, q \in Pods : remote[p][q] = NONE \/ (q # p /\ remote[p][q].age \in 0..ExpiryCertain)

\* A pod with a local presence listens to the topic, and no subscription
\* outlives its entry but one whose cancellation is under way, although late
\* messages bring an entry back without a subscription (track_now,
\* untrack_on_teardown, on_broker_message).
ListensWhileTracking ==
  \A p \in up :
    LET going == {m.key : m \in {Head(pend[t]) : t \in {u \in Threads :
                     PodOf(u) = p /\ pend[u] # <<>> /\ Head(pend[u]).act = "unsub"}}}
    IN /\ Tracked(p, local) # {} => entry[p] \in live[p]
       /\ live[p] = going \cup ({entry[p]} \ {NONE, 0})

\* Once tracks and faults have ended, every pod that has local presences comes
\* to see exactly the presences of the others, and none of a pod that is gone:
\* diffs may be lost, doubled or reordered, states and expiry repair it
\* (housekeep, on_broker_message).
ViewsAgree ==
  \A p \in up : Tracked(p, local) # {} =>
    \A q \in Pods \ {p} : Seen(p, q) = IF q \in up THEN LocalState(q) ELSE Nothing

EventuallyAgree == <>[]ViewsAgree

=============================================================================
