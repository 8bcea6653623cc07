-------------------------------- MODULE Hub --------------------------------
(***************************************************************************)
(* The channel hub of crates/sutegi-channels (src/hub.rs) on one pod and   *)
(* one topic.  The events of a connection (open, message, close) are       *)
(* handled one after the other by its shard's thread; other threads hold   *)
(* clones of its Socket and broadcast or kick through them at any time.    *)
(*                                                                         *)
(* The hub keeps its state behind two locks: conns, with the memberships   *)
(* of each connection, and topics, with the members of the topic and its   *)
(* broker subscription.  A step is one critical section, one call of the   *)
(* broker or one callback.  A membership is named by a number of its own   *)
(* (join_ref and assigns in the code).                                     *)
(***************************************************************************)
EXTENDS Naturals

CONSTANTS
  Conns,      \* connections
  Others,     \* threads that are not a connection's shard
  MaxJoins,   \* bound: joins, over all connections
  MaxCasts,   \* bound: broadcasts
  MaxKicks,   \* bound: kicks
  NONE

Threads == Conns \cup Others

HubConstants ==
  /\ MaxJoins \in Nat /\ MaxCasts \in Nat /\ MaxKicks \in Nat
  /\ NONE \notin Threads \cup Nat \cup [sub : Nat, members : SUBSET Conns]

VARIABLES
  conn,       \* each connection: "new", "open" (it has an entry in conns) or "closed"
  joins,      \* conns[c].joins: the membership of each connection, or NONE
  topic,      \* the TopicEntry: broker subscription and members, or NONE
  tracked,    \* connections in the topic's presence (presence.rs, local)
  subs,       \* ids of the topic's subscribers at the broker
  nextSub,    \* next_id of the broker's registry
  th,         \* what each thread is doing
  made,       \* memberships made so far, admitted or not
  admitted,   \* memberships that were admitted
  left,       \* memberships whose leave callback has run, as <<c, number>>
  contested,  \* connections of which a kick and a call of their own overlapped
  casts, kicks

vars == <<conn, joins, topic, tracked, subs, nextSub, th, made, admitted, left,
          contested, casts, kicks>>
broker == <<subs, nextSub>>
counts == <<made, admitted, left, contested, casts, kicks>>

(***************************************************************************)
(* The in-process broker of crates/sutegi-pubsub (src/lib.rs), seen from   *)
(* one topic: its subscriptions and the counter of their ids.  Ids grow,   *)
(* so subscription order is that of the ids.  Each operation is one        *)
(* critical section of the registry's mutex; listeners run outside of it,  *)
(* on the snapshot that publish has taken.                                 *)
(***************************************************************************)
PubSubInit == subs = {} /\ nextSub = 0

\* The id that the next subscribe returns.
FreshSub == nextSub + 1

\* subscribe: ids are given out once and never again.
Subscribe == subs' = subs \cup {FreshSub} /\ nextSub' = FreshSub

\* unsubscribe: retain every other id; an unknown id is ignored.
Unsubscribe(id) == subs' = subs \ {id} /\ UNCHANGED nextSub

\* publish takes a copy of the listeners and calls them after the unlock.
Snapshot == subs

(***************************************************************************)
(* The hub.                                                                *)
(***************************************************************************)
Members == IF topic = NONE THEN {} ELSE topic.members

\* A thread at rest.  ref is the membership a join is making, gone the one a
\* teardown has taken out, todo the listeners a publish has still to call.
Idle == [pc |-> "idle", conn |-> NONE, next |-> "idle", ref |-> 0, gone |-> 0, sub |-> 0,
         todo |-> {}, exclude |-> NONE, heard |-> {}, steady |-> {}]

\* A thread that works on connection c and will be at control point next once
\* the membership is torn down.
Tearing(c, next) == [Idle EXCEPT !.pc = "remove", !.conn = c, !.next = next]
Goes(t, pc) == th' = [th EXCEPT ![t].pc = pc]

\* Threads that tear down a membership of c on behalf of somebody else.
Kicking(c) == {t \in Threads \ {c} : th[t].conn = c /\ th[t].pc # "idle"}

Init ==
  /\ conn = [c \in Conns |-> "new"] /\ joins = [c \in Conns |-> NONE] /\ topic = NONE
  /\ tracked = {} /\ PubSubInit
  /\ th = [t \in Threads |-> Idle]
  /\ made = 0 /\ admitted = {} /\ left = {} /\ contested = {}
  /\ casts = 0 /\ kicks = 0

\* on_open: the connection's entry, without memberships.
OnOpen(c) ==
  /\ th[c].pc = "idle" /\ conn[c] = "new"
  /\ conn' = [conn EXCEPT ![c] = "open"]
  /\ UNCHANGED <<joins, topic, tracked, broker, th, counts>>

(***************************************************************************)
(* join: an earlier membership goes first, then the callback decides, then *)
(* admit writes the two maps.                                              *)
(***************************************************************************)
Contest(c) == contested' = IF Kicking(c) # {} THEN contested \cup {c} ELSE contested

Join(c) ==
  /\ th[c].pc = "idle" /\ conn[c] = "open" /\ made < MaxJoins
  /\ made' = made + 1
  /\ th' = [th EXCEPT ![c] = [Tearing(c, "callback") EXCEPT !.ref = made + 1]]
  /\ Contest(c)
  /\ UNCHANGED <<conn, joins, topic, tracked, broker, admitted, left, casts, kicks>>

\* The join callback, outside of every lock, refuses.
JoinRefused(c) ==
  /\ th[c].pc = "callback"
  /\ th' = [th EXCEPT ![c] = Idle]
  /\ UNCHANGED <<conn, joins, topic, tracked, broker, counts>>

\* It accepts, and admit writes the membership under the lock of conns.
AdmitConn(c) ==
  /\ th[c].pc = "callback"
  /\ joins' = IF conn[c] = "open" THEN [joins EXCEPT ![c] = th[c].ref] ELSE joins
  /\ admitted' = admitted \cup {<<c, th[c].ref>>}
  /\ Goes(c, "admit")
  /\ UNCHANGED <<conn, topic, tracked, broker, made, left, contested, casts, kicks>>

\* Mutant: a topic that has an entry is subscribed to again.
AdmitTopic_Again(c) ==
  /\ th[c].pc = "admit"
  /\ topic' = [sub |-> FreshSub, members |-> Members \cup {c}] /\ Subscribe
  /\ Goes(c, "reply")
  /\ UNCHANGED <<conn, joins, tracked, counts>>

\* admit under the lock of topics: the first local member subscribes.
AdmitTopic(c) ==
  /\ th[c].pc = "admit"
  /\ IF topic = NONE
       THEN topic' = [sub |-> FreshSub, members |-> {c}] /\ Subscribe
       ELSE topic' = [topic EXCEPT !.members = @ \cup {c}] /\ UNCHANGED broker
  /\ Goes(c, "reply")
  /\ UNCHANGED <<conn, joins, tracked, counts>>

\* The ok reply, then the work deferred with after_join: Presence::track, or
\* none.
AfterJoin(c) ==
  /\ th[c].pc = "reply"
  /\ tracked' \in {tracked, tracked \cup {c}}
  /\ th' = [th EXCEPT ![c] = Idle]
  /\ UNCHANGED <<conn, joins, topic, broker, counts>>

(***************************************************************************)
(* teardown, for a leave, a rejoin, a close or a kick.                     *)
(***************************************************************************)

\* The client's stg:leave.
Leave(c) ==
  /\ th[c].pc = "idle" /\ conn[c] = "open" /\ joins[c] # NONE
  /\ th' = [th EXCEPT ![c] = Tearing(c, "idle")]
  /\ Contest(c)
  /\ UNCHANGED <<conn, joins, topic, tracked, broker, made, admitted, left, casts, kicks>>

\* on_close: tear down what the connection has joined, then forget it.
OnClose(c) ==
  /\ th[c].pc = "idle" /\ conn[c] = "open"
  /\ th' = [th EXCEPT ![c] = Tearing(c, "close")]
  /\ Contest(c)
  /\ UNCHANGED <<conn, joins, topic, tracked, broker, made, admitted, left, casts, kicks>>

\* Socket::kick, by a handler or by any thread that holds the socket: stg:close
\* to the client, then the teardown.
Kick(t, c) ==
  /\ th[t].pc = "idle" /\ kicks < MaxKicks
  /\ \E m \in admitted : m[1] = c
  /\ t \in Conns => joins[t] # NONE
  /\ kicks' = kicks + 1
  /\ th' = [th EXCEPT ![t] = Tearing(c, "idle")]
  /\ contested' = IF t # c /\ (th[c].pc # "idle" \/ Kicking(c) # {})
                    THEN contested \cup {c} ELSE contested
  /\ UNCHANGED <<conn, joins, topic, tracked, broker, made, admitted, left, casts>>

\* Where the thread continues after the teardown of its membership.
Resume(t) == IF th[t].next = "idle" THEN Idle
             ELSE [th[t] EXCEPT !.pc = th[t].next, !.next = "idle", !.gone = 0, !.sub = 0]

\* teardown, first lock: take the membership out of conns; whoever finds none
\* has nothing to tear down.
Remove(t) ==
  LET c == th[t].conn IN
  /\ th[t].pc = "remove"
  /\ th' = [th EXCEPT ![t] = IF joins[c] = NONE THEN Resume(t)
                             ELSE [@ EXCEPT !.pc = "forget", !.gone = joins[c]]]
  /\ joins' = [joins EXCEPT ![c] = NONE]
  /\ UNCHANGED <<conn, topic, tracked, broker, counts>>

\* forget_member: the last local member takes the topic's entry with it.
Forget(t) ==
  LET c == th[t].conn
      rest == Members \ {c}
      last == topic # NONE /\ rest = {}
      heirs == [u \in Threads |-> [th[u] EXCEPT !.steady = @ \ {c}]]
  IN /\ th[t].pc = "forget"
     /\ topic' = IF topic = NONE \/ last THEN NONE ELSE [topic EXCEPT !.members = rest]
     /\ th' = [heirs EXCEPT ![t].pc = IF last THEN "unsubscribe" ELSE "untrack",
                            ![t].sub = IF last THEN topic.sub ELSE @]
     /\ UNCHANGED <<conn, joins, tracked, broker, counts>>

\* The unsubscription comes after the lock of topics is released; a new first
\* member may have subscribed meanwhile.
BrokerUnsubscribe(t) ==
  /\ th[t].pc = "unsubscribe"
  /\ Unsubscribe(th[t].sub)
  /\ Goes(t, "untrack")
  /\ UNCHANGED <<conn, joins, topic, tracked, counts>>

\* untrack_on_teardown and the leave callback with the removed membership.
Left(t) ==
  LET c == th[t].conn IN
  /\ th[t].pc = "untrack"
  /\ tracked' = tracked \ {c}
  /\ left' = left \cup {<<c, th[t].gone>>}
  /\ th' = [th EXCEPT ![t] = Resume(t)]
  /\ UNCHANGED <<conn, joins, topic, broker, made, admitted, contested, casts, kicks>>

\* close_conn: the entry goes last.
CloseConn(c) ==
  /\ th[c].pc = "close"
  /\ conn' = [conn EXCEPT ![c] = "closed"]
  /\ joins' = [joins EXCEPT ![c] = NONE]
  /\ th' = [th EXCEPT ![c] = Idle]
  /\ UNCHANGED <<topic, tracked, broker, counts>>

(***************************************************************************)
(* Broadcasts: publish, and deliver once for each listener of the snapshot.*)
(***************************************************************************)
Publish(t, exclude) ==
  /\ th[t].pc = "idle" /\ casts < MaxCasts
  /\ t \in Conns => joins[t] # NONE
  /\ exclude \in {NONE, t}
  /\ casts' = casts + 1
  /\ th' = [th EXCEPT ![t] = [Idle EXCEPT !.pc = "deliver", !.todo = Snapshot,
                                          !.exclude = exclude, !.steady = Members]]
  /\ UNCHANGED <<conn, joins, topic, tracked, broker, made, admitted, left, contested, kicks>>

\* deliver, for the listeners in their order: the members of the moment get the
\* frame, the sender may be left out.
Deliver(t) ==
  /\ th[t].pc = "deliver"
  /\ \E s \in th[t].todo :
       /\ \A later \in th[t].todo : s <= later
       /\ th' = [th EXCEPT ![t].todo = @ \ {s},
                           ![t].heard = @ \cup (Members \ {th[t].exclude})]
  /\ UNCHANGED <<conn, joins, topic, tracked, broker, counts>>

Published(t) ==
  /\ th[t].pc = "deliver" /\ th[t].todo = {}
  /\ th' = [th EXCEPT ![t] = Idle]
  /\ UNCHANGED <<conn, joins, topic, tracked, broker, counts>>

Next ==
  \/ \E c \in Conns : \/ OnOpen(c) \/ Join(c) \/ JoinRefused(c) \/ AdmitConn(c)
                      \/ AdmitTopic(c) \/ AfterJoin(c) \/ Leave(c) \/ OnClose(c)
                      \/ CloseConn(c)
  \/ \E t \in Threads : \/ Remove(t) \/ Forget(t) \/ BrokerUnsubscribe(t) \/ Left(t)
                        \/ Deliver(t) \/ Published(t)
                        \/ \E c \in Conns : Kick(t, c)
                        \/ \E e \in Conns \cup {NONE} : Publish(t, e)

Spec == Init /\ [][Next]_vars

(***************************************************************************)
(* Properties.                                                             *)
(***************************************************************************)
Pcs == {"idle", "callback", "admit", "reply", "remove", "forget", "unsubscribe", "untrack",
        "close", "deliver"}

\* What a thread may be doing.
Work == [pc : Pcs, conn : Conns \cup {NONE}, next : {"idle", "callback", "close"},
         ref : 0..MaxJoins, gone : 0..MaxJoins, sub : 0..nextSub,
         todo : SUBSET (1..nextSub), exclude : Threads \cup {NONE},
         heard : SUBSET Conns, steady : SUBSET Conns]

\* Every variable has its type.
TypeOK ==
  /\ conn \in [Conns -> {"new", "open", "closed"}]
  /\ joins \in [Conns -> 1..MaxJoins \cup {NONE}]
  /\ topic = NONE \/ topic \in [sub : 1..nextSub, members : (SUBSET Conns) \ {{}}]
  /\ tracked \subseteq Conns /\ contested \subseteq Conns
  /\ nextSub \in Nat /\ subs \subseteq 1..nextSub
  /\ th \in [Threads -> Work]
  /\ made \in 0..MaxJoins /\ casts \in 0..MaxCasts /\ kicks \in 0..MaxKicks
  /\ left \cup admitted \subseteq Conns \X (1..MaxJoins)

\* Threads that are about to cancel a subscription at the broker.
Departing == {t \in Threads : th[t].pc = "unsubscribe"}

\* The broker holds one subscription for a topic with members, and otherwise
\* only those that a departing last member is about to cancel: a new first
\* member and the unsubscription of the old one never cancel each other
\* (admit, forget_member).
SubscribedWhileMembers ==
  /\ subs = {th[t].sub : t \in Departing} \cup (IF topic = NONE THEN {} ELSE {topic.sub})
  /\ topic # NONE => \A t \in Departing : th[t].sub # topic.sub

\* The leave callback runs once for each admitted membership that has ended,
\* whoever ended it: joins and left never both hold it, and a thread that took
\* it out of the map is the only one to report it (teardown).
LeftOnce ==
  /\ left \subseteq admitted
  /\ \A c \in Conns :
       LET owed == {m \in admitted \ left : m[1] = c}
           held == (IF joins[c] = NONE THEN {} ELSE {joins[c]})
                     \cup {th[t].gone : t \in {u \in Threads :
                              th[u].conn = c /\ th[u].pc \in {"forget", "unsubscribe", "untrack"}}}
       IN owed = {<<c, r>> : r \in held} /\ \A r \in held : <<c, r>> \notin left

\* The two maps agree about a connection that no call is working on: it is in
\* the topic's members exactly when it has a membership, and tracked only then.
\* A kick that overlaps a call of the connection itself can break this, since
\* kick and join take the two locks one after the other (admit, teardown).
MapsAgree ==
  \A c \in Conns \ contested :
    (th[c].pc \in {"idle", "deliver"} /\ Kicking(c) = {}) =>
      /\ joins[c] # NONE <=> c \in Members
      /\ c \in tracked => joins[c] # NONE
      /\ joins[c] # NONE => conn[c] = "open"

\* A broadcast that is over has reached everybody who was a member all along,
\* however subscriptions changed hands meanwhile (publish, deliver).
SteadyMembersHear ==
  \A t \in Threads :
    (th[t].pc = "deliver" /\ th[t].todo = {}) =>
      th[t].steady \ {th[t].exclude} \subseteq th[t].heard

=============================================================================
