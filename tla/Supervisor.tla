----------------------------- MODULE Supervisor -----------------------------
(***************************************************************************)
(* The supervisor of crates/sutegi-actors: the supervisor thread, the      *)
(* threads of its children over their generations, and the queue on which  *)
(* exits and the shutdown command reach it.                                *)
(*                                                                         *)
(* Children are numbered in start order.  A child's messages are abstract: *)
(* while it runs it may panic at any time, and a Stop in its mailbox is    *)
(* taken once the messages before it are handled.  ActorMailbox has the    *)
(* mailbox itself.                                                         *)
(***************************************************************************)
EXTENDS Integers, Sequences, FiniteSets

CONSTANTS
  N,            \* number of children
  Policy,       \* ChildSpec.restart of each child
  Strategies,   \* the values of Supervisor.strategy to consider
  MaxRestarts,  \* Supervisor.max_restarts
  Window,       \* Supervisor.window
  MaxExits,     \* bound: panics and stops by clients
  MaxTime       \* bound: last instant of the clock

Children == 1..N

\* A child is started once at the beginning and at most once per exit, so
\* that StartChild never runs out of them.
Gens == 1..(MaxExits + 1)

SupervisorConstants ==
  /\ N \in Nat \ {0} /\ MaxRestarts \in Nat /\ Window \in Nat
  /\ MaxExits \in Nat /\ MaxTime \in Nat
  /\ Policy \in [1..N -> {"Permanent", "Transient", "Temporary"}]
  /\ Strategies \subseteq {"OneForOne", "RestForOne", "OneForAll"}

VARIABLES
  strategy,   \* Supervisor.strategy, never changed after start()
  spc,        \* control point of run_supervisor
  cur,        \* the child the current loop is at
  from,       \* range.start(): the first child of the group
  ending,     \* the state stop_all will end in, "none" while running
  inbox,      \* the SupMsg queue
  recent,     \* restarts: the instants of recent restart events
  gen,        \* Child.gen
  join,       \* whether Child.join (and Child.stop, entry.tx) is Some
  stat,       \* Shared.status
  restarts,   \* Shared.restarts
  thr,        \* the thread of each generation of each child
  stopq,      \* generations with a Stop in their mailbox
  now,        \* Instant::now()
  exits,      \* panics and client stops so far
  shutdown,   \* whether the handle has sent Shutdown
  events      \* history: the child that caused each restart event

vars == <<strategy, spc, cur, from, ending, inbox, recent, gen, join, stat, restarts,
          thr, stopq, now, exits, shutdown, events>>

loop == <<spc, cur, from, ending>>
child == <<gen, join, restarts>>

SupPc == {"starting", "recv", "stopping", "joining", "SUP_STOPPED", "SUP_FAILED"}
ThreadState == {"none", "boot", "up", "stopped", "crashed", "exited"}
Exit == [id : Children, gen : Gens, reason : {"stopped", "crashed"}]
Shutdown == [id |-> 0, gen |-> 0, reason |-> "shutdown"]

Running == spc \notin {"SUP_STOPPED", "SUP_FAILED"}

\* The thread of generation g has not returned from run_actor.
Alive(c, g) == thr[c][g] \in {"boot", "up", "stopped", "crashed"}

(***************************************************************************)
(* The supervisor thread.                                                  *)
(***************************************************************************)

should_restart(c, reason) ==
  \/ Policy[c] = "Permanent"
  \/ Policy[c] = "Transient" /\ reason = "crashed"

\* The loops skip to the start of the range and run to the last child,
\* whatever the end of the range: OneForOne and RestForOne coincide.
RangeStart(c) == IF strategy = "OneForAll" THEN 1 ELSE c

\* restarts after push_back(now) and the pop_front loop.
Recent ==
  LET r == Append(recent, now)
      Old(k) == now - r[k] > Window
      popped == {k \in 1..Len(r) : \A j \in 1..k : Old(j)}
  IN SubSeq(r, Cardinality(popped) + 1, Len(r))

\* Mutant of StartChild: gen is not advanced for a restart.
StartChild_SameGen ==
  /\ spc = "starting"
  /\ gen' = [gen EXCEPT ![cur] = IF @ = 0 THEN 1 ELSE @]
  /\ thr' = [thr EXCEPT ![cur][gen'[cur]] = "boot"]
  /\ restarts' = [restarts EXCEPT ![cur] = IF gen[cur] > 0 THEN @ + 1 ELSE @]
  /\ stat' = [stat EXCEPT ![cur] = "running"]
  /\ join' = [join EXCEPT ![cur] = TRUE]
  /\ stopq' = stopq \ {<<cur, gen'[cur]>>}
  /\ IF cur = N THEN spc' = "recv" /\ cur' = cur
                ELSE spc' = spc /\ cur' = cur + 1
  /\ UNCHANGED <<strategy, from, ending, inbox, recent, now, exits, shutdown,
                 events>>

\* Child::start for the next child of the group: reset_for_restart, a new
\* generation, a new mailbox and a new thread.
StartChild ==
  /\ spc = "starting" /\ gen[cur] + 1 \in Gens
  /\ gen' = [gen EXCEPT ![cur] = @ + 1]
  /\ thr' = [thr EXCEPT ![cur][gen[cur] + 1] = "boot"]
  /\ restarts' = [restarts EXCEPT ![cur] = IF gen[cur] > 0 THEN @ + 1 ELSE @]
  /\ stat' = [stat EXCEPT ![cur] = "running"]
  /\ join' = [join EXCEPT ![cur] = TRUE]
  /\ IF cur = N THEN spc' = "recv" /\ cur' = cur
                ELSE spc' = spc /\ cur' = cur + 1
  /\ UNCHANGED <<strategy, from, ending, inbox, recent, stopq, now, exits,
                 shutdown, events>>

\* SupMsg::Shutdown: leave the loop for stop_all.
RecvShutdown ==
  /\ spc = "recv" /\ inbox # <<>> /\ Head(inbox) = Shutdown
  /\ inbox' = Tail(inbox)
  /\ spc' = "stopping" /\ cur' = N /\ from' = 1 /\ ending' = "SUP_STOPPED"
  /\ UNCHANGED <<strategy, recent, child, stat, thr, stopq, now, exits,
                 shutdown, events>>

\* No child has this id and this generation.
Stale(e) == e.gen # gen[e.id]

RecvStale ==
  /\ spc = "recv" /\ inbox # <<>> /\ Head(inbox) # Shutdown
  /\ Stale(Head(inbox))
  /\ inbox' = Tail(inbox)
  /\ UNCHANGED <<strategy, loop, recent, child, stat, thr, stopq, now, exits,
                 shutdown, events>>

\* SupMsg::Exit of the current generation: reap the thread (the join waits
\* for it), then leave the child down, give up, or restart its group after
\* its backoff.
RecvExit ==
  /\ spc = "recv" /\ inbox # <<>> /\ Head(inbox) # Shutdown
  /\ ~Stale(Head(inbox))
  /\ LET e == Head(inbox)
     IN /\ ~Alive(e.id, gen[e.id])
        /\ inbox' = Tail(inbox)
        /\ join' = [join EXCEPT ![e.id] = FALSE]
        /\ \/ /\ ~should_restart(e.id, e.reason)
              /\ UNCHANGED <<loop, recent, events>>
           \/ /\ should_restart(e.id, e.reason)
              /\ events' = Append(events, e.id)
              /\ recent' = Recent
              /\ spc' = "stopping" /\ cur' = N
              /\ IF Len(Recent) > MaxRestarts
                 THEN from' = 1 /\ ending' = "SUP_FAILED"
                 ELSE from' = RangeStart(e.id) /\ ending' = ending
  /\ UNCHANGED <<strategy, gen, restarts, stat, thr, stopq, now, exits,
                 shutdown>>

\* The stop loop goes on to the child before, or is done: the group's
\* children are started in order, or the supervisor ends.
StopLoopNext ==
  IF cur > from THEN spc' = "stopping" /\ cur' = cur - 1
  ELSE IF ending = "none" THEN spc' = "starting" /\ cur' = from
  ELSE spc' = ending /\ cur' = cur

\* A child with nothing to join is passed over.
StopSkip ==
  /\ spc = "stopping" /\ ~join[cur]
  /\ StopLoopNext
  /\ UNCHANGED <<strategy, from, ending, inbox, recent, child, stat, thr, stopq,
                 now, exits, shutdown, events>>

\* Mutant of StopSend: the join starts without a Stop being sent.
StopSend_NoStop ==
  /\ spc = "stopping" /\ join[cur]
  /\ spc' = "joining"
  /\ UNCHANGED <<strategy, cur, from, ending, inbox, recent, child, stat, thr,
                 stopq, now, exits, shutdown, events>>

\* Child::stop_and_join: the blocking send of Stop.  A thread that is gone
\* has dropped its receiver, and the send's error is ignored.
StopSend ==
  /\ spc = "stopping" /\ join[cur]
  /\ stopq' = stopq \cup {<<cur, gen[cur]>>}
  /\ spc' = "joining"
  /\ UNCHANGED <<strategy, cur, from, ending, inbox, recent, child, stat, thr,
                 now, exits, shutdown, events>>

\* Child::stop_and_join: the join returns.
StopJoin ==
  /\ spc = "joining"
  /\ ~Alive(cur, gen[cur])
  /\ join' = [join EXCEPT ![cur] = FALSE]
  /\ StopLoopNext
  /\ UNCHANGED <<strategy, from, ending, inbox, recent, gen, restarts, stat,
                 thr, stopq, now, exits, shutdown, events>>

(***************************************************************************)
(* The children's threads: run_actor.                                      *)
(***************************************************************************)

\* started() returns.
Started(c, g) ==
  /\ thr[c][g] = "boot"
  /\ thr' = [thr EXCEPT ![c][g] = "up"]
  /\ UNCHANGED <<strategy, loop, inbox, recent, child, stat, stopq, now, exits,
                 shutdown, events>>

\* started() or handle() panics: finish(Crashed).
Crash(c, g) ==
  /\ thr[c][g] \in {"boot", "up"}
  /\ exits < MaxExits
  /\ exits' = exits + 1
  /\ thr' = [thr EXCEPT ![c][g] = "crashed"]
  /\ stat' = [stat EXCEPT ![c] = "crashed"]
  /\ UNCHANGED <<strategy, loop, inbox, recent, child, stopq, now, shutdown,
                 events>>

\* Envelope::Stop is received: finish(Stopped).
TakeStop(c, g) ==
  /\ thr[c][g] = "up" /\ <<c, g>> \in stopq
  /\ thr' = [thr EXCEPT ![c][g] = "stopped"]
  /\ stat' = [stat EXCEPT ![c] = "stopped"]
  /\ UNCHANGED <<strategy, loop, inbox, recent, child, stopq, now, exits,
                 shutdown, events>>

\* stopped() has run; the exit goes to the sink and the thread ends.
Report(c, g) ==
  /\ thr[c][g] \in {"stopped", "crashed"}
  /\ inbox' = Append(inbox, [id |-> c, gen |-> g, reason |-> thr[c][g]])
  /\ thr' = [thr EXCEPT ![c][g] = "exited"]
  /\ UNCHANGED <<strategy, loop, recent, child, stat, stopq, now, exits,
                 shutdown, events>>

(***************************************************************************)
(* Clients.                                                                *)
(***************************************************************************)

\* ActorRef::stop on a child.
ClientStop(c, g) ==
  /\ thr[c][g] \in {"boot", "up"} /\ <<c, g>> \notin stopq
  /\ exits < MaxExits
  /\ exits' = exits + 1
  /\ stopq' = stopq \cup {<<c, g>>}
  /\ UNCHANGED <<strategy, loop, inbox, recent, child, stat, thr, now, shutdown,
                 events>>

\* SupervisorHandle::shutdown, stop or drop.  start() returns the handle
\* after the first start of every child.
RequestShutdown ==
  /\ ~shutdown /\ \A c \in Children : gen[c] > 0
  /\ shutdown' = TRUE
  /\ inbox' = IF Running THEN Append(inbox, Shutdown) ELSE inbox
  /\ UNCHANGED <<strategy, loop, recent, child, stat, thr, stopq, now, exits,
                 events>>

Tick ==
  /\ now < MaxTime
  /\ now' = now + 1
  /\ UNCHANGED <<strategy, loop, inbox, recent, child, stat, thr, stopq, exits,
                 shutdown, events>>

Init ==
  /\ strategy \in Strategies
  /\ spc = "starting" /\ cur = 1 /\ from = 1 /\ ending = "none"
  /\ inbox = <<>> /\ recent = <<>>
  /\ gen = [c \in Children |-> 0]
  /\ join = [c \in Children |-> FALSE]
  /\ stat = [c \in Children |-> "running"]
  /\ restarts = [c \in Children |-> 0]
  /\ thr = [c \in Children |-> [g \in Gens |-> "none"]]
  /\ stopq = {} /\ now = 0 /\ exits = 0 /\ shutdown = FALSE
  /\ events = <<>>

SupervisorStep ==
  \/ StartChild \/ RecvShutdown \/ RecvStale \/ RecvExit
  \/ StopSkip \/ StopSend \/ StopJoin

ThreadStep(c, g) ==
  Started(c, g) \/ Crash(c, g) \/ TakeStop(c, g) \/ Report(c, g)

Next ==
  \/ SupervisorStep
  \/ \E c \in Children, g \in Gens : ThreadStep(c, g) \/ ClientStop(c, g)
  \/ RequestShutdown
  \/ Tick

Spec == Init /\ [][Next]_vars

\* The supervisor thread and the actors' threads are scheduled, started()
\* and handle() return, and a Stop is reached behind finitely many messages.
FairSpec ==
  /\ Spec
  /\ WF_vars(SupervisorStep)
  /\ \A c \in Children, g \in Gens :
       /\ WF_vars(Started(c, g))
       /\ WF_vars(TakeStop(c, g))
       /\ WF_vars(Report(c, g))

(***************************************************************************)
(* Properties.                                                             *)
(***************************************************************************)

\* Every variable has its type.
TypeOK ==
  /\ strategy \in Strategies
  /\ spc \in SupPc /\ cur \in Children /\ from \in Children
  /\ ending \in {"none", "SUP_STOPPED", "SUP_FAILED"}
  /\ inbox \in Seq(Exit \cup {Shutdown})
  /\ recent \in Seq(Nat)
  /\ gen \in [Children -> Gens \cup {0}]
  /\ join \in [Children -> BOOLEAN]
  /\ stat \in [Children -> {"running", "stopped", "crashed"}]
  /\ restarts \in [Children -> Nat]
  /\ thr \in [Children -> [Gens -> ThreadState]]
  /\ stopq \subseteq Children \X Gens
  /\ now \in 0..MaxTime /\ exits \in 0..MaxExits
  /\ shutdown \in BOOLEAN
  /\ events \in Seq(Children)

\* At most one generation of a child has a live thread, and it is the one
\* the supervisor knows: a restart never runs beside its predecessor.
OneGeneration ==
  \A c \in Children, g \in Gens : Alive(c, g) => g = gen[c] /\ join[c]

\* is_alive() and the registry tell the truth although the status word is
\* shared by all generations: a child reads as running exactly while its
\* current thread is in started() or in its message loop.
StatusTruth ==
  \A c \in Children :
    gen[c] > 0 =>
      (stat[c] = "running" <=> thr[c][gen[c]] \in {"boot", "up"})

\* An exit that passes the generation check belongs to a thread that has left
\* its message loop and was not reaped yet: the join of the reap never makes
\* the supervisor wait for a child that is still working.
ReapReady ==
  \A i \in 1..Len(inbox) :
    spc = "recv" /\ inbox[i] # Shutdown /\ ~Stale(inbox[i]) =>
      ~Alive(inbox[i].id, inbox[i].gen) /\ join[inbox[i].id]

\* No exit is lost to the generation check: a child that has died and was
\* not reaped is announced in the queue, or is in a group being stopped.
NoExitLost ==
  \A c \in Children :
    join[c] /\ ~Alive(c, gen[c]) =>
      \/ \E i \in 1..Len(inbox) : inbox[i].id = c /\ inbox[i].gen = gen[c]
      \/ spc \in {"stopping", "joining"} /\ from <= c /\ c <= cur

\* The restart events in whose group a child is: the exited child and every
\* later one, or every child for OneForAll.
Covering(c) ==
  {i \in 1..Len(events) : strategy = "OneForAll" \/ events[i] <= c}

\* A restart covers the group its strategy names: when the supervisor is back at
\* its queue each child has been restarted once per event of a group it is in.
RestartScope ==
  spc = "recv" => \A c \in Children : restarts[c] = Cardinality(Covering(c))

\* Stopped and Failed mean what they say: no child's thread outlives the
\* supervisor.
AllDownAtEnd ==
  ~Running => \A c \in Children, g \in Gens : ~Alive(c, g)

\* A crashed child that its policy restarts runs again, unless the supervisor
\* ends.
CrashedComesBack ==
  \A c \in Children :
    (stat[c] = "crashed" /\ Policy[c] # "Temporary")
      ~> (stat[c] = "running" \/ ~Running)

\* stop() returns: once Shutdown is sent the supervisor ends.
ShutdownEnds == shutdown ~> ~Running

\* Strategy::OneForOne as documented: a child is restarted only for exits of
\* its own.
OneForOneAlone ==
  strategy = "OneForOne" =>
    \A c \in Children :
      restarts[c] <= Cardinality({i \in 1..Len(events) : events[i] = c})

=============================================================================
