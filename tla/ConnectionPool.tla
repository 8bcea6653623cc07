--------------------------- MODULE ConnectionPool ---------------------------
(***************************************************************************)
(* The blocking connection pools: Pool of crates/sutegi-pg and SqlitePool  *)
(* of crates/sutegi-orm (src/db.rs), which share one protocol.             *)
(*                                                                         *)
(* Connections are interchangeable, so the idle list is its length.  Each  *)
(* critical section of the mutex is one action; a thread woken from the    *)
(* condition variable has to take the mutex again, and a newcomer may take *)
(* it first.                                                               *)
(***************************************************************************)
EXTENDS Integers, FiniteSets

CONSTANTS
  Threads,    \* the threads that call Pool::with
  MaxSize,    \* max_size
  Discards,   \* TRUE for sutegi-pg: a connection that fails ping is discarded
  MayPanic    \* whether the closure given to with may panic

ASSUME PoolConstants ==
  /\ IsFiniteSet(Threads) /\ Threads # {}
  /\ MaxSize \in Nat \ {0}
  /\ Discards \in BOOLEAN /\ MayPanic \in BOOLEAN

VARIABLES
  open,     \* Inner.open
  idle,     \* the length of Inner.idle
  tpc,      \* control point of each thread
  leaked    \* history: slots whose connection was dropped by a panic

vars == <<open, idle, tpc, leaked>>

In(pc) == {t \in Threads : tpc[t] = pc}

Moves(t, pc) == tpc' = [tpc EXCEPT ![t] = pc]

\* t goes to pc and notify_one wakes some waiter, if there is one.
MovesAndNotifies(t, pc) ==
  \/ In("asleep") = {} /\ Moves(t, pc)
  \/ \E s \in In("asleep") : tpc' = [tpc EXCEPT ![t] = pc, ![s] = "woken"]

(***************************************************************************)
(* checkout: one pass of the loop under the mutex.                         *)
(***************************************************************************)

AtLoop(t) == tpc[t] \in {"out", "woken"}

PopIdle(t) ==
  /\ AtLoop(t) /\ idle > 0
  /\ idle' = idle - 1
  /\ Moves(t, "using")
  /\ UNCHANGED <<open, leaked>>

\* A slot is reserved and the mutex released for the connect.
Reserve(t) ==
  /\ AtLoop(t) /\ idle = 0 /\ open < MaxSize
  /\ open' = open + 1
  /\ Moves(t, "connecting")
  /\ UNCHANGED <<idle, leaked>>

Sleep(t) ==
  /\ AtLoop(t) /\ idle = 0 /\ open >= MaxSize
  /\ Moves(t, "asleep")
  /\ UNCHANGED <<open, idle, leaked>>

\* A condition variable may wake a waiter for no reason.
SpuriousWakeup(t) ==
  /\ tpc[t] = "asleep"
  /\ Moves(t, "woken")
  /\ UNCHANGED <<open, idle, leaked>>

ConnectOk(t) ==
  /\ tpc[t] = "connecting"
  /\ Moves(t, "using")
  /\ UNCHANGED <<open, idle, leaked>>

\* Mutant of ConnectFails: the reservation is rolled back silently.
ConnectFails_NoNotify(t) ==
  /\ tpc[t] = "connecting"
  /\ open' = open - 1
  /\ Moves(t, "out")
  /\ UNCHANGED <<idle, leaked>>

\* Client::connect fails: the reservation is rolled back and passed on.
ConnectFails(t) ==
  /\ tpc[t] = "connecting"
  /\ open' = open - 1
  /\ MovesAndNotifies(t, "out")
  /\ UNCHANGED <<idle, leaked>>

(***************************************************************************)
(* with: the closure is done.                                              *)
(***************************************************************************)

Checkin(t) ==
  /\ tpc[t] = "using"
  /\ idle' = idle + 1
  /\ MovesAndNotifies(t, "out")
  /\ UNCHANGED <<open, leaked>>

\* The closure failed and the connection does not answer a ping.
Discard(t) ==
  /\ tpc[t] = "using" /\ Discards
  /\ open' = open - 1
  /\ MovesAndNotifies(t, "out")
  /\ UNCHANGED <<idle, leaked>>

\* The closure panics: the client is dropped by the unwinding, and neither
\* checkin nor discard runs.
Panic(t) ==
  /\ tpc[t] = "using" /\ MayPanic
  /\ Moves(t, "out")
  /\ leaked' = leaked + 1
  /\ UNCHANGED <<open, idle>>

Init ==
  /\ open = 0 /\ idle = 0 /\ leaked = 0
  /\ tpc = [t \in Threads |-> "out"]

Checkout(t) == PopIdle(t) \/ Reserve(t) \/ Sleep(t)
Connect(t) == ConnectOk(t) \/ ConnectFails(t)
Finish(t) == Checkin(t) \/ Discard(t)

Next ==
  \E t \in Threads :
    Checkout(t) \/ Connect(t) \/ Finish(t) \/ Panic(t) \/ SpuriousWakeup(t)

Spec == Init /\ [][Next]_vars

\* A woken thread gets the mutex in the end, a connect returns and so does
\* the closure.  Nothing is assumed of newcomers or of spurious wakeups.
FairSpec ==
  /\ Spec
  /\ \A t \in Threads :
       /\ WF_vars(tpc[t] = "woken" /\ Checkout(t))
       /\ WF_vars(Connect(t))
       /\ WF_vars(Finish(t))

(***************************************************************************)
(* Properties.                                                             *)
(***************************************************************************)

\* Every variable has its type, and the database sees at most max_size
\* connections.
TypeOK ==
  /\ open \in 0..MaxSize /\ idle \in 0..MaxSize /\ leaked \in Nat
  /\ tpc \in [Threads -> {"out", "woken", "asleep", "connecting", "using"}]

\* open counts exactly the connections that are idle, being opened or in
\* use, and the slots that panics have cost: no path of checkout, checkin,
\* discard or a failed connect gains or loses a slot.
SlotAccounting ==
  open = idle + Cardinality(In("connecting")) + Cardinality(In("using")) + leaked

\* No wakeup is lost, although notify_one may wake a thread whose connection
\* a newcomer then takes: while threads sleep, at least as many are on their
\* way back to the loop as there are connections or free slots.
NoLostWakeup ==
  In("asleep") # {} =>
    Cardinality(In("woken")) >= idle + (MaxSize - open)

\* The pool never stands still with a slot left: everybody sleeps in checkout
\* only when panics have cost every slot.
SomeoneAwake == In("asleep") = Threads => leaked = MaxSize

\* Threads that sleep in checkout are not left alone for ever: someone is
\* woken, unless panics have cost every slot.
WaitersWake == (In("asleep") # {}) ~> (In("woken") # {} \/ leaked = MaxSize)

=============================================================================
