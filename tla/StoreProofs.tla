----------------------------- MODULE StoreProofs -----------------------------
(***************************************************************************)
(* What holds of the stores' own machinery whatever its size: the          *)
(* connection pool for any threads and any max_size, the advisory locks    *)
(* for any callers, the files of FsStorage for any putting threads, the    *)
(* watched queries for any rows, connections and writes.                   *)
(***************************************************************************)
EXTENDS ConnectionPool, Sequences, FiniteSetTheorems, WellFoundedInduction, TLAPS

CONSTANTS LockCallers, NamespaceOf, PutBy, ObjectSize, MaxPuts, MaxFaults, NONE
CONSTANTS WatchConns, WatchKeys, RowContents, MaxWatchWrites

VARIABLES lockBackend, lockPc, registry, session, late, lockCut
VARIABLES data, obj, tmp, meta, fsTpc, put, fd, off, puts, rpc, rfd, buf,
          fsFaults
VARIABLES watchBackend, db, txn, owner, watchOut, opened, hooked, hook,
          trigger, pump, feed, worker, watchCall, rows, snapshot, queue, view,
          watchWrites, heard

Locks == INSTANCE AdvisoryLock
  WITH Callers <- LockCallers, None <- NONE, backend <- lockBackend,
       pc <- lockPc, cut <- lockCut

Fs == INSTANCE FsStorage
  WITH Threads <- DOMAIN PutBy, Proc <- PutBy, Chunks <- ObjectSize, tpc <- fsTpc,
       faults <- fsFaults

Watching == INSTANCE Watch
  WITH Conns <- WatchConns, Keys <- WatchKeys, Contents <- RowContents,
       MaxWrites <- MaxWatchWrites, backend <- watchBackend, out <- watchOut,
       call <- watchCall, writes <- watchWrites

ASSUME StoreConstants == Locks!LockConstants /\ Fs!StorageConstants

\* 0 is no content; the pooled connections are not None.
ASSUME WatchConstants == 0 \notin RowContents /\ Watching!None \notin WatchConns
  /\ MaxWatchWrites \in Nat

\* The pool's counter is the number of slots in use and somebody can always go
\* on; the advisory lock lets one caller of a namespace in at a time, keeps a
\* transaction's lock to its COMMIT, and leaves nothing locked behind.
SlotsAndLocksHold ==
  /\ TypeOK /\ SlotAccounting /\ SomeoneAwake
  /\ Locks!TypeOK /\ Locks!OneInside /\ Locks!TxHoldsToCommit /\ Locks!NothingLeaks

\* Readers of an object that is being overwritten, by processes that may die,
\* see one whole version of it.
ReadsWhole == Fs!TypeOK /\ Fs!ReadsWhole

\* The changes a watcher is sent add up to the rows it was last told of, and
\* whatever was signalled before a re-read is in what it reads.
WatchersFollow == Watching!TypeOK /\ Watching!ChangesAddUp /\ Watching!SignalledIsSeen

(***************************************************************************)
(* The pool.  Its three invariants are inductive together: TypeOK needs    *)
(* SlotAccounting (an open slot is behind every decrement), and            *)
(* NoLostWakeup needs both.                                                *)
(***************************************************************************)

Pcs == {"out", "woken", "asleep", "connecting", "using"}

\* The threads a control function puts at pc, and how many they are.
At(f, pc) == {t \in Threads : f[t] = pc}
Count(f, pc) == Cardinality(At(f, pc))

Inv == TypeOK /\ SlotAccounting /\ NoLostWakeup

-----------------------------------------------------------------------------

\* A count is a natural number, and positive exactly when a thread is there.
LEMMA CountType ==
  ASSUME NEW f, NEW pc
  PROVE  /\ Count(f, pc) \in Nat
         /\ IsFiniteSet(At(f, pc))
         /\ At(f, pc) # {} <=> Count(f, pc) > 0
<1>1. IsFiniteSet(At(f, pc))
  BY PoolConstants, FS_Subset DEF At, PoolConstants
<1>2. Cardinality(At(f, pc)) \in Nat
  BY <1>1, FS_CardinalityType
<1>3. Cardinality(At(f, pc)) = 0 <=> At(f, pc) = {}
  BY <1>1, FS_EmptySet
<1>. QED
  BY <1>1, <1>2, <1>3 DEF Count

\* One thread that moves leaves one count and joins another.
LEMMA CountMove ==
  ASSUME NEW f \in [Threads -> Pcs], NEW t \in Threads, NEW q \in Pcs,
         f[t] # q, NEW g \in [Threads -> Pcs],
         g[t] = q, \A x \in Threads : x # t => g[x] = f[x]
  PROVE  /\ g \in [Threads -> Pcs]
         /\ \A pc \in Pcs :
              Count(g, pc) = IF pc = q THEN Count(f, pc) + 1
                             ELSE IF pc = f[t] THEN Count(f, pc) - 1
                             ELSE Count(f, pc)
<1>1. g \in [Threads -> Pcs]
  OBVIOUS
<1>2. SUFFICES ASSUME NEW pc \in Pcs
               PROVE  Count(g, pc) = IF pc = q THEN Count(f, pc) + 1
                                     ELSE IF pc = f[t] THEN Count(f, pc) - 1
                                     ELSE Count(f, pc)
  BY <1>1
<1>3. CASE pc = q
  <2>1. At(g, pc) = At(f, pc) \cup {t} /\ t \notin At(f, pc)
    BY <1>3 DEF At
  <2>2. Cardinality(At(f, pc) \cup {t}) = Cardinality(At(f, pc)) + 1
    BY <2>1, CountType, FS_AddElement
  <2>. QED
    BY <1>3, <2>1, <2>2 DEF Count
<1>4. CASE pc = f[t]
  <2>1. At(g, pc) = At(f, pc) \ {t} /\ t \in At(f, pc)
    BY <1>4 DEF At
  <2>. QED
    BY <1>4, <2>1, CountType, FS_RemoveElement DEF Count
<1>5. CASE pc # q /\ pc # f[t]
  <2>1. At(g, pc) = At(f, pc)
    BY <1>5 DEF At
  <2>. QED
    BY <1>5, <2>1 DEF Count
<1>. QED
  BY <1>3, <1>4, <1>5

\* The same for the state: Moves changes two counts.
LEMMA MovesCounts ==
  ASSUME TypeOK, NEW t \in Threads, NEW q \in Pcs, tpc[t] # q, Moves(t, q)
  PROVE  /\ tpc' \in [Threads -> Pcs]
         /\ \A pc \in Pcs :
              Count(tpc', pc) = IF pc = q THEN Count(tpc, pc) + 1
                                ELSE IF pc = tpc[t] THEN Count(tpc, pc) - 1
                                ELSE Count(tpc, pc)
<1>1. tpc \in [Threads -> Pcs]
  BY DEF TypeOK, Pcs
<1>2. tpc' = [tpc EXCEPT ![t] = q]
  BY DEF Moves
<1>3. tpc' \in [Threads -> Pcs]
  BY <1>1, <1>2
<1>4. tpc'[t] = q /\ \A x \in Threads : x # t => tpc'[x] = tpc[x]
  BY <1>1, <1>2
<1>. QED
  BY <1>1, <1>3, <1>4, CountMove

\* A thread that leaves the pool and notifies: with a sleeper, one count of
\* sleepers becomes one of woken threads.
LEMMA NotifyCounts ==
  ASSUME TypeOK, NEW t \in Threads, tpc[t] \in {"connecting", "using"},
         MovesAndNotifies(t, "out")
  PROVE  /\ tpc' \in [Threads -> Pcs]
         /\ \A pc \in {"connecting", "using"} :
              Count(tpc', pc) = IF pc = tpc[t] THEN Count(tpc, pc) - 1
                                ELSE Count(tpc, pc)
         /\ \/ /\ Count(tpc, "asleep") = 0
               /\ Count(tpc', "asleep") = 0
               /\ Count(tpc', "woken") = Count(tpc, "woken")
            \/ /\ Count(tpc', "asleep") = Count(tpc, "asleep") - 1
               /\ Count(tpc', "woken") = Count(tpc, "woken") + 1
<1>1. CASE In("asleep") = {} /\ Moves(t, "out")
  <2>1. Count(tpc, "asleep") = 0
    <3>1. At(tpc, "asleep") = {}
      BY <1>1 DEF At, In
    <3>. QED
      BY <3>1, FS_EmptySet DEF Count
  <2>2. /\ tpc' \in [Threads -> Pcs]
        /\ \A pc \in Pcs :
             Count(tpc', pc) = IF pc = "out" THEN Count(tpc, pc) + 1
                               ELSE IF pc = tpc[t] THEN Count(tpc, pc) - 1
                               ELSE Count(tpc, pc)
    BY <1>1, MovesCounts DEF Pcs
  <2>. QED
    BY <2>1, <2>2 DEF Pcs
<1>2. CASE \E s \in In("asleep") : tpc' = [tpc EXCEPT ![t] = "out", ![s] = "woken"]
  <2>1. PICK s \in In("asleep") : tpc' = [tpc EXCEPT ![t] = "out", ![s] = "woken"]
    BY <1>2
  <2>. DEFINE g == [tpc EXCEPT ![t] = "out"]
  <2>2. s \in Threads /\ tpc[s] = "asleep" /\ s # t
    BY DEF In
  <2>3. tpc \in [Threads -> Pcs] /\ tpc[t] # "out"
    BY DEF TypeOK, Pcs
  <2>4. /\ g \in [Threads -> Pcs] /\ g[s] = "asleep"
        /\ g[t] = "out" /\ \A x \in Threads : x # t => g[x] = tpc[x]
    BY <2>2, <2>3 DEF Pcs
  <2>5. \A pc \in Pcs : Count(g, pc) = IF pc = "out" THEN Count(tpc, pc) + 1
                                       ELSE IF pc = tpc[t] THEN Count(tpc, pc) - 1
                                       ELSE Count(tpc, pc)
    <3>. HIDE DEF g
    <3>1. "out" \in Pcs
      BY DEF Pcs
    <3>. QED
      BY <2>3, <2>4, <3>1, CountMove
  <2>6. /\ tpc' \in [Threads -> Pcs] /\ tpc'[s] = "woken"
        /\ \A x \in Threads : x # s => tpc'[x] = g[x]
    BY <2>1, <2>2, <2>3 DEF Pcs
  <2>. HIDE DEF g
  <2>7. /\ tpc' \in [Threads -> Pcs]
        /\ \A pc \in Pcs : Count(tpc', pc) = IF pc = "woken" THEN Count(g, pc) + 1
                                             ELSE IF pc = "asleep" THEN Count(g, pc) - 1
                                             ELSE Count(g, pc)
    <3>1. "woken" \in Pcs
      BY DEF Pcs
    <3>. QED
      BY <2>2, <2>4, <2>6, <3>1, CountMove
  <2>. QED
    BY <2>5, <2>7 DEF Pcs
<1>. QED
  BY <1>1, <1>2 DEF MovesAndNotifies

-----------------------------------------------------------------------------

\* The invariants as arithmetic over the counts.
Arith ==
  /\ open \in 0..MaxSize /\ idle \in Nat /\ leaked \in Nat
  /\ tpc \in [Threads -> Pcs]
  /\ open = idle + Count(tpc, "connecting") + Count(tpc, "using") + leaked
  /\ Count(tpc, "asleep") > 0 =>
       Count(tpc, "woken") >= idle + (MaxSize - open)

\* Inv and its arithmetic form are the same formula.
LEMMA InvArith == Inv <=> Arith
<1>1. /\ In("asleep") = At(tpc, "asleep") /\ In("woken") = At(tpc, "woken")
      /\ In("connecting") = At(tpc, "connecting") /\ In("using") = At(tpc, "using")
  BY DEF In, At
<1>2. \A pc \in Pcs : /\ Count(tpc, pc) \in Nat
                      /\ At(tpc, pc) # {} <=> Count(tpc, pc) > 0
  BY CountType
<1>3. Cardinality(At(tpc, "asleep")) = Count(tpc, "asleep")
      /\ Cardinality(At(tpc, "woken")) = Count(tpc, "woken")
      /\ Cardinality(At(tpc, "connecting")) = Count(tpc, "connecting")
      /\ Cardinality(At(tpc, "using")) = Count(tpc, "using")
  BY DEF Count
<1>. QED
  BY <1>1, <1>2, <1>3, PoolConstants
  DEF Inv, Arith, TypeOK, SlotAccounting, NoLostWakeup, Pcs, PoolConstants

-----------------------------------------------------------------------------

\* No step of any thread breaks the arithmetic.
LEMMA ArithStep ==
  ASSUME Arith, NEW t \in Threads,
         Checkout(t) \/ Connect(t) \/ Finish(t) \/ Panic(t) \/ SpuriousWakeup(t)
  PROVE  Arith'
<1>. USE PoolConstants DEF PoolConstants
<1>1. TypeOK
  BY InvArith DEF Inv
<1>2. \A f, pc : Count(f, pc) \in Nat
  BY CountType
<1>3. Count(tpc, tpc[t]) > 0
  <2>1. t \in At(tpc, tpc[t])
    BY DEF At
  <2>. QED
    BY <2>1, CountType
<1>4. CASE PopIdle(t)
  <2>1. tpc[t] \in {"out", "woken"} /\ Moves(t, "using")
    BY <1>4 DEF PopIdle, AtLoop
  <2>2. /\ tpc' \in [Threads -> Pcs]
        /\ Count(tpc', "using") = Count(tpc, "using") + 1
        /\ Count(tpc', "connecting") = Count(tpc, "connecting")
        /\ Count(tpc', "asleep") = Count(tpc, "asleep")
        /\ Count(tpc', "woken") >= Count(tpc, "woken") - 1
    BY <1>1, <1>2, <2>1, MovesCounts DEF Pcs
  <2>. QED
    BY <1>2, <1>4, <2>2 DEF PopIdle, Arith
<1>5. CASE Reserve(t)
  <2>1. tpc[t] \in {"out", "woken"} /\ Moves(t, "connecting")
    BY <1>5 DEF Reserve, AtLoop
  <2>2. /\ tpc' \in [Threads -> Pcs]
        /\ Count(tpc', "connecting") = Count(tpc, "connecting") + 1
        /\ Count(tpc', "using") = Count(tpc, "using")
        /\ Count(tpc', "asleep") = Count(tpc, "asleep")
        /\ Count(tpc', "woken") >= Count(tpc, "woken") - 1
    BY <1>1, <1>2, <2>1, MovesCounts DEF Pcs
  <2>. QED
    BY <1>2, <1>5, <2>2 DEF Reserve, Arith
<1>6. CASE Sleep(t)
  \* Nothing is available, so nothing is asked of the woken threads.
  <2>1. tpc[t] \in {"out", "woken"} /\ Moves(t, "asleep")
    BY <1>6 DEF Sleep, AtLoop
  <2>2. /\ tpc' \in [Threads -> Pcs]
        /\ Count(tpc', "connecting") = Count(tpc, "connecting")
        /\ Count(tpc', "using") = Count(tpc, "using")
    BY <1>1, <2>1, MovesCounts DEF Pcs
  <2>. QED
    BY <1>2, <1>6, <2>2 DEF Sleep, Arith
<1>7. CASE ConnectOk(t)
  <2>1. tpc[t] = "connecting" /\ Moves(t, "using")
    BY <1>7 DEF ConnectOk
  <2>2. /\ tpc' \in [Threads -> Pcs]
        /\ Count(tpc', "connecting") = Count(tpc, "connecting") - 1
        /\ Count(tpc', "using") = Count(tpc, "using") + 1
        /\ Count(tpc', "asleep") = Count(tpc, "asleep")
        /\ Count(tpc', "woken") = Count(tpc, "woken")
    BY <1>1, <2>1, MovesCounts DEF Pcs
  <2>. QED
    BY <1>2, <1>7, <2>2 DEF ConnectOk, Arith
<1>8. CASE ConnectFails(t)
  <2>1. tpc[t] = "connecting" /\ MovesAndNotifies(t, "out")
    BY <1>8 DEF ConnectFails
  <2>2. open > 0
    BY <1>2, <1>3, <2>1 DEF Arith
  <2>. QED
    BY <1>1, <1>2, <1>8, <2>1, <2>2, NotifyCounts DEF ConnectFails, Arith
<1>9. CASE Checkin(t)
  <2>1. tpc[t] = "using" /\ MovesAndNotifies(t, "out")
    BY <1>9 DEF Checkin
  <2>. QED
    BY <1>1, <1>2, <1>9, <2>1, NotifyCounts DEF Checkin, Arith
<1>10. CASE Discard(t)
  <2>1. tpc[t] = "using" /\ MovesAndNotifies(t, "out")
    BY <1>10 DEF Discard
  <2>2. open > 0
    BY <1>2, <1>3, <2>1 DEF Arith
  <2>. QED
    BY <1>1, <1>2, <1>10, <2>1, <2>2, NotifyCounts DEF Discard, Arith
<1>11. CASE Panic(t)
  <2>1. tpc[t] = "using" /\ Moves(t, "out")
    BY <1>11 DEF Panic
  <2>2. /\ tpc' \in [Threads -> Pcs]
        /\ Count(tpc', "connecting") = Count(tpc, "connecting")
        /\ Count(tpc', "using") = Count(tpc, "using") - 1
        /\ Count(tpc', "asleep") = Count(tpc, "asleep")
        /\ Count(tpc', "woken") = Count(tpc, "woken")
    BY <1>1, <2>1, MovesCounts DEF Pcs
  <2>. QED
    BY <1>2, <1>11, <2>2 DEF Panic, Arith
<1>12. CASE SpuriousWakeup(t)
  <2>1. tpc[t] = "asleep" /\ Moves(t, "woken")
    BY <1>12 DEF SpuriousWakeup
  <2>2. /\ tpc' \in [Threads -> Pcs]
        /\ Count(tpc', "connecting") = Count(tpc, "connecting")
        /\ Count(tpc', "using") = Count(tpc, "using")
        /\ Count(tpc', "asleep") = Count(tpc, "asleep") - 1
        /\ Count(tpc', "woken") = Count(tpc, "woken") + 1
    BY <1>1, <2>1, MovesCounts DEF Pcs
  <2>. QED
    BY <1>2, <1>12, <2>2 DEF SpuriousWakeup, Arith
<1>. QED
  BY <1>4, <1>5, <1>6, <1>7, <1>8, <1>9, <1>10, <1>11, <1>12
  DEF Checkout, Connect, Finish

\* For any number of threads and any max_size, with connects that fail,
\* connections that are discarded and closures that panic: at most max_size
\* connections exist, open counts each of them, and no thread sleeps through
\* a connection or a slot that nobody else is on the way to take.
THEOREM PoolSafety == Spec => [](TypeOK /\ SlotAccounting /\ NoLostWakeup)
<1>1. Init => Arith
  <2>. SUFFICES ASSUME Init PROVE Arith
    OBVIOUS
  <2>2. \A pc \in {"connecting", "using", "asleep"} : At(tpc, pc) = {}
    BY DEF Init, At
  <2>3. \A pc \in {"connecting", "using", "asleep"} : Count(tpc, pc) = 0
    BY <2>2, FS_EmptySet DEF Count
  <2>. QED
    BY <2>3, PoolConstants DEF Init, Arith, Pcs, PoolConstants
<1>2. Arith /\ [Next]_vars => Arith'
  <2>1. ASSUME Arith, Next PROVE Arith'
    BY <2>1, ArithStep DEF Next
  <2>2. ASSUME Arith, UNCHANGED vars PROVE Arith'
    BY <2>2 DEF vars, Arith, Count, At
  <2>. QED
    BY <2>1, <2>2
<1>3. Arith => TypeOK /\ SlotAccounting /\ NoLostWakeup
  BY InvArith DEF Inv
<1>. QED
  BY <1>1, <1>2, <1>3, PTL DEF Spec

(***************************************************************************)
(* The advisory locks.                                                     *)
(***************************************************************************)

Locking == {"granted", "held", "txheld", "txdropped"}

\* The registry holds the namespaces of the callers inside, each of one caller.
SqliteInv ==
  /\ session = NONE
  /\ \A c \in LockCallers : lockPc[c] \in {"idle", "poll", "sleep", "held"}
  /\ \A n : n \in registry <=> \E c \in LockCallers : lockPc[c] = "held" /\ NamespaceOf[c] = n
  /\ \A c, d \in LockCallers :
       c # d /\ lockPc[c] = "held" /\ lockPc[d] = "held" => NamespaceOf[c] # NamespaceOf[d]

\* A caller with the lock has the session unless the server has cut it, and
\* the session's caller has the lock unless it has died.
PostgresInv ==
  /\ registry = {}
  /\ \A c \in LockCallers :
       /\ lockPc[c] \in Locking => session = c \/ c \in lockCut
       /\ session = c => lockPc[c] \in Locking \/ (lockPc[c] = "idle" /\ c \in lockCut)

LockInv ==
  /\ Locks!TypeOK
  /\ lockBackend = "sqlite" => SqliteInv
  /\ lockBackend = "postgres" =>
       PostgresInv /\ \A c \in LockCallers : lockPc[c] \notin {"poll", "sleep"}

LEMMA LockInit == Locks!Init => LockInv
<1> SUFFICES ASSUME Locks!Init PROVE LockInv
  OBVIOUS
<1>1. Locks!TypeOK
  BY DEF Locks!Init, Locks!TypeOK, Locks!PCs
<1>2. SqliteInv
  BY DEF Locks!Init, SqliteInv
<1>3. PostgresInv
  BY StoreConstants DEF Locks!Init, PostgresInv, Locking, Locks!LockConstants
<1>4. \A c \in LockCallers : lockPc[c] = "idle"
  BY DEF Locks!Init
<1> QED
  BY <1>1, <1>2, <1>3, <1>4 DEF LockInv

LEMMA LockTypes ==
  ASSUME LockInv, [Locks!Next]_(Locks!vars)
  PROVE  Locks!TypeOK' /\ lockBackend' = lockBackend
<1> USE DEF Locks!TypeOK, Locks!PCs, Locks!To
<1>1. LockInv => Locks!TypeOK
  BY DEF LockInv
<1>2. CASE UNCHANGED Locks!vars
  BY <1>1, <1>2 DEF Locks!vars
<1>3. ASSUME NEW c \in LockCallers, Locks!Step(c) PROVE Locks!TypeOK' /\ lockBackend' = lockBackend
  <2>1. CASE Locks!try_lock(c)
    BY <1>1, <2>1 DEF Locks!try_lock
  <2>2. CASE Locks!lock(c)
    BY <1>1, <2>2 DEF Locks!lock
  <2>3. CASE Locks!Poll(c)
    BY <1>1, <2>3 DEF Locks!Poll
  <2>4. CASE Locks!Wake(c) \/ Locks!Deadline(c)
    BY <1>1, <2>4 DEF Locks!Wake, Locks!Deadline
  <2>5. CASE Locks!Drop(c)
    BY <1>1, <2>5 DEF Locks!Drop
  <2>6. CASE Locks!Grant(c) \/ Locks!StatementTimeout(c) \/ Locks!LiftTimeout(c)
    BY <1>1, <2>6 DEF Locks!Grant, Locks!StatementTimeout, Locks!LiftTimeout
  <2>7. CASE Locks!LiftFails(c) \/ Locks!TxEnd(c)
    BY <1>1, <2>7 DEF Locks!LiftFails, Locks!TxEnd
  <2>8. CASE Locks!Crash(c) \/ Locks!SessionLost(c)
    BY <1>1, <2>8 DEF Locks!Crash, Locks!SessionLost
  <2>9. CASE Locks!Begin(c) \/ Locks!TxTryLock(c) \/ Locks!TxDrop(c)
    BY <1>1, <2>9 DEF Locks!Begin, Locks!TxTryLock, Locks!TxDrop
  <2> QED
    BY <1>3, <2>1, <2>2, <2>3, <2>4, <2>5, <2>6, <2>7, <2>8, <2>9 DEF Locks!Step
<1> QED
  BY <1>2, <1>3 DEF Locks!Next

\* SQLite: the test and the insert are one step, so a registered namespace has
\* one holder.
LEMMA SqliteStep ==
  ASSUME Locks!TypeOK, SqliteInv, lockBackend = "sqlite", [Locks!Next]_(Locks!vars)
  PROVE  SqliteInv'
<1> USE DEF Locks!TypeOK, SqliteInv, Locks!To
<1>1. CASE UNCHANGED Locks!vars
  BY <1>1 DEF Locks!vars
<1>2. ASSUME NEW c \in LockCallers, Locks!Step(c) PROVE SqliteInv'
  <2>1. CASE Locks!try_lock(c)
    BY <2>1 DEF Locks!try_lock, Locks!Free
  <2>2. CASE Locks!lock(c)
    BY <2>2 DEF Locks!lock, Locks!Idle
  <2>3. CASE Locks!Poll(c)
    BY <2>3 DEF Locks!Poll, Locks!Free
  <2>4. CASE Locks!Wake(c) \/ Locks!Deadline(c)
    BY <2>4 DEF Locks!Wake, Locks!Deadline
  <2>5. CASE Locks!Drop(c)
    BY <2>5 DEF Locks!Drop
  <2>6. session # c
    BY StoreConstants DEF Locks!LockConstants
  <2> QED
    BY <1>2, <2>1, <2>2, <2>3, <2>4, <2>5, <2>6
       DEF Locks!Step, Locks!Grant, Locks!StatementTimeout, Locks!LiftTimeout, Locks!LiftFails,
           Locks!Crash, Locks!SessionLost, Locks!Begin, Locks!TxTryLock, Locks!TxDrop, Locks!TxEnd
<1> QED
  BY <1>1, <1>2 DEF Locks!Next

\* PostgreSQL: the server gives the lock to one session, and a caller that has
\* lost its session is marked.
LEMMA PostgresStep ==
  ASSUME Locks!TypeOK, PostgresInv, lockBackend = "postgres", [Locks!Next]_(Locks!vars),
         \A c \in LockCallers : lockPc[c] \notin {"poll", "sleep"}
  PROVE  PostgresInv' /\ \A c \in LockCallers : lockPc'[c] \notin {"poll", "sleep"}
<1> USE DEF Locks!TypeOK, PostgresInv, Locks!To, Locking
<1>1. CASE UNCHANGED Locks!vars
  BY <1>1 DEF Locks!vars
<1>2. ASSUME NEW c \in LockCallers, Locks!Step(c)
      PROVE  PostgresInv' /\ \A d \in LockCallers : lockPc'[d] \notin {"poll", "sleep"}
  <2>0. NONE \notin LockCallers
    BY StoreConstants DEF Locks!LockConstants
  <2>1. CASE Locks!lock(c)
    BY <2>1 DEF Locks!lock, Locks!Idle
  <2>2. CASE Locks!Deadline(c) \/ Locks!StatementTimeout(c)
    BY <2>2 DEF Locks!Deadline, Locks!StatementTimeout
  <2>3. CASE Locks!Drop(c)
    BY <2>0, <2>3 DEF Locks!Drop
  <2>4. CASE Locks!Grant(c)
    BY <2>0, <2>4 DEF Locks!Grant
  <2>5. CASE Locks!LiftTimeout(c)
    BY <2>5 DEF Locks!LiftTimeout
  <2>6. CASE Locks!LiftFails(c)
    BY <2>0, <2>6 DEF Locks!LiftFails
  <2>7. CASE Locks!Crash(c)
    BY <2>7 DEF Locks!Crash
  <2>8. CASE Locks!SessionLost(c)
    BY <2>0, <2>8 DEF Locks!SessionLost
  <2>9. CASE Locks!Begin(c)
    BY <2>9 DEF Locks!Begin, Locks!Idle
  <2>10. CASE Locks!TxTryLock(c)
    BY <2>0, <2>10 DEF Locks!TxTryLock
  <2>11. CASE Locks!TxDrop(c)
    BY <2>11 DEF Locks!TxDrop
  <2>12. CASE Locks!TxEnd(c)
    BY <2>0, <2>12 DEF Locks!TxEnd
  <2> QED
    BY <1>2, <2>1, <2>2, <2>3, <2>4, <2>5, <2>6, <2>7, <2>8, <2>9, <2>10, <2>11, <2>12
       DEF Locks!Step, Locks!try_lock, Locks!Poll, Locks!Wake
<1> QED
  BY <1>1, <1>2 DEF Locks!Next

LEMMA LockNext == LockInv /\ [Locks!Next]_(Locks!vars) => LockInv'
  BY LockTypes, SqliteStep, PostgresStep DEF LockInv

LEMMA LockSafe == LockInv => Locks!TypeOK /\ Locks!OneInside /\ Locks!TxHoldsToCommit /\ Locks!NothingLeaks
<1> SUFFICES ASSUME LockInv
             PROVE  Locks!OneInside /\ Locks!TxHoldsToCommit /\ Locks!NothingLeaks
  BY DEF LockInv
<1> USE DEF LockInv, SqliteInv, PostgresInv, Locking, Locks!TypeOK
<1>1. Locks!OneInside
  BY DEF Locks!OneInside, Locks!Inside
<1>2. Locks!TxHoldsToCommit
  BY DEF Locks!TxHoldsToCommit
<1>3. Locks!NothingLeaks
  BY DEF Locks!NothingLeaks
<1> QED
  BY <1>1, <1>2, <1>3

\* For any callers, namespaces, timeouts and lost sessions: one caller of a
\* namespace is inside, a transaction keeps the lock to its end, and nobody
\* waits for a lock that nobody has.
THEOREM LocksExclude ==
  Locks!Spec => [](Locks!OneInside /\ Locks!TxHoldsToCommit /\ Locks!NothingLeaks)
<1> QED
  BY LockInit, LockNext, LockSafe, PTL DEF Locks!Spec

\* The sleepers of the pool are all its threads only when no slot is left.
LEMMA Awake == TypeOK /\ SlotAccounting /\ NoLostWakeup => SomeoneAwake
<1> SUFFICES ASSUME TypeOK, SlotAccounting, NoLostWakeup, In("asleep") = Threads
             PROVE  leaked = MaxSize
  BY DEF SomeoneAwake
<1>1. \A pc : pc # "asleep" => In(pc) = {}
  BY DEF In
<1>2. Cardinality(In("woken")) = 0 /\ Cardinality(In("connecting")) = 0 /\ Cardinality(In("using")) = 0
  BY <1>1, FS_EmptySet
<1>3. idle + (MaxSize - open) <= 0
  BY <1>2, PoolConstants DEF NoLostWakeup, PoolConstants, TypeOK
<1> QED
  BY <1>2, <1>3, PoolConstants DEF PoolConstants, TypeOK, SlotAccounting

\* What the run checks of slots and locks, for any number of threads, slots and
\* callers.
THEOREM SlotsAndLocksAreSafe == Spec /\ Locks!Spec => []SlotsAndLocksHold
<1>1. LockInv => Locks!TypeOK /\ Locks!OneInside /\ Locks!TxHoldsToCommit /\ Locks!NothingLeaks
  BY LockSafe
<1>2. Locks!Spec => []LockInv
  BY LockInit, LockNext, PTL DEF Locks!Spec
<1>3. (TypeOK /\ SlotAccounting /\ NoLostWakeup) /\ LockInv => SlotsAndLocksHold
  BY Awake, <1>1 DEF SlotsAndLocksHold
<1> QED
  BY PoolSafety, <1>2, <1>3, PTL

(***************************************************************************)
(* The files, with each putting thread in a process of its own.            *)
(***************************************************************************)

Writers == DOMAIN PutBy

\* No two threads that put share a process, and so a temporary file.
OwnProcess == \A t, u \in Writers : PutBy[t] = PutBy[u] => t = u

Writing(t) == fsTpc[t] \in {"write", "rename"}
Published(i) == obj = i \/ (rpc # "idle" /\ rfd = i)

\* n pieces of put v.
PiecesOf(n, v) == [i \in 1..n |-> v]

\* A writer between open and rename has its process's temporary file to
\* itself and has written a prefix of its put.
WriterInv(t) ==
  /\ fd[t] \in 1..puts /\ tmp[PutBy[t]] = fd[t] /\ put[t] \in 1..MaxPuts
  /\ data[fd[t]] = PiecesOf(off[t], put[t])
  /\ fsTpc[t] = "write" => off[t] < ObjectSize
  /\ fsTpc[t] = "rename" => off[t] = ObjectSize

\* Inodes are handed out in order, no two processes have one temporary file,
\* and what the object's name or a reader stands for is whole and has no
\* temporary name.
InodeInv ==
  /\ obj # NONE => obj \in 1..puts
  /\ rpc # "idle" => rfd \in 1..puts
  /\ \A p \in Fs!Processes : tmp[p] # NONE => tmp[p] \in 1..puts
  /\ \A p, q \in Fs!Processes : tmp[p] # NONE /\ tmp[p] = tmp[q] => p = q
  /\ \A i \in 1..MaxPuts :
       Published(i) => Fs!Whole(data[i]) /\ \A p \in Fs!Processes : tmp[p] # i

\* A reader has read a prefix of its inode.
ReaderInv ==
  rpc # "idle" =>
    /\ buf \in Seq(0..MaxPuts) /\ Len(buf) <= ObjectSize
    /\ \A i \in 1..Len(buf) : buf[i] = data[rfd][i]
    /\ rpc = "done" => Len(buf) = ObjectSize

FsInv ==
  /\ Fs!TypeOK
  /\ DOMAIN data = 1..MaxPuts /\ data = [i \in 1..MaxPuts |-> data[i]]
  /\ fd = [t \in Writers |-> fd[t]]
  /\ InodeInv
  /\ \A t \in Writers : Writing(t) => WriterInv(t)
  /\ ReaderInv

\* Writing the next piece at the end of a prefix makes the prefix longer.
LEMMA NextPiece ==
  ASSUME NEW n \in Nat, NEW v
  PROVE  /\ Len(PiecesOf(n, v)) = n
         /\ Fs!Written(PiecesOf(n, v), n, v) = PiecesOf(n + 1, v)
<1>1. PiecesOf(n, v) \in Seq({v}) /\ Len(PiecesOf(n, v)) = n
  BY DEF PiecesOf
<1>2. \A i \in 1..(n + 1) : i # n + 1 => i <= n /\ PiecesOf(n, v)[i] = v
  BY DEF PiecesOf
<1> QED
  BY <1>1, <1>2 DEF Fs!Written, PiecesOf

LEMMA FsInit == Fs!Init => FsInv
<1> SUFFICES ASSUME Fs!Init PROVE FsInv
  OBVIOUS
<1> USE StoreConstants DEF Fs!Init, Fs!StorageConstants, Fs!Inodes
<1>1. Fs!TypeOK
  BY DEF Fs!TypeOK, Fs!Processes, Fs!Puts, Fs!Empty
<1>2. InodeInv
  BY DEF InodeInv, Published
<1>3. ReaderInv /\ \A t \in Writers : ~Writing(t)
  BY DEF ReaderInv, Writing, Writers
<1> QED
  BY <1>1, <1>2, <1>3 DEF FsInv, Writers

\* Types are kept; the object's name and a temporary one never meet.
LEMMA FsTypes ==
  ASSUME FsInv, [Fs!Next]_(Fs!vars)
  PROVE  /\ Fs!TypeOK'
         /\ DOMAIN data' = 1..MaxPuts /\ data' = [i \in 1..MaxPuts |-> data'[i]]
         /\ fd' = [t \in Writers |-> fd'[t]]
<1> DEFINE T == /\ Fs!TypeOK'
                /\ DOMAIN data' = 1..MaxPuts /\ data' = [i \in 1..MaxPuts |-> data'[i]]
                /\ fd' = [t \in Writers |-> fd'[t]]
<1> USE StoreConstants DEF Fs!StorageConstants, Fs!Inodes, Fs!Puts, Fs!Empty, Fs!Goes, Fs!reader, Writers
<1>0. /\ Fs!TypeOK /\ InodeInv
      /\ DOMAIN data = 1..MaxPuts /\ data = [i \in 1..MaxPuts |-> data[i]]
      /\ fd = [t \in Writers |-> fd[t]]
  BY DEF FsInv
<1>1. \A t \in Writers : PutBy[t] \in Fs!Processes
  BY DEF Fs!Processes
<1> HIDE DEF T
<1>2. CASE UNCHANGED Fs!vars
  BY <1>0, <1>2 DEF Fs!vars, Fs!TypeOK, T
<1>3. ASSUME NEW t \in Writers, Fs!Put(t) PROVE T
  <2>1. CASE Fs!OpenTmp(t)
    <3> DEFINE p == PutBy[t]
               i == IF tmp[p] # NONE THEN tmp[p] ELSE puts + 1
    <3>1. i \in 1..MaxPuts /\ p \in Fs!Processes /\ puts + 1 \in 1..MaxPuts
      BY <1>0, <1>1, <2>1 DEF Fs!OpenTmp, Fs!TypeOK
    <3>2. obj # NONE => obj # i
      BY <1>0, <1>1 DEF Fs!TypeOK, InodeInv
    <3>3. /\ puts' = puts + 1 /\ put' = [put EXCEPT ![t] = puts + 1]
          /\ tmp' = [tmp EXCEPT ![p] = i] /\ data' = [data EXCEPT ![i] = <<>>]
          /\ fd' = [fd EXCEPT ![t] = i] /\ off' = [off EXCEPT ![t] = 0]
          /\ fsTpc' = [fsTpc EXCEPT ![t] = "write"]
          /\ UNCHANGED <<obj, meta, rpc, fsFaults>>
      BY <2>1 DEF Fs!OpenTmp
    <3> HIDE DEF i, p
    <3>4. DOMAIN data' = 1..MaxPuts /\ data' = [j \in 1..MaxPuts |-> data'[j]]
      BY <1>0, <3>1, <3>3
    <3>5. fd' = [u \in Writers |-> fd'[u]]
      BY <1>0, <3>3
    <3>6. tmp' \in [Fs!Processes -> Fs!Inodes \cup {NONE}]
      BY <1>0, <3>1, <3>3 DEF Fs!TypeOK
    <3>7. obj' # NONE => \A q \in Fs!Processes : tmp'[q] # obj'
      BY <1>0, <3>1, <3>2, <3>3 DEF Fs!TypeOK
    <3> QED
      BY <1>0, <3>1, <3>3, <3>4, <3>5, <3>6, <3>7 DEF Fs!TypeOK, T
  <2>2. CASE Fs!WritePiece(t)
    <3>1. off[t] < ObjectSize
      BY <2>2 DEF FsInv, Writing, WriterInv, Fs!WritePiece
    <3>2. DOMAIN data' = 1..MaxPuts /\ data' = [i \in 1..MaxPuts |-> data'[i]]
      BY <1>0, <2>2 DEF Fs!WritePiece
    <3>3. Fs!TypeOK' /\ UNCHANGED fd
      BY <1>0, <2>2, <3>1 DEF Fs!WritePiece, Fs!TypeOK
    <3> QED
      BY <1>0, <3>2, <3>3 DEF T
  <2>3. CASE Fs!Rename(t)
    <3>1. \A q \in Fs!Processes : q # PutBy[t] => tmp[q] # tmp[PutBy[t]]
      BY <1>0, <1>1, <2>3 DEF Fs!Rename, InodeInv
    <3> QED
      BY <1>0, <1>1, <2>3, <3>1 DEF Fs!Rename, Fs!TypeOK, T
  <2>4. CASE Fs!RenameFails(t)
    <3>1. fsFaults' \in 0..MaxFaults
      BY <1>0, <2>4 DEF Fs!RenameFails, Fs!TypeOK
    <3>2. /\ tmp' = [tmp EXCEPT ![PutBy[t]] = NONE] /\ fsTpc' = [fsTpc EXCEPT ![t] = "idle"]
          /\ UNCHANGED <<data, obj, meta, put, fd, off, puts, rpc>>
      BY <2>4 DEF Fs!RenameFails
    <3> QED
      BY <1>0, <1>1, <3>1, <3>2 DEF Fs!TypeOK, T
  <2>5. CASE Fs!WriteFails(t)
    BY <1>0, <2>5 DEF Fs!WriteFails, Fs!TypeOK, T
  <2>6. CASE Fs!OpenMeta(t)
    BY <1>0, <2>6 DEF Fs!OpenMeta, Fs!TypeOK, T
  <2>7. CASE Fs!WriteMeta(t)
    BY <1>0, <2>7 DEF Fs!WriteMeta, Fs!TypeOK, T
  <2>8. CASE Fs!MetaFails(t)
    BY <1>0, <2>8 DEF Fs!MetaFails, Fs!TypeOK, T
  <2> QED
    BY <1>3, <2>1, <2>2, <2>3, <2>4, <2>5, <2>6, <2>7, <2>8 DEF Fs!Put
<1>4. ASSUME NEW t \in Writers, Fs!Delete(t) \/ Fs!DeleteMeta(t) PROVE T
  BY <1>0, <1>4 DEF Fs!Delete, Fs!DeleteMeta, Fs!TypeOK, T
<1>5. CASE Fs!Get
  BY <1>0, <1>5 DEF Fs!Get, Fs!OpenObject, Fs!ReadPiece, Fs!ReadEnd, Fs!ReadAgain, Fs!TypeOK, T
<1>6. ASSUME NEW p \in Fs!Processes, Fs!Crash(p) PROVE T
  BY <1>0, <1>6 DEF Fs!Crash, Fs!TypeOK, T
<1> QED
  BY <1>2, <1>3, <1>4, <1>5, <1>6 DEF Fs!Next, T

\* Opening the temporary file truncates an inode that nobody reads and no other
\* process writes.
LEMMA FsOpen ==
  ASSUME OwnProcess, FsInv, NEW t \in Writers, Fs!OpenTmp(t)
  PROVE  InodeInv' /\ ReaderInv' /\ \A u \in Writers : Writing(u)' => WriterInv(u)'
<1> USE StoreConstants DEF Fs!StorageConstants, Fs!Inodes, Fs!Puts, Writers
<1> DEFINE p == PutBy[t]
           i == IF tmp[p] # NONE THEN tmp[p] ELSE puts + 1
<1>0. /\ Fs!TypeOK /\ InodeInv /\ ReaderInv /\ \A u \in Writers : PutBy[u] \in Fs!Processes
      /\ DOMAIN data = 1..MaxPuts /\ data = [j \in 1..MaxPuts |-> data[j]]
      /\ fd = [u \in Writers |-> fd[u]]
  BY DEF FsInv, Fs!Processes
<1>1. /\ i \in 1..(puts + 1) /\ p \in Fs!Processes /\ puts \in Nat /\ puts + 1 <= MaxPuts
      /\ i \in 1..MaxPuts
  BY <1>0 DEF Fs!OpenTmp, Fs!TypeOK, InodeInv
<1>2. ~Published(i)
  BY <1>0, <1>1 DEF InodeInv, Published, Fs!TypeOK
<1>3. \A q \in Fs!Processes : q # p => tmp[q] # i
  BY <1>0, <1>1 DEF InodeInv, Fs!TypeOK
<1>4. /\ puts' = puts + 1 /\ put' = [put EXCEPT ![t] = puts + 1]
      /\ tmp' = [tmp EXCEPT ![p] = i] /\ data' = [data EXCEPT ![i] = <<>>]
      /\ fd' = [fd EXCEPT ![t] = i] /\ off' = [off EXCEPT ![t] = 0]
      /\ fsTpc' = [fsTpc EXCEPT ![t] = "write"]
      /\ UNCHANGED <<obj, rpc, rfd, buf>>
  BY DEF Fs!OpenTmp, Fs!Goes, Fs!reader
<1> HIDE DEF i, p
<1>5. \A j \in 1..MaxPuts : j # i => data'[j] = data[j]
  BY <1>0, <1>4
<1>6. \A j \in 1..MaxPuts : Published(j)' <=> Published(j)
  BY <1>4 DEF Published
<1>7. \A q \in Fs!Processes : tmp'[q] = IF q = p THEN i ELSE tmp[q]
  BY <1>0, <1>1, <1>4 DEF Fs!TypeOK
<1>8. InodeInv'
  <2>1. obj' # NONE => obj' \in 1..puts'
    BY <1>0, <1>1, <1>4 DEF InodeInv
  <2>2. rpc' # "idle" => rfd' \in 1..puts'
    BY <1>0, <1>1, <1>4 DEF InodeInv
  <2>3. \A q \in Fs!Processes : tmp'[q] # NONE => tmp'[q] \in 1..puts'
    BY <1>0, <1>1, <1>4, <1>7 DEF InodeInv
  <2>4. \A q, r \in Fs!Processes : tmp'[q] # NONE /\ tmp'[q] = tmp'[r] => q = r
    BY <1>0, <1>3, <1>7 DEF InodeInv
  <2>5. ASSUME NEW j \in 1..MaxPuts, Published(j)'
        PROVE  Fs!Whole(data[j])' /\ \A q \in Fs!Processes : tmp'[q] # j
    <3>1. Published(j) /\ j # i
      BY <1>2, <1>6, <2>5
    <3>2. Fs!Whole(data[j]) /\ \A q \in Fs!Processes : tmp[q] # j
      BY <1>0, <3>1 DEF InodeInv
    <3>3. data'[j] = data[j] /\ \A q \in Fs!Processes : tmp'[q] # j
      BY <1>5, <1>7, <3>1, <3>2
    <3> QED
      BY <3>2, <3>3 DEF Fs!Whole
  <2> QED
    BY <2>1, <2>2, <2>3, <2>4, <2>5 DEF InodeInv
<1>9. ReaderInv'
  <2>1. rpc # "idle" => rfd \in 1..MaxPuts /\ rfd # i
    BY <1>0, <1>1, <1>2 DEF Published, InodeInv
  <2>2. rpc # "idle" => data'[rfd] = data[rfd]
    BY <1>5, <2>1
  <2> QED
    BY <1>0, <1>4, <2>2 DEF ReaderInv
<1>10. ASSUME NEW u \in Writers, Writing(u)' PROVE WriterInv(u)'
  <2>1. CASE u = t
    <3>1. fd'[u] = i /\ put'[u] = puts + 1 /\ off'[u] = 0 /\ fsTpc'[u] = "write" /\ data'[i] = <<>>
      BY <1>0, <1>1, <1>4, <2>1 DEF Fs!TypeOK
    <3>2. <<>> = PiecesOf(0, puts + 1)
      BY DEF PiecesOf
    <3>3. tmp'[PutBy[u]] = i
      BY <1>1, <1>7, <2>1 DEF p
    <3> QED
      BY <1>1, <1>4, <3>1, <3>2, <3>3 DEF WriterInv
  <2>2. CASE u # t
    <3>1. fd'[u] = fd[u] /\ put'[u] = put[u] /\ off'[u] = off[u] /\ fsTpc'[u] = fsTpc[u]
      BY <1>0, <1>4, <2>2 DEF Fs!TypeOK
    <3>2. Writing(u) /\ WriterInv(u)
      BY <1>10, <3>1 DEF FsInv, Writing
    <3>3. PutBy[u] # p /\ PutBy[u] \in Fs!Processes
      BY <1>0, <2>2 DEF OwnProcess, p
    <3>4. tmp'[PutBy[u]] = tmp[PutBy[u]] /\ fd[u] # i
      BY <1>3, <1>7, <3>2, <3>3 DEF WriterInv
    <3>5. data'[fd[u]] = data[fd[u]] /\ fd[u] \in 1..puts'
      BY <1>1, <1>4, <1>5, <3>2, <3>4 DEF WriterInv
    <3> QED
      BY <3>1, <3>2, <3>4, <3>5 DEF WriterInv
  <2> QED
    BY <2>1, <2>2
<1> QED
  BY <1>8, <1>9, <1>10

\* A write goes to the end of the writer's own prefix.
LEMMA FsWrite ==
  ASSUME OwnProcess, FsInv, NEW t \in Writers, Fs!WritePiece(t)
  PROVE  InodeInv' /\ ReaderInv' /\ \A u \in Writers : Writing(u)' => WriterInv(u)'
<1> USE StoreConstants DEF Fs!StorageConstants, Fs!Inodes, Fs!Puts, Writers
<1>0. /\ Fs!TypeOK /\ InodeInv /\ ReaderInv /\ \A u \in Writers : PutBy[u] \in Fs!Processes
      /\ DOMAIN data = 1..MaxPuts /\ data = [j \in 1..MaxPuts |-> data[j]]
  BY DEF FsInv, Fs!Processes
<1>1. WriterInv(t) /\ fsTpc[t] = "write"
  BY DEF FsInv, Writing, Fs!WritePiece
<1>2. /\ data' = [data EXCEPT ![fd[t]] = Fs!Written(@, off[t], put[t])]
      /\ off' = [off EXCEPT ![t] = @ + 1]
      /\ fsTpc' = [fsTpc EXCEPT ![t] = IF off[t] + 1 = ObjectSize THEN "rename" ELSE "write"]
      /\ UNCHANGED <<obj, tmp, put, fd, puts, rpc, rfd, buf>>
  BY DEF Fs!WritePiece, Fs!Goes, Fs!reader
<1>3. fd[t] \in 1..MaxPuts /\ off[t] \in Nat /\ ~Published(fd[t])
  BY <1>0, <1>1 DEF WriterInv, InodeInv, Fs!TypeOK
<1>4. \A j \in 1..MaxPuts : j # fd[t] => data'[j] = data[j]
  BY <1>0, <1>2
<1>5. data'[fd[t]] = PiecesOf(off[t] + 1, put[t])
  BY <1>0, <1>1, <1>2, <1>3, NextPiece DEF WriterInv
<1>6. InodeInv'
  <2>1. ASSUME NEW j \in 1..MaxPuts, Published(j)'
        PROVE  Fs!Whole(data[j])' /\ \A q \in Fs!Processes : tmp'[q] # j
    <3>1. Published(j) /\ j # fd[t]
      BY <1>2, <1>3, <2>1 DEF Published
    <3>2. Fs!Whole(data[j]) /\ \A q \in Fs!Processes : tmp[q] # j
      BY <1>0, <3>1 DEF InodeInv
    <3>3. data'[j] = data[j]
      BY <1>4, <3>1
    <3> QED
      BY <1>2, <3>2, <3>3 DEF Fs!Whole
  <2> QED
    BY <1>0, <1>2, <2>1 DEF InodeInv
<1>7. ReaderInv'
  <2>1. rpc # "idle" => rfd \in 1..MaxPuts /\ rfd # fd[t]
    BY <1>0, <1>3 DEF Published, InodeInv, Fs!TypeOK
  <2> QED
    BY <1>0, <1>2, <1>4, <2>1 DEF ReaderInv
<1>8. ASSUME NEW u \in Writers, Writing(u)' PROVE WriterInv(u)'
  <2>1. CASE u = t
    <3>1. off'[t] = off[t] + 1 /\ fsTpc'[t] = IF off[t] + 1 = ObjectSize THEN "rename" ELSE "write"
      BY <1>0, <1>2 DEF Fs!TypeOK
    <3>2. off[t] + 1 <= ObjectSize
      BY <1>1, <1>3 DEF WriterInv
    <3>3. off[t] + 1 # ObjectSize => off[t] + 1 < ObjectSize
      BY <1>3, <3>2
    <3> QED
      BY <1>1, <1>2, <1>5, <2>1, <3>1, <3>3 DEF WriterInv
  <2>2. CASE u # t
    <3>1. off'[u] = off[u] /\ fsTpc'[u] = fsTpc[u]
      BY <1>0, <1>2, <2>2 DEF Fs!TypeOK
    <3>2. Writing(u) /\ WriterInv(u)
      BY <1>8, <3>1 DEF FsInv, Writing
    <3>3. fd[u] # fd[t]
      BY <1>0, <1>1, <2>2, <3>2 DEF WriterInv, InodeInv, OwnProcess
    <3>4. data'[fd[u]] = data[fd[u]]
      BY <1>0, <1>4, <3>2, <3>3 DEF WriterInv, Fs!TypeOK
    <3> QED
      BY <1>2, <3>1, <3>2, <3>4 DEF WriterInv
  <2> QED
    BY <2>1, <2>2
<1> QED
  BY <1>6, <1>7, <1>8

\* The rename publishes a finished put, and its name as a temporary one goes.
LEMMA FsRename ==
  ASSUME OwnProcess, FsInv, NEW t \in Writers, Fs!Rename(t)
  PROVE  InodeInv' /\ ReaderInv' /\ \A u \in Writers : Writing(u)' => WriterInv(u)'
<1> USE StoreConstants DEF Fs!StorageConstants, Fs!Inodes, Fs!Puts, Writers
<1>0. /\ Fs!TypeOK /\ InodeInv /\ ReaderInv /\ \A u \in Writers : PutBy[u] \in Fs!Processes
  BY DEF FsInv, Fs!Processes
<1>1. WriterInv(t) /\ fsTpc[t] = "rename" /\ tmp[PutBy[t]] = fd[t]
  BY DEF FsInv, Writing, Fs!Rename, WriterInv
<1>2. /\ obj' = fd[t] /\ tmp' = [tmp EXCEPT ![PutBy[t]] = NONE]
      /\ fsTpc' = [fsTpc EXCEPT ![t] = "meta_open"]
      /\ UNCHANGED <<data, put, fd, off, puts, rpc, rfd, buf>>
  BY <1>1 DEF Fs!Rename, Fs!Goes, Fs!reader
<1>3. fd[t] \in 1..puts /\ fd[t] \in 1..MaxPuts
  BY <1>0, <1>1 DEF WriterInv, Fs!TypeOK
<1>4. \A q \in Fs!Processes : tmp'[q] = IF q = PutBy[t] THEN NONE ELSE tmp[q]
  BY <1>0, <1>2 DEF Fs!TypeOK
<1>5. InodeInv'
  <2>1. Fs!Whole(data[fd[t]]) /\ \A q \in Fs!Processes : tmp'[q] # fd[t]
    <3>1. data[fd[t]] = [k \in 1..ObjectSize |-> put[t]] /\ put[t] \in 1..MaxPuts
      BY <1>1 DEF WriterInv, PiecesOf
    <3>2. \A q \in Fs!Processes : tmp'[q] # fd[t]
      BY <1>0, <1>1, <1>3, <1>4 DEF InodeInv
    <3> QED
      BY <3>1, <3>2 DEF Fs!Whole
  <2>2. ASSUME NEW j \in 1..MaxPuts, Published(j)'
        PROVE  Fs!Whole(data[j])' /\ \A q \in Fs!Processes : tmp'[q] # j
    <3>1. CASE j = fd[t]
      BY <1>2, <2>1, <3>1 DEF Fs!Whole
    <3>2. CASE j # fd[t]
      <4>1. Published(j)
        BY <1>2, <2>2, <3>2 DEF Published
      <4>2. Fs!Whole(data[j]) /\ \A q \in Fs!Processes : tmp[q] # j
        BY <1>0, <4>1 DEF InodeInv
      <4>3. \A q \in Fs!Processes : tmp'[q] # j
        BY <1>4, <4>2
      <4> QED
        BY <1>2, <4>2, <4>3 DEF Fs!Whole
    <3> QED
      BY <3>1, <3>2
  <2>3. \A q, r \in Fs!Processes : tmp'[q] # NONE /\ tmp'[q] = tmp'[r] => q = r
    BY <1>0, <1>4 DEF InodeInv
  <2> QED
    BY <1>0, <1>2, <1>3, <1>4, <2>2, <2>3 DEF InodeInv
<1>6. ReaderInv'
  BY <1>0, <1>2 DEF ReaderInv
<1>7. ASSUME NEW u \in Writers, Writing(u)' PROVE WriterInv(u)'
  <2>1. u # t /\ fsTpc'[u] = fsTpc[u]
    BY <1>0, <1>2, <1>7 DEF Fs!TypeOK, Writing
  <2>2. WriterInv(u) /\ PutBy[u] # PutBy[t]
    BY <1>7, <2>1 DEF FsInv, Writing, OwnProcess
  <2>3. tmp'[PutBy[u]] = tmp[PutBy[u]]
    BY <1>0, <1>4, <2>2
  <2> QED
    BY <1>2, <2>1, <2>2, <2>3 DEF WriterInv
<1> QED
  BY <1>5, <1>6, <1>7

\* A step that takes away names and stops writers disturbs nothing: failed
\* renames and writes, deletes, crashes, the sidecar.
LEMMA FsQuiet ==
  ASSUME OwnProcess, FsInv,
         UNCHANGED <<data, put, fd, off, puts, rpc, rfd, buf>>,
         obj' \in {obj, NONE},
         \A q \in Fs!Processes : tmp'[q] \in {tmp[q], NONE},
         \A u \in Writers : Writing(u)' =>
           fsTpc'[u] = fsTpc[u] /\ tmp'[PutBy[u]] = tmp[PutBy[u]]
  PROVE  InodeInv' /\ ReaderInv' /\ \A u \in Writers : Writing(u)' => WriterInv(u)'
<1> USE StoreConstants DEF Fs!StorageConstants, Fs!Inodes, Fs!Puts, Writers
<1>0. /\ Fs!TypeOK /\ InodeInv /\ ReaderInv
      /\ \A u \in Writers : Writing(u)' => Writing(u) /\ WriterInv(u)
  BY DEF FsInv, Writing
<1>1. InodeInv'
  <2>1. ASSUME NEW j \in 1..MaxPuts, Published(j)'
        PROVE  Fs!Whole(data[j])' /\ \A q \in Fs!Processes : tmp'[q] # j
    <3>1. Published(j)
      BY <2>1 DEF Published
    <3>2. Fs!Whole(data[j]) /\ \A q \in Fs!Processes : tmp[q] # j
      BY <1>0, <3>1 DEF InodeInv
    <3>3. \A q \in Fs!Processes : tmp'[q] # j
      BY <3>2
    <3> QED
      BY <3>2, <3>3 DEF Fs!Whole
  <2>2. \A q, r \in Fs!Processes : tmp'[q] # NONE /\ tmp'[q] = tmp'[r] => q = r
    BY <1>0 DEF InodeInv
  <2>3. \A q \in Fs!Processes : tmp'[q] # NONE => tmp'[q] \in 1..puts'
    BY <1>0 DEF InodeInv
  <2> QED
    BY <1>0, <2>1, <2>2, <2>3 DEF InodeInv
<1>2. ReaderInv'
  BY <1>0 DEF ReaderInv
<1>3. \A u \in Writers : Writing(u)' => WriterInv(u)'
  BY <1>0 DEF WriterInv
<1> QED
  BY <1>1, <1>2, <1>3

\* A reader opens what is published, and reads what stays as it is.
LEMMA FsGet ==
  ASSUME FsInv, Fs!Get
  PROVE  InodeInv' /\ ReaderInv' /\ \A u \in Writers : Writing(u)' => WriterInv(u)'
<1> USE StoreConstants DEF Fs!StorageConstants, Fs!Inodes, Fs!Puts, Writers
<1>0. /\ Fs!TypeOK /\ InodeInv /\ ReaderInv
      /\ \A u \in Writers : Writing(u) => WriterInv(u)
  BY DEF FsInv
<1>1. UNCHANGED <<data, obj, tmp, fsTpc, put, fd, off, puts>>
  BY DEF Fs!Get, Fs!OpenObject, Fs!ReadPiece, Fs!ReadEnd, Fs!ReadAgain
<1>2. \A u \in Writers : Writing(u)' => WriterInv(u)'
  BY <1>0, <1>1 DEF Writing, WriterInv
<1>3. rpc = "read" => /\ rfd \in 1..MaxPuts /\ Fs!Whole(data[rfd])
                      /\ \E v \in 1..MaxPuts : data[rfd] = PiecesOf(ObjectSize, v) /\ Len(data[rfd]) = ObjectSize
  <2> SUFFICES ASSUME rpc = "read"
               PROVE  /\ rfd \in 1..MaxPuts /\ Fs!Whole(data[rfd])
                      /\ \E v \in 1..MaxPuts : data[rfd] = PiecesOf(ObjectSize, v) /\ Len(data[rfd]) = ObjectSize
    OBVIOUS
  <2>1. rfd \in 1..MaxPuts /\ Fs!Whole(data[rfd])
    BY <1>0 DEF InodeInv, Published, Fs!TypeOK
  <2>2. PICK v \in 1..MaxPuts : data[rfd] = [k \in 1..ObjectSize |-> v]
    BY <2>1 DEF Fs!Whole
  <2>3. data[rfd] = PiecesOf(ObjectSize, v) /\ Len(PiecesOf(ObjectSize, v)) = ObjectSize
    BY <2>2, NextPiece DEF PiecesOf
  <2> QED
    BY <2>1, <2>3
<1>4. \A j \in 1..MaxPuts : Published(j)' => Published(j)
  BY <1>1 DEF Published, Fs!Get, Fs!OpenObject, Fs!ReadPiece, Fs!ReadEnd, Fs!ReadAgain
<1>5. rpc' # "idle" => rfd' \in 1..puts'
  BY <1>0 DEF InodeInv, Fs!Get, Fs!OpenObject, Fs!ReadPiece, Fs!ReadEnd, Fs!ReadAgain
<1>6. InodeInv'
  BY <1>0, <1>1, <1>4, <1>5 DEF InodeInv, Fs!Whole
<1>7. ReaderInv'
  <2>1. CASE Fs!OpenObject
    BY <2>1 DEF Fs!OpenObject, ReaderInv
  <2>2. CASE Fs!ReadPiece
    <3>1. /\ rpc = "read" /\ UNCHANGED <<rpc, rfd>>
          /\ buf' = buf \o <<data[rfd][Len(buf) + 1]>> /\ Len(buf) < Len(data[rfd])
      BY <2>2 DEF Fs!ReadPiece
    <3>2. PICK v \in 1..MaxPuts : data[rfd] = PiecesOf(ObjectSize, v) /\ Len(data[rfd]) = ObjectSize
      BY <1>3, <3>1
    <3>3. Len(buf) \in Nat /\ Len(buf) < ObjectSize /\ buf \in Seq(0..MaxPuts)
      BY <1>0, <3>1, <3>2 DEF ReaderInv
    <3>4. data[rfd][Len(buf) + 1] = v /\ v \in 0..MaxPuts
      BY <3>2, <3>3 DEF PiecesOf
    <3>5. buf' \in Seq(0..MaxPuts) /\ Len(buf') = Len(buf) + 1
      BY <3>1, <3>3, <3>4
    <3>6. \A k \in 1..Len(buf') : buf'[k] = IF k <= Len(buf) THEN buf[k] ELSE v
      BY <3>1, <3>3, <3>4
    <3>7. \A k \in 1..Len(buf) : buf[k] = data[rfd][k]
      BY <1>0, <3>1 DEF ReaderInv
    <3>8. \A k \in 1..Len(buf') : buf'[k] = data[rfd][k]
      <4> SUFFICES ASSUME NEW k \in 1..Len(buf') PROVE buf'[k] = data[rfd][k]
        OBVIOUS
      <4>1. CASE k <= Len(buf)
        <5>1. k \in 1..Len(buf)
          BY <3>3, <3>5, <4>1
        <5> QED
          BY <5>1, <4>1, <3>6, <3>7
      <4>2. CASE ~(k <= Len(buf))
        <5>1. k = Len(buf) + 1
          BY <3>3, <3>5, <4>2
        <5> QED
          BY <5>1, <4>2, <3>4, <3>6
      <4> QED
        BY <4>1, <4>2
    <3> QED
      BY <1>1, <3>1, <3>3, <3>5, <3>8 DEF ReaderInv
  <2>3. CASE Fs!ReadEnd
    <3>1. Len(buf) >= ObjectSize /\ rpc = "read" /\ UNCHANGED <<rfd, buf>>
      BY <1>3, <2>3 DEF Fs!ReadEnd
    <3>2. Len(buf) = ObjectSize
      BY <1>0, <3>1 DEF ReaderInv
    <3> QED
      BY <1>0, <1>1, <3>1, <3>2 DEF ReaderInv
  <2>4. CASE Fs!ReadAgain
    BY <2>4 DEF Fs!ReadAgain, ReaderInv
  <2> QED
    BY <2>1, <2>2, <2>3, <2>4 DEF Fs!Get
<1> QED
  BY <1>2, <1>6, <1>7

LEMMA FsNext ==
  ASSUME OwnProcess, FsInv, [Fs!Next]_(Fs!vars)
  PROVE  FsInv'
<1> DEFINE I == InodeInv' /\ ReaderInv' /\ \A u \in Writers : Writing(u)' => WriterInv(u)'
<1> USE DEF Writers
<1>0. /\ fsTpc \in [Writers -> {"idle", "write", "rename", "meta_open", "meta_write", "delete_meta"}]
      /\ tmp \in [Fs!Processes -> Fs!Inodes \cup {NONE}]
      /\ \A u \in Writers : PutBy[u] \in Fs!Processes
  BY DEF FsInv, Fs!TypeOK, Fs!Processes
<1>1. SUFFICES I
  BY FsTypes DEF FsInv
<1>2. CASE UNCHANGED Fs!vars
  BY <1>2, FsQuiet DEF Fs!vars
<1>3. ASSUME NEW t \in Writers, Fs!Put(t) PROVE I
  <2>1. CASE Fs!OpenTmp(t)
    BY <2>1, FsOpen
  <2>2. CASE Fs!WritePiece(t)
    BY <2>2, FsWrite
  <2>3. CASE Fs!Rename(t)
    BY <2>3, FsRename
  <2>4. CASE Fs!RenameFails(t)
    <3>1. /\ UNCHANGED <<data, put, fd, off, puts, rpc, rfd, buf, obj>>
          /\ tmp' = [tmp EXCEPT ![PutBy[t]] = NONE] /\ fsTpc' = [fsTpc EXCEPT ![t] = "idle"]
      BY <2>4 DEF Fs!RenameFails, Fs!Goes, Fs!reader
    <3>2. \A q \in Fs!Processes : tmp'[q] \in {tmp[q], NONE}
      BY <1>0, <3>1
    <3>3. ASSUME NEW u \in Writers, Writing(u)'
          PROVE  fsTpc'[u] = fsTpc[u] /\ tmp'[PutBy[u]] = tmp[PutBy[u]]
      <4>1. u # t
        BY <1>0, <3>1, <3>3 DEF Writing
      <4>2. PutBy[u] # PutBy[t]
        BY <4>1 DEF OwnProcess
      <4> QED
        BY <1>0, <3>1, <4>1, <4>2
    <3> QED
      BY <3>1, <3>2, <3>3, FsQuiet
  <2>5. CASE Fs!WriteFails(t) \/ Fs!OpenMeta(t) \/ Fs!WriteMeta(t) \/ Fs!MetaFails(t)
    <3>1. /\ UNCHANGED <<data, put, fd, off, puts, rpc, rfd, buf, obj, tmp>>
          /\ \E pc \in {"idle", "meta_write"} : fsTpc' = [fsTpc EXCEPT ![t] = pc]
      BY <2>5 DEF Fs!WriteFails, Fs!OpenMeta, Fs!WriteMeta, Fs!MetaFails, Fs!Goes, Fs!reader
    <3>2. \A u \in Writers : Writing(u)' => fsTpc'[u] = fsTpc[u]
      BY <1>0, <3>1 DEF Writing
    <3> QED
      BY <3>1, <3>2, FsQuiet
  <2> QED
    BY <1>3, <2>1, <2>2, <2>3, <2>4, <2>5 DEF Fs!Put
<1>4. ASSUME NEW t \in Writers, Fs!Delete(t) \/ Fs!DeleteMeta(t) PROVE I
  <2>1. /\ UNCHANGED <<data, put, fd, off, puts, rpc, rfd, buf, tmp>> /\ obj' \in {obj, NONE}
        /\ \E pc \in {"idle", "delete_meta"} : fsTpc' = [fsTpc EXCEPT ![t] = pc]
    BY <1>4 DEF Fs!Delete, Fs!DeleteMeta, Fs!Goes, Fs!reader
  <2>2. \A u \in Writers : Writing(u)' => fsTpc'[u] = fsTpc[u]
    BY <1>0, <2>1 DEF Writing
  <2> QED
    BY <2>1, <2>2, FsQuiet
<1>5. CASE Fs!Get
  BY <1>5, FsGet
<1>6. ASSUME NEW p \in Fs!Processes, Fs!Crash(p) PROVE I
  <2>1. /\ UNCHANGED <<data, put, fd, off, puts, rpc, rfd, buf, obj>>
        /\ fsTpc' = [t \in Writers |-> IF PutBy[t] = p THEN "idle" ELSE fsTpc[t]]
        /\ tmp' \in {tmp, [tmp EXCEPT ![p] = NONE]}
    BY <1>6 DEF Fs!Crash, Fs!reader
  <2>2. \A q \in Fs!Processes : tmp'[q] \in {tmp[q], NONE}
    BY <1>0, <2>1
  <2>3. \A u \in Writers : Writing(u)' => fsTpc'[u] = fsTpc[u] /\ tmp'[PutBy[u]] = tmp[PutBy[u]]
    BY <1>0, <2>1 DEF Writing
  <2> QED
    BY <2>1, <2>2, <2>3, FsQuiet
<1> QED
  BY <1>2, <1>3, <1>4, <1>5, <1>6 DEF Fs!Next

LEMMA FsSafe == FsInv => ReadsWhole
<1> SUFFICES ASSUME FsInv, rpc = "done" PROVE Fs!Whole(buf)
  BY DEF FsInv, ReadsWhole, Fs!ReadsWhole
<1>1. rfd \in 1..MaxPuts /\ Published(rfd) /\ InodeInv /\ ReaderInv
  BY StoreConstants DEF FsInv, InodeInv, Published, Fs!TypeOK, Fs!StorageConstants
<1>2. PICK v \in 1..MaxPuts : data[rfd] = [k \in 1..ObjectSize |-> v]
  BY <1>1 DEF InodeInv, Fs!Whole, Fs!Puts
<1>3. buf \in Seq(0..MaxPuts) /\ Len(buf) = ObjectSize /\ \A k \in 1..Len(buf) : buf[k] = v
  BY <1>1, <1>2 DEF ReaderInv
<1>4. buf = [k \in 1..ObjectSize |-> v]
  BY <1>3
<1> QED
  BY <1>4 DEF Fs!Whole, Fs!Puts

\* For any putting threads, each in a process of its own, pieces, failures and
\* crashes: what get has read is the whole object of one put.
THEOREM FilesAreWhole == ASSUME OwnProcess PROVE Fs!Spec => []ReadsWhole
<1> QED
  BY FsInit, FsNext, FsSafe, PTL DEF Fs!Spec

(***************************************************************************)
(* Watches.  The changes in the queue lead from what the subscriber knows  *)
(* to what the worker diffs against, each one step; and as long as the     *)
(* last commit was signalled, a worker that waits with nothing in the feed *)
(* has re-read the table since.                                            *)
(***************************************************************************)

Change == [added : SUBSET (WatchKeys \X RowContents), updated : SUBSET (WatchKeys \X RowContents),
           removed : SUBSET (WatchKeys \X RowContents)]

\* Applied in order, these changes lead from t to u.
Leads(t, d, u) ==
  \E v \in [0..Len(d) -> Watching!Table] :
    /\ v[0] = t /\ v[Len(d)] = u
    /\ \A i \in 0..Len(d), k \in 1..Len(d) : k = i + 1 => v[k] = Watching!Apply(v[i], d[k])

\* At most one signal per statement, the one a COMMIT still owes included.
FeedInv ==
  /\ feed <= watchWrites
  /\ owner # Watching!None /\ watchBackend = "postgres" => feed < watchWrites

\* What is called when, and what a worker at rest has read.
SubscriptionInv ==
  /\ worker = "down" => watchCall = "none"
  /\ queue \in Seq(Change)
  /\ watchCall \in {"none", "ensured", "selected"} => queue = <<>>
  /\ watchCall = "live" => Leads(view, queue, snapshot)
  /\ watchCall = "live" /\ heard /\ worker = "wait" /\ feed = 0 => snapshot = db

WatchInv == Watching!TypeOK /\ FeedInv /\ SubscriptionInv

LEMMA DiffIsAChange ==
  ASSUME NEW t \in Watching!Table, NEW u \in Watching!Table
  PROVE  Watching!diff(t, u) \in Change
<1>1. Watching!Rows(t) \subseteq WatchKeys \X RowContents
        /\ Watching!Rows(u) \subseteq WatchKeys \X RowContents
  BY DEF Watching!Rows, Watching!Table
<1> QED
  BY <1>1 DEF Watching!diff, Change

\* Applying the difference of two tables to the one gives the other, and an empty
\* difference is none.
LEMMA DiffLeads ==
  ASSUME NEW t \in Watching!Table, NEW u \in Watching!Table
  PROVE  Watching!Apply(t, Watching!diff(t, u)) = u
           /\ (Watching!IsEmpty(Watching!diff(t, u)) => t = u)
<1> DEFINE d == Watching!diff(t, u)
<1>1. \A k \in WatchKeys : t[k] \in {0} \cup RowContents /\ u[k] \in {0} \cup RowContents
  BY DEF Watching!Table
<1>2. \A r : r \in Watching!Rows(u) <=> \E k \in WatchKeys : u[k] # 0 /\ r = <<k, u[k]>>
  BY DEF Watching!Rows
<1>3. \A r : r \in Watching!Rows(t) <=> \E k \in WatchKeys : t[k] # 0 /\ r = <<k, t[k]>>
  BY DEF Watching!Rows
<1>4. ASSUME NEW k \in WatchKeys
      PROVE  /\ (\E r \in d.removed : r[1] = k) <=> t[k] # 0 /\ u[k] = 0
             /\ <<k, u[k]>> \in d.added <=> u[k] # 0 /\ t[k] = 0
             /\ <<k, u[k]>> \in d.updated <=> u[k] # 0 /\ t[k] # 0 /\ t[k] # u[k]
             /\ \A r \in d.added \cup d.updated : r[1] = k => r = <<k, u[k]>>
  <2>1. d.removed = {r \in Watching!Rows(t) : u[r[1]] = 0}
          /\ d.added = {r \in Watching!Rows(u) : t[r[1]] = 0}
        /\ d.updated = {r \in Watching!Rows(u) : t[r[1]] # 0 /\ t[r[1]] # r[2]}
    BY DEF Watching!diff
  <2> HIDE DEF d
  <2>2. (\E r \in d.removed : r[1] = k) <=> t[k] # 0 /\ u[k] = 0
    <3>1. ASSUME NEW r \in d.removed, r[1] = k PROVE t[k] # 0 /\ u[k] = 0
      <4>1. PICK j \in WatchKeys : t[j] # 0 /\ r = <<j, t[j]>>
        BY <1>3, <2>1
      <4> QED
        BY <4>1, <3>1, <2>1
    <3>2. ASSUME t[k] # 0, u[k] = 0 PROVE <<k, t[k]>> \in d.removed /\ <<k, t[k]>>[1] = k
      BY <1>3, <2>1, <3>2
    <3> QED
      BY <3>1, <3>2
  <2>3. <<k, u[k]>> \in Watching!Rows(u) <=> u[k] # 0
    BY <1>2
  <2>4. /\ <<k, u[k]>> \in d.added <=> u[k] # 0 /\ t[k] = 0
        /\ <<k, u[k]>> \in d.updated <=> u[k] # 0 /\ t[k] # 0 /\ t[k] # u[k]
    BY <2>1, <2>3
  <2>5. \A r \in d.added \cup d.updated : r[1] = k => r = <<k, u[k]>>
    BY <1>2, <2>1
  <2> QED
    BY <2>2, <2>4, <2>5
<1> DEFINE e == Watching!Apply(t, d)
<1>5. ASSUME NEW k \in WatchKeys
      PROVE  e[k] = IF \E r \in d.removed : r[1] = k THEN 0
                    ELSE IF \E r \in d.added \cup d.updated : r[1] = k
                    THEN (CHOOSE r \in d.added \cup d.updated : r[1] = k)[2] ELSE t[k]
  BY DEF Watching!Apply
<1>6. DOMAIN e = WatchKeys /\ e = [k \in WatchKeys |-> e[k]]
        /\ u = [k \in WatchKeys |-> u[k]] /\ t = [k \in WatchKeys |-> t[k]]
  BY DEF Watching!Apply, Watching!Table
<1> HIDE DEF d, e
<1>7. ASSUME NEW k \in WatchKeys PROVE e[k] = u[k]
  <2>1. CASE t[k] # 0 /\ u[k] = 0
    BY <2>1, <1>4, <1>5
  <2>2. CASE u[k] # 0 /\ t[k] # u[k]
    <3>1. <<k, u[k]>> \in d.added \cup d.updated /\ <<k, u[k]>>[1] = k
      BY <2>2, <1>4
    <3>2. (CHOOSE r \in d.added \cup d.updated : r[1] = k) = <<k, u[k]>>
      BY <3>1, <1>4
    <3>3. ~ \E r \in d.removed : r[1] = k
      BY <2>2, <1>4
    <3> QED
      BY <3>1, <3>2, <3>3, <1>5
  <2>3. CASE t[k] = u[k]
    <3>1. ~ \E r \in d.removed : r[1] = k
      BY <2>3, <1>4
    <3>2. ~ \E r \in d.added \cup d.updated : r[1] = k
      BY <2>3, <1>4
    <3> QED
      BY <3>1, <3>2, <2>3, <1>5
  <2> QED
    BY <2>1, <2>2, <2>3
<1>8. e = u
  BY <1>6, <1>7
<1>9. ASSUME Watching!IsEmpty(d), NEW k \in WatchKeys PROVE t[k] = u[k]
  <2>1. d.added = {} /\ d.updated = {} /\ d.removed = {}
    BY <1>9 DEF Watching!IsEmpty
  <2> QED
    BY <2>1, <1>4
<1> QED
  BY <1>6, <1>8, <1>9 DEF d, e

LEMMA LeadsOneMore ==
  ASSUME NEW t, NEW u, NEW w \in Watching!Table, NEW d \in Seq(Change), NEW c \in Change,
         Leads(t, d, u), Watching!Apply(u, c) = w
  PROVE  Leads(t, Append(d, c), w)
<1> DEFINE n == Len(d)
           e == Append(d, c)
<1>1. n \in Nat /\ Len(e) = n + 1 /\ e[n + 1] = c /\ \A i \in 1..n : e[i] = d[i]
  OBVIOUS
<1>2. PICK v \in [0..n -> Watching!Table] :
        /\ v[0] = t /\ v[n] = u
        /\ \A i \in 0..n, k \in 1..n : k = i + 1 => v[k] = Watching!Apply(v[i], d[k])
  BY DEF Leads
<1> DEFINE x == [i \in 0..(n + 1) |-> IF i = n + 1 THEN w ELSE v[i]]
<1> HIDE DEF n, e
<1>3. x \in [0..(n + 1) -> Watching!Table] /\ x[0] = t /\ x[n + 1] = w
        /\ \A i \in 0..n : x[i] = v[i]
  BY <1>1, <1>2
<1> HIDE DEF x
<1>4. ASSUME NEW i \in 0..(n + 1), NEW k \in 1..(n + 1), k = i + 1
      PROVE  x[k] = Watching!Apply(x[i], e[k])
  <2>1. CASE k = n + 1
    <3>1. i = n /\ x[i] = u /\ e[k] = c /\ x[k] = w
      BY <2>1, <1>1, <1>2, <1>3, <1>4
    <3> QED
      BY <3>1
  <2>2. CASE k # n + 1
    <3>1. k \in 1..n /\ i \in 0..n
      BY <2>2, <1>1, <1>4
    <3>2. x[k] = v[k] /\ x[i] = v[i] /\ e[k] = d[k]
      BY <3>1, <1>1, <1>3
    <3> QED
      BY <3>1, <3>2, <1>2, <1>4
  <2> QED
    BY <2>1, <2>2
<1>5. Leads(t, e, w)
  <2>1. x \in [0..Len(e) -> Watching!Table] /\ x[0] = t /\ x[Len(e)] = w
    BY <1>1, <1>3
  <2>2. \A i \in 0..Len(e), k \in 1..Len(e) : k = i + 1 => x[k] = Watching!Apply(x[i], e[k])
    BY <1>1, <1>4
  <2> QED
    BY <2>1, <2>2 DEF Leads
<1> QED
  BY <1>5 DEF e

LEMMA LeadsOneLess ==
  ASSUME NEW t, NEW u, NEW d \in Seq(Change), d # <<>>, Leads(t, d, u)
  PROVE  Leads(Watching!Apply(t, Head(d)), Tail(d), u)
           /\ Watching!Apply(t, Head(d)) \in Watching!Table
<1> DEFINE n == Len(d)
           e == Tail(d)
<1>1. n \in Nat \ {0} /\ Len(e) = n - 1 /\ d[1] = Head(d) /\ \A i \in 1..(n - 1) : e[i] = d[i + 1]
  OBVIOUS
<1>2. PICK v \in [0..n -> Watching!Table] :
        /\ v[0] = t /\ v[n] = u
        /\ \A i \in 0..n, k \in 1..n : k = i + 1 => v[k] = Watching!Apply(v[i], d[k])
  BY DEF Leads
<1> DEFINE x == [i \in 0..(n - 1) |-> v[i + 1]]
<1> HIDE DEF n, e
<1>3. x \in [0..(n - 1) -> Watching!Table] /\ x[0] = v[1] /\ x[n - 1] = u
      /\ \A i \in 0..(n - 1), j \in 1..n : j = i + 1 => x[i] = v[j]
  BY <1>1, <1>2
<1> HIDE DEF x
<1>4. ASSUME NEW i \in 0..(n - 1), NEW k \in 1..(n - 1), k = i + 1
      PROVE  x[k] = Watching!Apply(x[i], e[k])
  <2>1. PICK m \in 1..n : m = k + 1
    BY <1>1
  <2>2. x[k] = v[m] /\ x[i] = v[k] /\ e[k] = d[m] /\ k \in 0..n
    BY <2>1, <1>1, <1>3, <1>4
  <2> QED
    BY <2>1, <2>2, <1>2
<1>5. x[0] = Watching!Apply(t, Head(d)) /\ v[1] \in Watching!Table
  BY <1>1, <1>2, <1>3
<1>6. Leads(Watching!Apply(t, Head(d)), e, u)
  <2>1. Len(e) \in Nat /\ Len(e) = n - 1
    BY <1>1
  <2> QED
    BY <2>1, <1>3, <1>4, <1>5 DEF Leads
<1> QED
  BY <1>3, <1>5, <1>6 DEF e

\* Two functions that apply the changes in order agree: otherwise take the first
\* place where they differ.
LEMMA LeadsAddUp ==
  ASSUME NEW t, NEW u, NEW d \in Seq(Change), Leads(t, d, u)
  PROVE  LET Step[i \in 0..Len(d)] == IF i = 0 THEN t ELSE Watching!Apply(Step[i - 1], d[i])
         IN Step[Len(d)] = u
<1> DEFINE n == Len(d)
           Step[i \in 0..n] == IF i = 0 THEN t ELSE Watching!Apply(Step[i - 1], d[i])
           Def(f) == f = [i \in 0..n |-> IF i = 0 THEN t ELSE Watching!Apply(f[i - 1], d[i])]
<1>1. n \in Nat
  OBVIOUS
<1>2. PICK v \in [0..n -> Watching!Table] :
        /\ v[0] = t /\ v[n] = u
        /\ \A i \in 0..n, k \in 1..n : k = i + 1 => v[k] = Watching!Apply(v[i], d[k])
  BY DEF Leads
<1>3. Step = CHOOSE f : Def(f)
  BY DEF Step
<1> HIDE DEF n
<1>4. Def(v)
  <2>1. ASSUME NEW i \in 0..n PROVE v[i] = IF i = 0 THEN t ELSE Watching!Apply(v[i - 1], d[i])
    <3>1. CASE i = 0
      BY <3>1, <1>2
    <3>2. CASE i # 0
      <4>1. PICK j \in 0..n : j = i - 1
        BY <3>2, <1>1
      <4>2. i \in 1..n /\ i = j + 1
        BY <4>1, <3>2, <1>1
      <4> QED
        BY <4>1, <4>2, <3>2, <1>2
    <3> QED
      BY <3>1, <3>2
  <2> QED
    BY <2>1, <1>2
<1>5. Def(Step)
  <2> HIDE DEF Def, Step
  <2> QED
    BY <1>3, <1>4
<1>6. Step = [i \in 0..n |-> IF i = 0 THEN t ELSE Watching!Apply(Step[i - 1], d[i])]
  <2> HIDE DEF Step
  <2> QED
    BY <1>5
<1> HIDE DEF Step, Def
<1>7. \A i \in 0..n : Step[i] = IF i = 0 THEN t ELSE Watching!Apply(Step[i - 1], d[i])
  BY <1>6
<1>8. \A i \in 0..n : Step[i] = v[i]
  <2> DEFINE Bad == {i \in 0..n : Step[i] # v[i]}
  <2> SUFFICES ASSUME Bad # {} PROVE FALSE
    OBVIOUS
  <2>1. Bad \subseteq Nat
    BY <1>1
  <2>2. PICK m \in Bad : \A i \in Bad : ~(<<i, m>> \in OpToRel(<, Nat))
    BY <2>1, NatLessThanWellFounded, WFMin
  <2>3. \A i \in Bad : ~(i < m)
    BY <2>1, <2>2 DEF OpToRel
  <2>4. m # 0
    BY <1>1, <1>2, <1>7
  <2>5. PICK j \in 0..n : j = m - 1 /\ m = j + 1 /\ m \in 1..n /\ j < m
    BY <1>1, <2>1, <2>4
  <2>6. Step[j] = v[j]
    BY <2>3, <2>5
  <2>7. Step[m] = Watching!Apply(Step[j], d[m])
    BY <2>4, <2>5, <1>7
  <2>8. v[m] = Watching!Apply(v[j], d[m])
    BY <2>5, <1>2
  <2> QED
    BY <2>6, <2>7, <2>8
<1>9. Step[n] = u
  BY <1>1, <1>2, <1>8
<1> QED
  BY <1>9 DEF n, Step

LEMMA WatchStarts ==
  ASSUME Watching!Init PROVE WatchInv
<1>1. Watching!TypeOK
  <2>1. Watching!Empty \in Watching!Table
    BY DEF Watching!Empty, Watching!Table
  <2>2. 0 \in 0..(2 * MaxWatchWrites) /\ 0 \in 0..MaxWatchWrites
    BY WatchConstants DEF WatchConstants
  <2> QED
    BY <2>1, <2>2 DEF Watching!Init, Watching!TypeOK
<1>2. FeedInv
  BY DEF Watching!Init, FeedInv
<1>3. SubscriptionInv
  <2>1. <<>> \in Seq(Change)
    OBVIOUS
  <2> QED
    BY <2>1 DEF Watching!Init, SubscriptionInv
<1> QED
  BY <1>1, <1>2, <1>3 DEF WatchInv

\* The pool's connections come and go.
LEMMA PoolKeepsWatch ==
  ASSUME WatchInv, NEW c \in WatchConns,
         Watching!checkout(c) \/ Watching!checkin(c) \/ Watching!connect(c)
  PROVE  WatchInv'
<1>1. UNCHANGED <<Watching!source, Watching!data, Watching!sub, feed, worker, heard>>
  BY DEF Watching!checkout, Watching!checkin, Watching!connect
<1>2. Watching!TypeOK'
  BY <1>1 DEF WatchInv, Watching!TypeOK, Watching!checkout, Watching!checkin, Watching!connect,
     Watching!source, Watching!data, Watching!sub
<1> QED
  BY <1>1, <1>2 DEF WatchInv, FeedInv, SubscriptionInv, Watching!source, Watching!data,
     Watching!sub

LEMMA WritesKeep ==
  ASSUME WatchInv, NEW c \in WatchConns, NEW k \in WatchKeys, NEW x \in {0}
         \cup RowContents,
         Watching!WriteAuto(c, k, x) \/ Watching!WriteTx(c, k, x)
  PROVE  WatchInv'
<1> USE DEF WatchInv
<1>1. Watching!TypeOK /\ FeedInv /\ MaxWatchWrites \in Nat /\ c # Watching!None
  BY WatchConstants DEF WatchConstants
<1>2. UNCHANGED <<Watching!pool, Watching!source, Watching!sub, worker>>
        /\ watchWrites' = watchWrites + 1 /\ watchWrites < MaxWatchWrites
  BY DEF Watching!WriteAuto, Watching!WriteTx
<1>3. /\ feed' \in {feed, feed + 1} /\ db' \in Watching!Table /\ txn' \in Watching!Table
      /\ owner' \in {Watching!None} \cup WatchConns /\ heard' \in BOOLEAN
  <2>1. CASE Watching!WriteAuto(c, k, x)
    BY <2>1, <1>1 DEF Watching!WriteAuto, Watching!TypeOK, Watching!Table,
       Watching!install_change_hook, Watching!notify, Watching!Live
  <2>2. CASE Watching!WriteTx(c, k, x)
    BY <2>2, <1>1 DEF Watching!WriteTx, Watching!TypeOK, Watching!Table
  <2> QED
    BY <2>1, <2>2
<1>4. FeedInv'
  <2>1. feed \in Nat /\ watchWrites \in Nat
    BY <1>1 DEF Watching!TypeOK
  <2>2. CASE Watching!WriteAuto(c, k, x)
    BY <2>1, <2>2, <1>1, <1>2, <1>3 DEF Watching!WriteAuto, FeedInv, Watching!source
  <2>3. CASE Watching!WriteTx(c, k, x)
    <3>1. watchBackend = "postgres" => feed' = feed
      BY <2>3 DEF Watching!WriteTx, Watching!install_change_hook
    <3>2. owner \in {Watching!None, c}
      BY <2>3 DEF Watching!WriteTx
    <3>3. watchBackend' = watchBackend
      BY <1>2 DEF Watching!source
    <3>4. CASE watchBackend = "postgres"
      BY <2>1, <3>1, <3>2, <3>3, <3>4, <1>1, <1>2 DEF FeedInv
    <3>5. CASE watchBackend # "postgres"
      <4>1. feed' \in Nat /\ watchWrites' \in Nat /\ feed' <= watchWrites'
        BY <2>1, <1>1, <1>2, <1>3 DEF FeedInv
      <4> QED
        BY <4>1, <3>3, <3>5 DEF FeedInv
    <3> QED
      BY <3>4, <3>5
  <2> QED
    BY <2>2, <2>3
<1>5. Watching!TypeOK'
  <2>1. feed' \in 0..(2 * MaxWatchWrites) /\ watchWrites' \in 0..MaxWatchWrites
    <3>1. feed \in Nat /\ watchWrites \in Nat
      BY <1>1 DEF Watching!TypeOK
    <3>2. feed' <= watchWrites'
      BY <1>3, <1>4, <3>1, <1>2 DEF FeedInv
    <3> QED
      BY <3>1, <3>2, <1>1, <1>2, <1>3
  <2> QED
    BY <2>1, <1>1, <1>2, <1>3 DEF Watching!TypeOK, Watching!pool, Watching!source, Watching!sub
<1>6. watchCall = "live" /\ heard' /\ worker = "wait" /\ feed' = 0 => snapshot = db'
  <2>1. feed \in Nat
    BY <1>1 DEF Watching!TypeOK
  <2>2. CASE Watching!WriteAuto(c, k, x)
    <3>1. CASE Watching!install_change_hook(c) \/ Watching!notify
      <4>1. feed' = feed + 1
        BY <2>2, <3>1 DEF Watching!WriteAuto
      <4> QED
        BY <4>1, <2>1
    <3>2. CASE ~(Watching!install_change_hook(c) \/ Watching!notify)
      BY <2>2, <3>2 DEF Watching!WriteAuto
    <3> QED
      BY <3>1, <3>2
  <2>3. CASE Watching!WriteTx(c, k, x)
    BY <2>1, <2>3, <1>3 DEF Watching!WriteTx, SubscriptionInv
  <2> QED
    BY <2>2, <2>3
<1>7. SubscriptionInv'
  BY <1>2, <1>6 DEF SubscriptionInv, Watching!sub
<1> QED
  BY <1>4, <1>5, <1>7

LEMMA TransactionEndsKeep ==
  ASSUME WatchInv, Watching!Commit \/ Watching!Rollback PROVE WatchInv'
<1> USE DEF WatchInv
<1>1. /\ Watching!TypeOK /\ FeedInv /\ MaxWatchWrites \in Nat /\ feed \in Nat
           /\ watchWrites \in Nat
      /\ watchWrites <= MaxWatchWrites /\ owner # Watching!None
  BY WatchConstants DEF WatchConstants, Watching!TypeOK, Watching!Commit, Watching!Rollback
<1>2. UNCHANGED <<Watching!pool, Watching!source, Watching!sub, worker, watchWrites, txn>>
        /\ owner' = Watching!None
  BY DEF Watching!Commit, Watching!Rollback
<1>3. /\ feed' \in {feed, feed + 1} /\ db' \in Watching!Table /\ heard' \in BOOLEAN
      /\ feed' = feed + 1 => watchBackend = "postgres"
  <2>1. CASE Watching!Commit
    <3>1. /\ db' = txn /\ feed' = IF Watching!notify THEN feed + 1 ELSE feed
          /\ heard' = ((db = txn /\ heard) \/ (Watching!Live /\ Watching!notify))
      BY <2>1 DEF Watching!Commit
    <3>2. Watching!notify => watchBackend = "postgres"
      BY DEF Watching!notify
    <3>3. heard' \in BOOLEAN
      BY <3>1
    <3> QED
      BY <3>1, <3>2, <3>3, <1>1 DEF Watching!TypeOK
  <2>2. CASE Watching!Rollback
    BY <2>2, <1>1 DEF Watching!Rollback, Watching!TypeOK
  <2> QED
    BY <2>1, <2>2
<1>4. FeedInv'
  <2>1. feed' <= watchWrites
    BY <1>1, <1>3 DEF FeedInv
  <2>2. feed' <= watchWrites' /\ owner' = Watching!None
    BY <2>1, <1>1, <1>2, <1>3
  <2> QED
    BY <2>2 DEF FeedInv
<1>5. Watching!TypeOK'
  <2>1. feed' \in 0..(2 * MaxWatchWrites)
    BY <1>1, <1>2, <1>3, <1>4 DEF FeedInv
  <2> QED
    BY <2>1, <1>1, <1>2, <1>3 DEF Watching!TypeOK, Watching!pool, Watching!source, Watching!sub
<1>6. watchCall = "live" /\ heard' /\ worker = "wait" /\ feed' = 0 => snapshot = db'
  <2>1. CASE Watching!Commit
    <3>1. /\ db' = txn /\ feed' = IF Watching!notify THEN feed + 1 ELSE feed
          /\ heard' = ((db = txn /\ heard) \/ (Watching!Live /\ Watching!notify))
      BY <2>1 DEF Watching!Commit
    <3>2. CASE Watching!notify
      BY <3>1, <3>2, <1>1
    <3>3. CASE ~Watching!notify
      BY <3>1, <3>3 DEF SubscriptionInv
    <3> QED
      BY <3>2, <3>3
  <2>2. CASE Watching!Rollback
    BY <2>2 DEF Watching!Rollback, SubscriptionInv
  <2> QED
    BY <2>1, <2>2
<1>7. SubscriptionInv'
  BY <1>2, <1>6 DEF SubscriptionInv, Watching!sub
<1> QED
  BY <1>4, <1>5, <1>7

\* Covering the table, reading, registering, and the end of the watcher.
LEMMA CallKeepsWatch ==
  ASSUME WatchInv,
         Watching!Attach \/ Watching!PumpDies \/ Watching!ensure_table \/ Watching!Select \/ Watching!Register \/ Watching!DropSubscription \/ Watching!DropWatcher
  PROVE  WatchInv'
<1> USE DEF WatchInv
<1>1. UNCHANGED <<Watching!data, watchBackend, feed, queue>>
  BY DEF Watching!Attach, Watching!PumpDies, Watching!ensure_table, Watching!Select,
     Watching!Register, Watching!DropSubscription, Watching!DropWatcher, Watching!data,
       Watching!sub, Watching!source
<1>2. Watching!TypeOK'
  <2>1. CASE Watching!Attach
    BY <2>1 DEF Watching!Attach, Watching!TypeOK, Watching!data, Watching!sub,
       Watching!set_change_hook
  <2>2. CASE Watching!PumpDies
    BY <2>2 DEF Watching!PumpDies, Watching!TypeOK, Watching!data, Watching!sub, Watching!pool
  <2>3. CASE Watching!ensure_table
    BY <2>3 DEF Watching!ensure_table, Watching!TypeOK, Watching!data, Watching!pool
  <2>4. CASE Watching!Select
    BY <2>4 DEF Watching!Select, Watching!TypeOK, Watching!data, Watching!pool, Watching!source
  <2>5. CASE Watching!Register
    BY <2>5 DEF Watching!Register, Watching!TypeOK, Watching!data, Watching!pool, Watching!source
  <2>6. CASE Watching!DropSubscription
    BY <2>6 DEF Watching!DropSubscription, Watching!TypeOK, Watching!data, Watching!pool,
       Watching!source
  <2>7. CASE Watching!DropWatcher
    BY <2>7 DEF Watching!DropWatcher, Watching!TypeOK, Watching!data, Watching!pool, Watching!sub
  <2> QED
    BY <2>1, <2>2, <2>3, <2>4, <2>5, <2>6, <2>7
<1>3. FeedInv'
  BY <1>1 DEF FeedInv, Watching!data
<1>4. SubscriptionInv'
  <2>1. CASE Watching!Attach
    BY <2>1 DEF Watching!Attach, SubscriptionInv, Watching!data, Watching!sub
  <2>2. CASE Watching!PumpDies
    BY <2>2 DEF Watching!PumpDies, SubscriptionInv, Watching!data, Watching!sub
  <2>3. CASE Watching!ensure_table
    BY <2>3 DEF Watching!ensure_table, SubscriptionInv, Watching!data
  <2>4. CASE Watching!Select
    BY <2>4 DEF Watching!Select, SubscriptionInv, Watching!data
  <2>5. CASE Watching!Register
    <3>1. queue' = <<>> /\ view' = rows /\ snapshot' = rows /\ rows \in Watching!Table
      BY <2>5 DEF Watching!Register, SubscriptionInv, Watching!TypeOK
    <3> DEFINE v == [i \in 0..0 |-> rows]
    <3>2. v \in [0..0 -> Watching!Table] /\ v[0] = rows
      BY <3>1
    <3> HIDE DEF v
    <3>3. Len(<<>>) = 0 /\ 1..0 = {}
      OBVIOUS
    <3>4. Leads(rows, <<>>, rows)
      BY <3>2, <3>3 DEF Leads
    <3> QED
      BY <2>5, <3>1, <3>4 DEF Watching!Register, SubscriptionInv, Watching!data
  <2>6. CASE Watching!DropSubscription
    BY <2>6 DEF Watching!DropSubscription, SubscriptionInv, Watching!data
  <2>7. CASE Watching!DropWatcher
    BY <2>7 DEF Watching!DropWatcher, SubscriptionInv, Watching!data, Watching!sub
  <2> QED
    BY <2>1, <2>2, <2>3, <2>4, <2>5, <2>6, <2>7
<1> QED
  BY <1>2, <1>3, <1>4

LEMMA WorkerKeepsWatch ==
  ASSUME WatchInv,
         Watching!Recv \/ Watching!Coalesce \/ Watching!Requery \/ Watching!SkipRound \/ Watching!RecvChange
  PROVE  WatchInv'
<1> USE DEF WatchInv
<1>1. /\ UNCHANGED <<Watching!pool, Watching!source, Watching!data, watchCall, rows>>
           /\ feed' \in {feed, feed - 1}
      /\ feed \in Nat /\ watchWrites \in Nat /\ watchWrites <= MaxWatchWrites
           /\ MaxWatchWrites \in Nat
      /\ feed' = feed \/ feed > 0
  BY WatchConstants DEF Watching!Recv, Watching!Coalesce, Watching!Requery, Watching!SkipRound,
     Watching!RecvChange, Watching!sub, Watching!TypeOK, WatchConstants
<1>2. FeedInv'
  <2>1. UNCHANGED <<owner, watchBackend, watchWrites>> /\ feed' <= feed /\ feed' \in Int
    BY <1>1 DEF Watching!data, Watching!source
  <2>2. feed' < watchWrites' \/ ~(feed < watchWrites)
    BY <2>1, <1>1
  <2>3. feed' <= watchWrites'
    BY <2>1, <1>1 DEF FeedInv
  <2> QED
    BY <2>1, <2>2, <2>3 DEF FeedInv
<1>3. /\ db \in Watching!Table /\ snapshot \in Watching!Table /\ view \in Watching!Table
           /\ heard \in BOOLEAN
      /\ queue \in Seq(Change) /\ worker \in {"down", "wait", "burst", "done"}
  BY DEF Watching!TypeOK, SubscriptionInv
<1>4. /\ snapshot' \in Watching!Table /\ view' \in Watching!Table /\ heard' \in BOOLEAN
           /\ queue' \in Seq(Change)
      /\ worker' \in {"down", "wait", "burst", "done"}
      /\ watchCall = "live" => Leads(view', queue', snapshot')
      /\ watchCall # "live" => queue' = queue
  <2>1. CASE Watching!Recv \/ Watching!Coalesce \/ Watching!SkipRound
    <3>1. UNCHANGED Watching!sub /\ worker' \in {"wait", "burst"} \cup {worker}
            /\ heard' \in BOOLEAN
      BY <2>1, <1>3 DEF Watching!Recv, Watching!Coalesce, Watching!SkipRound
    <3> QED
      BY <3>1, <1>3 DEF Watching!sub, SubscriptionInv
  <2>2. CASE Watching!Requery /\ watchCall = "live"
    <3> DEFINE c == Watching!diff(snapshot, db)
    <3>1. c \in Change /\ Watching!Apply(snapshot, c) = db
            /\ (Watching!IsEmpty(c) => snapshot = db)
      BY <1>3, DiffIsAChange, DiffLeads
    <3>2. /\ snapshot' = db /\ view' = view /\ heard' = heard /\ worker' = "wait"
          /\ queue' = IF Watching!IsEmpty(c) THEN queue ELSE Append(queue, c)
      BY <2>2 DEF Watching!Requery
    <3>3. Leads(view, queue, snapshot)
      BY <2>2 DEF SubscriptionInv
    <3> HIDE DEF c
    <3>4. Leads(view, Append(queue, c), db)
      BY <3>1, <3>3, <1>3, LeadsOneMore
    <3> QED
      BY <3>1, <3>2, <3>3, <3>4, <1>3, <2>2
  <2>3. CASE Watching!Requery /\ watchCall # "live"
    BY <2>3, <1>3 DEF Watching!Requery
  <2>4. CASE Watching!RecvChange
    <3>1. /\ watchCall = "live" /\ queue # <<>> /\ view' = Watching!Apply(view, Head(queue))
               /\ queue' = Tail(queue)
          /\ UNCHANGED <<worker, snapshot, heard>>
      BY <2>4 DEF Watching!RecvChange
    <3>2. Leads(view, queue, snapshot)
      BY <3>1 DEF SubscriptionInv
    <3>3. Leads(Watching!Apply(view, Head(queue)), Tail(queue), snapshot)
            /\ Watching!Apply(view, Head(queue)) \in Watching!Table
      BY <3>1, <3>2, <1>3, LeadsOneLess
    <3> QED
      BY <3>1, <3>3, <1>3
  <2> QED
    BY <2>1, <2>2, <2>3, <2>4
<1>5. Watching!TypeOK'
  <2>1. feed' \in 0..(2 * MaxWatchWrites)
    BY <1>1 DEF Watching!TypeOK
  <2> QED
    BY <2>1, <1>1, <1>4 DEF Watching!TypeOK, Watching!pool, Watching!source, Watching!data
<1>6. watchCall = "live" /\ heard' /\ worker' = "wait" /\ feed' = 0 => snapshot' = db
  <2>1. CASE Watching!Recv \/ Watching!Coalesce
    BY <2>1, <1>3 DEF Watching!Recv, Watching!Coalesce
  <2>2. CASE Watching!Requery
    BY <2>2 DEF Watching!Requery
  <2>3. CASE Watching!SkipRound
    BY <2>3 DEF Watching!SkipRound, Watching!sub
  <2>4. CASE Watching!RecvChange
    BY <2>4 DEF Watching!RecvChange, SubscriptionInv
  <2> QED
    BY <2>1, <2>2, <2>3, <2>4
<1>7. worker' = "down" => watchCall = "none"
  BY DEF Watching!Recv, Watching!Coalesce, Watching!Requery, Watching!SkipRound,
     Watching!RecvChange, SubscriptionInv
<1>8. SubscriptionInv'
  BY <1>1, <1>4, <1>6, <1>7 DEF SubscriptionInv, Watching!data
<1> QED
  BY <1>2, <1>5, <1>8

LEMMA WatchSteps ==
  ASSUME WatchInv, [Watching!Next]_(Watching!vars) PROVE WatchInv'
<1>1. CASE UNCHANGED Watching!vars
  <2>1. Watching!TypeOK' /\ FeedInv'
    BY <1>1 DEF Watching!vars, Watching!pool, Watching!source, Watching!data, Watching!sub,
       WatchInv, Watching!TypeOK, FeedInv
  <2>2. SubscriptionInv'
    BY <1>1 DEF Watching!vars, Watching!pool, Watching!source, Watching!data, Watching!sub,
       WatchInv, SubscriptionInv
  <2> QED
    BY <2>1, <2>2 DEF WatchInv
<1>2. CASE Watching!Next
  BY <1>2, PoolKeepsWatch, WritesKeep, TransactionEndsKeep, CallKeepsWatch,
     WorkerKeepsWatch DEF Watching!Next
<1> QED
  BY <1>1, <1>2

LEMMA WatchSafe ==
  ASSUME WatchInv PROVE Watching!TypeOK /\ Watching!ChangesAddUp /\ Watching!SignalledIsSeen
<1>1. Watching!ChangesAddUp
  <2> SUFFICES ASSUME watchCall = "live"
               PROVE  LET Step[i \in 0..Len(queue)] ==
                        IF i = 0 THEN view ELSE Watching!Apply(Step[i - 1], queue[i])
                      IN Step[Len(queue)] = snapshot
    BY DEF Watching!ChangesAddUp
  <2>1. Leads(view, queue, snapshot) /\ queue \in Seq(Change)
    BY DEF WatchInv, SubscriptionInv
  <2> QED
    BY <2>1, LeadsAddUp
<1>2. Watching!SignalledIsSeen
  <2> SUFFICES ASSUME watchCall = "live", heard, Watching!Quiet PROVE view = db
    BY DEF Watching!SignalledIsSeen
  <2>1. queue = <<>> /\ snapshot = db /\ Leads(view, queue, snapshot)
    BY DEF Watching!Quiet, WatchInv, SubscriptionInv
  <2>2. Len(<<>>) = 0
    OBVIOUS
  <2> QED
    BY <2>1, <2>2 DEF Leads
<1> QED
  BY <1>1, <1>2 DEF WatchInv

\* The changes a watcher is sent add up to the rows the worker was last told of,
\* and whatever was signalled before a re-read is in what it reads.
THEOREM WatchersAreTold ==
  Watching!Spec => []WatchersFollow
<1>1. Watching!Init => WatchInv
  BY WatchStarts
<1>2. WatchInv /\ [Watching!Next]_(Watching!vars) => WatchInv'
  BY WatchSteps
<1>3. WatchInv => WatchersFollow
  BY WatchSafe DEF WatchersFollow
<1> QED
  BY <1>1, <1>2, <1>3, PTL DEF Watching!Spec

=============================================================================
