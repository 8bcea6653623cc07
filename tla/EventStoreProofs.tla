-------------------------- MODULE EventStoreProofs --------------------------
(***************************************************************************)
(* The event log has no gaps and every append is atomic and truthful, for  *)
(* any number of writers, streams, calls, faults and retries, on both      *)
(* dialects.                                                               *)
(*                                                                         *)
(* GapFree is not inductive: a COMMIT keeps it only because what the       *)
(* writer has read of the stream's version and of the log's head is still  *)
(* the newest when its rows go in.  On PostgreSQL the advisory lock sees   *)
(* to that, or the unique keys do when the snapshot is older than the      *)
(* lock; on SQLite the write lock does, which a stale snapshot cannot get. *)
(***************************************************************************)
EXTENDS EventStore, FiniteSetTheorems, TLAPS

Mode(w) == Req(w).mode

\* The writers inside the part of a transaction that reads and writes rows.
Reading(w) == wpc[w] \in {"version", "head", "insert", "commit"}

InStream(rows, s) == {r \in rows : r.stream = s}

\* The rows are numbered without gaps, and so are those of each stream, in the
\* same order.
Numbered(rows) ==
  /\ head_position(rows) \in Nat
  /\ {e.position : e \in rows} = 1..head_position(rows)
  /\ \A s \in Streams :
       /\ stream_version(rows, s) \in Nat
       /\ {e.version : e \in InStream(rows, s)} = 1..stream_version(rows, s)
  /\ \A e, f \in rows :
       /\ e.position = f.position => e = f
       /\ e.stream = f.stream /\ e.version = f.version => e = f
       /\ e.stream = f.stream => (e.version < f.version <=> e.position < f.position)

\* Every snapshot is a log the store once had.
SnapshotsInv ==
  \A w \in Writers : snap[w] \subseteq log /\ Numbered(snap[w])

\* Who holds the lock, and what it is worth.
LockingInv ==
  \A w \in Writers :
    /\ lock = w => Reading(w) /\ (dialect = "Sqlite" => snap[w] = log)
    /\ Reading(w) /\ (dialect = "Postgres" \/ Mode(w) = "immediate") => lock = w
    /\ wpc[w] = "commit" => lock = w /\ Visible(w) = log
    /\ wpc[w] = "lock" => dialect = "Postgres"

\* What a writer has read is what its transaction still sees.
ReadsInv ==
  \A w \in Writers :
    /\ wpc[w] \in {"head", "insert", "commit"} =>
         /\ cur[w] = stream_version(Visible(w), Req(w).stream)
         /\ matches(Req(w).expected, cur[w])
         /\ Req(w).n > 0
    /\ wpc[w] \in {"insert", "commit"} =>
         head[w] = head_position(Visible(w))

\* Calls are numbered in order; a call under way belongs to one writer and has
\* neither an answer nor an event yet.
CallsInv ==
  /\ \E m \in 0..MaxCalls : \A c \in Appends : calls[c] # NONE <=> c <= m
  /\ \A c \in Appends :
       calls[c] = NONE => result[c] = NONE /\ Of(c) = {}
  /\ \A w \in Writers : wpc[w] # "idle" =>
       /\ call[w] \in Appends
       /\ calls[call[w]] # NONE /\ Mode(w) \in Modes
       /\ result[call[w]] = NONE /\ Of(call[w]) = {}
  /\ \A w, v \in Writers : wpc[w] # "idle" /\ wpc[v] # "idle" /\ call[w] = call[v] => w = v

\* A call's events are its whole batch, after the version it expected, in the
\* stream it named.
BatchesInv ==
  \A c \in Appends : Of(c) # {} =>
    \E first \in {e.version : e \in Of(c)} :
      /\ {e.version : e \in Of(c)} = first..(first + calls[c].n - 1)
      /\ matches(calls[c].expected, first - 1)
      /\ \A e \in Of(c) : e.stream = calls[c].stream

AnswersInv ==
  \A c \in Appends : result[c] # NONE =>
    /\ result[c].kind = "ok" =>
         /\ calls[c].n = 0 => Of(c) = {}
         /\ calls[c].n > 0 =>
              {e.version : e \in Of(c)}
                = (result[c].version - calls[c].n + 1)..result[c].version
    /\ result[c].kind = "conflict" => Of(c) = {}

\* The version a call names was there when it was made, and is in every
\* snapshot taken since.
ExpectedInv ==
  \A w \in Writers : wpc[w] # "idle" /\ Req(w).expected \in Nat =>
    /\ Req(w).expected <= stream_version(log, Req(w).stream)
    /\ Mode(w) # "append" /\ wpc[w] # "begin" =>
         Req(w).expected <= stream_version(snap[w], Req(w).stream)

StoreInv ==
  /\ TypeOK /\ Numbered(log) /\ SnapshotsInv /\ LockingInv /\ ReadsInv
  /\ CallsInv /\ BatchesInv /\ AnswersInv /\ ExpectedInv

(***************************************************************************)
(* Operators.                                                              *)
(***************************************************************************)

LEMMA MaxUpTo ==
  ASSUME NEW k \in Nat
  PROVE  Max((1..k) \cup {0}) = k
BY DEF Max

LEMMA EmptyNumbered == Numbered({})
<1>1. Max({} \cup {0}) = 0
  BY MaxUpTo
<1>2. {e.position : e \in {}} = {}
  OBVIOUS
<1>3. ASSUME NEW s PROVE {e.version : e \in InStream({}, s)} = {}
  BY DEF InStream
<1>4. head_position({}) = 0 /\ \A s : stream_version({}, s) = 0
  <2>1. \A s : {e.version : e \in {r \in {} : r.stream = s}} = {}
    OBVIOUS
  <2> QED
    BY <1>1, <1>2, <2>1 DEF head_position, stream_version
<1>5. 1..0 = {}
  OBVIOUS
<1> QED
  BY <1>2, <1>3, <1>4, <1>5 DEF Numbered, InStream

\* The versions and positions of numbered rows are numbers.
LEMMA VersionTypes ==
  ASSUME NEW rows, Numbered(rows)
  PROVE  /\ head_position(rows) \in Nat
         /\ \A s \in Streams : stream_version(rows, s) \in Nat
BY DEF Numbered

\* What a writer has at hand is well typed.
LEMMA AtHand ==
  ASSUME StoreConstants, TypeOK, CallsInv, NEW w \in Writers, wpc[w] # "idle"
  PROVE  /\ call[w] \in Appends
         /\ Req(w) \in Request /\ Req(w) = calls[call[w]]
         /\ Req(w).stream \in Streams /\ Req(w).n \in Nat
         /\ Mode(w) \in Modes
<1>1. call[w] \in Appends /\ calls[call[w]] \in Request
      /\ Mode(w) \in Modes
  BY DEF CallsInv, TypeOK
<1> QED
  BY <1>1 DEF StoreConstants, Req, Request, Mode

\* So is what it reads.
LEMMA InSight ==
  ASSUME StoreConstants, StoreInv, NEW w \in Writers, wpc[w] # "idle"
  PROVE  /\ Visible(w) \subseteq log /\ Numbered(Visible(w))
         /\ Reads(w) \subseteq log /\ Numbered(Reads(w))
BY DEF StoreInv, SnapshotsInv, Visible, Reads

(***************************************************************************)
(* Transactions that end without a COMMIT.                                 *)
(***************************************************************************)

LEMMA EndKeeps ==
  ASSUME StoreConstants, StoreInv, NEW w \in Writers, wpc[w] # "idle",
         NEW kind \in {"ok", "conflict", "store"}, NEW version \in Nat,
         kind = "ok" => Req(w).n = 0,
         Unlocked(w), Return(w, kind, version),
         UNCHANGED <<dialect, log, call, calls>>, faults' \in 0..MaxFaults
  PROVE  StoreInv'
<1> USE DEF StoreInv
<1> DEFINE answer == [kind |-> kind, version |-> version]
<1>1. call[w] \in Appends /\ Req(w) = calls[call[w]] /\ answer \in Result
      /\ answer # NONE
  BY AtHand DEF Result, StoreConstants
<1>2. /\ wpc' = [wpc EXCEPT ![w] = "idle"] /\ snap' = [snap EXCEPT ![w] = {}]
      /\ result' = [result EXCEPT ![call[w]] = answer]
      /\ cur' = [cur EXCEPT ![w] = 0] /\ head' = [head EXCEPT ![w] = 0]
      /\ attempt' = [attempt EXCEPT ![w] = 0]
      /\ lock' = IF lock = w THEN NONE ELSE lock
  BY DEF Return, Unlocked
<1> HIDE DEF answer
<1>3. TypeOK'
  BY <1>1, <1>2 DEF TypeOK, StoreConstants, Appends, Event
<1>4. /\ wpc'[w] = "idle" /\ snap'[w] = {}
      /\ \A v \in Writers \ {w} :
           /\ wpc'[v] = wpc[v] /\ snap'[v] = snap[v] /\ cur'[v] = cur[v]
           /\ head'[v] = head[v] /\ call[v] = call'[v]
           /\ (Req(v))' = Req(v) /\ (Mode(v))' = Mode(v) /\ (Visible(v))' = Visible(v)
  BY <1>2 DEF TypeOK, Req, Mode, Visible
<1>5. Numbered(log)' /\ SnapshotsInv'
  BY <1>4, EmptyNumbered DEF SnapshotsInv
<1>6. LockingInv'
  BY <1>2, <1>4 DEF LockingInv, Reading, StoreConstants
<1>7. ReadsInv'
  BY <1>4 DEF ReadsInv
<1>8. CallsInv'
  <2>1. \A v \in Writers \ {w} : wpc[v] # "idle" => call[v] # call[w]
    BY DEF CallsInv
  <2>2. \A c \in Appends \ {call[w]} : result'[c] = result[c]
    BY <1>2 DEF TypeOK
  <2> QED
    BY <1>1, <1>4, <2>1, <2>2 DEF CallsInv, Of, Modes
<1>9. BatchesInv'
  BY DEF BatchesInv, Of
<1>10. AnswersInv'
  <2>1. Of(call[w]) = {}
    BY DEF CallsInv
  <2>2. \A c \in Appends : c # call[w] => result'[c] = result[c]
    BY <1>2 DEF TypeOK
  <2>3. result'[call[w]].kind = kind
    BY <1>1, <1>2 DEF TypeOK, answer
  <2> QED
    BY <1>1, <2>1, <2>2, <2>3 DEF AnswersInv, Of, Result
<1>11. ExpectedInv'
  BY <1>4 DEF ExpectedInv
<1> QED
  BY <1>3, <1>5, <1>6, <1>7, <1>8, <1>9, <1>10, <1>11

(***************************************************************************)
(* The statements before the COMMIT.                                       *)
(***************************************************************************)

\* A step that neither writes nor ends leaves what is recorded as it is.
LEMMA RecordStays ==
  ASSUME StoreInv, UNCHANGED <<log, calls, result>>
  PROVE  Numbered(log)' /\ BatchesInv' /\ AnswersInv'
BY DEF StoreInv, Numbered, head_position, stream_version, InStream, BatchesInv,
   AnswersInv, Of

\* A call takes the first number that no call has.
LEMMA FreshCall ==
  ASSUME StoreConstants, StoreInv, NEW w \in Writers, NEW s \in Streams,
         NEW n \in Sizes, NEW mode \in Modes,
         NEW x \in {AnyVersion, NoStream} \cup ({stream_version(log, s)} \ {0}),
         Call(w, s, x, n, mode)
  PROVE  LET c == call'[w]
             req == [stream |-> s, expected |-> x, n |-> n, mode |-> mode]
         IN /\ c \in Appends /\ calls[c] = NONE /\ wpc[w] = "idle"
            /\ req \in Request /\ req # NONE
            /\ call' = [call EXCEPT ![w] = c] /\ calls' = [calls EXCEPT ![c] = req]
            /\ wpc' = [wpc EXCEPT ![w] = "begin"]
            /\ UNCHANGED <<dialect, log, lock, result, snap, cur, head, attempt, faults>>
            /\ \E m \in 0..MaxCalls : /\ c = m + 1
                                      /\ \A k \in Appends : calls[k] # NONE <=> k <= m
<1> USE DEF StoreInv
<1> DEFINE req == [stream |-> s, expected |-> x, n |-> n, mode |-> mode]
           c == Cardinality({k \in Appends : calls[k] # NONE}) + 1
<1>1. PICK m \in 0..MaxCalls : \A k \in Appends : calls[k] # NONE <=> k <= m
  BY DEF CallsInv
<1>2. {k \in Appends : calls[k] # NONE} = 1..m
  BY <1>1 DEF Appends, StoreConstants
<1>3. c = m + 1
  <2>1. Cardinality(1..m) = m
    BY FS_Interval
  <2> QED
    BY <1>2, <2>1
<1>4. /\ c <= MaxCalls /\ wpc[w] = "idle"
      /\ call' = [call EXCEPT ![w] = c] /\ calls' = [calls EXCEPT ![c] = req]
      /\ wpc' = [wpc EXCEPT ![w] = "begin"]
      /\ UNCHANGED <<dialect, log, lock, result, snap, cur, head, attempt, faults>>
  BY DEF Call
<1>5. c \in Appends /\ calls[c] = NONE
  BY <1>1, <1>3, <1>4 DEF Appends, StoreConstants
<1>6. req \in Request /\ req # NONE
  BY VersionTypes DEF Request, Expected, Modes, StoreConstants
<1> HIDE DEF c, req
<1>7. call'[w] = c
  BY <1>4 DEF TypeOK
<1> QED
  BY <1>1, <1>3, <1>4, <1>5, <1>6, <1>7 DEF req

LEMMA CallKeeps ==
  ASSUME StoreConstants, StoreInv, NEW w \in Writers, NEW s \in Streams,
         NEW n \in Sizes, NEW mode \in Modes,
         NEW x \in {AnyVersion, NoStream} \cup ({stream_version(log, s)} \ {0}),
         Call(w, s, x, n, mode)
  PROVE  StoreInv'
<1> USE DEF StoreInv
<1> DEFINE req == [stream |-> s, expected |-> x, n |-> n, mode |-> mode]
           c == call'[w]
<1>1. PICK m \in 0..MaxCalls : /\ c = m + 1
                               /\ \A k \in Appends : calls[k] # NONE <=> k <= m
  BY FreshCall
<1>2. c = m + 1
  BY <1>1
<1>3. /\ wpc[w] = "idle"
      /\ call' = [call EXCEPT ![w] = c] /\ calls' = [calls EXCEPT ![c] = req]
      /\ wpc' = [wpc EXCEPT ![w] = "begin"]
      /\ UNCHANGED <<dialect, log, lock, result, snap, cur, head, attempt, faults>>
  BY FreshCall
<1>4. c \in Appends /\ calls[c] = NONE
  BY FreshCall
<1>5. req \in Request /\ req # NONE
  BY FreshCall
<1> HIDE DEF c, req
<1>6. TypeOK'
  BY <1>3, <1>4, <1>5 DEF TypeOK, Appends
<1>7. /\ wpc'[w] = "begin" /\ call'[w] = c /\ (Req(w))' = req
      /\ \A v \in Writers \ {w} :
           /\ wpc'[v] = wpc[v] /\ call'[v] = call[v]
           /\ wpc[v] # "idle" => /\ (Req(v))' = Req(v) /\ (Mode(v))' = Mode(v)
                                 /\ (Visible(v))' = Visible(v) /\ call[v] # c
  <2>1. \A v \in Writers \ {w} : wpc[v] # "idle" => call[v] \in Appends \ {c}
    BY <1>4 DEF CallsInv
  <2> QED
    BY <1>3, <1>4, <2>1 DEF TypeOK, Req, Mode, Visible
<1>8. \A k \in Appends \ {c} : calls'[k] = calls[k]
  BY <1>3 DEF TypeOK
<1>9. result[c] = NONE /\ Of(c) = {}
  BY <1>4 DEF CallsInv
<1>10. Numbered(log)' /\ SnapshotsInv'
  BY <1>3 DEF SnapshotsInv
<1>11. LockingInv'
  BY <1>3, <1>7 DEF LockingInv, Reading
<1>12. ReadsInv'
  BY <1>3, <1>7 DEF ReadsInv
<1>13. CallsInv'
  <2>1. calls'[c] = req
    BY <1>3, <1>4 DEF TypeOK
  <2>2. \A k \in Appends : calls'[k] # NONE <=> k <= m + 1
    BY <1>1, <1>2, <1>5, <1>8, <2>1 DEF Appends
  <2>3. m + 1 \in 0..MaxCalls
    BY <1>2, <1>4 DEF Appends, StoreConstants
  <2>4. (Mode(w))' \in Modes'
    BY <1>3, <1>7 DEF Mode, Modes, req
  <2>5. \A k \in Appends : calls'[k] = NONE => result'[k] = NONE /\ Of(k)' = {}
    BY <1>3, <1>5, <1>8, <2>1 DEF CallsInv, Of
  <2>6. ASSUME NEW v \in Writers, wpc'[v] # "idle"
        PROVE  /\ call'[v] \in Appends
               /\ calls'[call'[v]] # NONE /\ (Mode(v))' \in Modes'
               /\ result'[call'[v]] = NONE /\ Of(call[v])' = {}
    <3>1. CASE v = w
      <4>1. Of(call[v])' = Of(c)
        BY <1>3, <1>7, <3>1 DEF Of
      <4> QED
        BY <1>3, <1>4, <1>5, <1>7, <1>9, <2>1, <2>4, <3>1, <4>1
    <3>2. CASE v # w
      <4>1. wpc[v] # "idle" /\ call'[v] = call[v] /\ call[v] # c /\ (Mode(v))' = Mode(v)
        BY <1>7, <2>6, <3>2
      <4>2. Of(call[v])' = Of(call[v])
        BY <1>3, <4>1 DEF Of
      <4> QED
        BY <1>3, <1>8, <4>1, <4>2 DEF CallsInv, Modes
    <3> QED
      BY <3>1, <3>2
  <2>7. \A u, v \in Writers :
          wpc'[u] # "idle" /\ wpc'[v] # "idle" /\ call'[u] = call'[v] => u = v
    BY <1>7 DEF CallsInv
  <2> QED
    <3>1. \E k \in 0..MaxCalls : \A d \in Appends : calls'[d] # NONE <=> d <= k
      BY <2>2, <2>3
    <3> QED
      BY <2>5, <2>6, <2>7, <3>1 DEF CallsInv
<1>14. BatchesInv'
  BY <1>3, <1>8, <1>9 DEF BatchesInv, Of
<1>15. AnswersInv'
  BY <1>3, <1>8, <1>9 DEF AnswersInv, Of
<1>16. ExpectedInv'
  <2>1. x \in Nat => x <= stream_version(log, s)
    BY VersionTypes DEF AnyVersion, NoStream
  <2> QED
    BY <1>3, <1>7, <2>1 DEF ExpectedInv, req
<1> QED
  BY <1>6, <1>10, <1>11, <1>12, <1>13, <1>14, <1>15, <1>16

LEMMA BeginKeeps ==
  ASSUME StoreConstants, StoreInv, NEW w \in Writers, Begin(w)
  PROVE  StoreInv'
<1> USE DEF StoreInv
<1>1. /\ wpc[w] = "begin"
      /\ wpc' = [wpc EXCEPT ![w] = IF dialect = "Postgres" THEN "lock" ELSE "version"]
      /\ UNCHANGED <<dialect, log, call, calls, result, cur, head, attempt, faults>>
      /\ \/ Mode(w) = "append" /\ UNCHANGED <<snap, lock>>
         \/ /\ Mode(w) = "repeat" /\ lock' = lock
            /\ snap' = [snap EXCEPT ![w] = log]
         \/ /\ Mode(w) = "immediate" /\ lock = NONE /\ lock' = w
            /\ snap' = [snap EXCEPT ![w] = log]
  BY DEF Begin, Waits, Mode
<1>2. Mode(w) \in Modes
  BY <1>1, AtHand
<1>3. TypeOK'
  BY <1>1 DEF TypeOK
<1>4. /\ wpc'[w] = IF dialect = "Postgres" THEN "lock" ELSE "version"
      /\ Mode(w) # "append" => snap'[w] = log
      /\ Mode(w) = "append" => snap'[w] = snap[w]
      /\ lock # w
      /\ \A v \in Writers : (Req(v))' = Req(v) /\ (Mode(v))' = Mode(v)
      /\ \A v \in Writers \ {w} : /\ wpc'[v] = wpc[v] /\ snap'[v] = snap[v]
                                  /\ (Visible(v))' = Visible(v)
  BY <1>1 DEF TypeOK, Req, Mode, Visible, LockingInv, Reading
<1>5. Numbered(log)' /\ BatchesInv' /\ AnswersInv'
  BY <1>1, RecordStays
<1>6. SnapshotsInv'
  BY <1>1, <1>4 DEF SnapshotsInv
<1>7. LockingInv'
  <2>1. \A v \in Writers \ {w} : lock' = v => lock = v
    BY <1>1
  <2>2. \A v \in Writers \ {w} : lock = v => lock' = v
    BY <1>1 DEF StoreConstants
  <2>3. lock' = w => dialect = "Sqlite" /\ Mode(w) = "immediate"
    BY <1>1, <1>2, <1>4 DEF Modes, TypeOK
  <2>4. Reading(w)' => dialect = "Sqlite" /\ wpc'[w] = "version"
    BY <1>4 DEF Reading, TypeOK
  <2>5. Mode(w) = "immediate" => lock' = w
    BY <1>1
  <2>6. \A v \in Writers \ {w} : Reading(v)' = Reading(v)
    BY <1>4 DEF Reading
  <2>7. dialect = "Sqlite" => Reading(w)'
    BY <1>4 DEF Reading
  <2> QED
    BY <1>1, <1>4, <2>1, <2>2, <2>3, <2>4, <2>5, <2>6, <2>7 DEF LockingInv
<1>8. ReadsInv'
  BY <1>1, <1>4 DEF ReadsInv
<1>9. CallsInv'
  BY <1>1, <1>4 DEF CallsInv, Of, Modes
<1>10. ExpectedInv'
  BY <1>1, <1>4 DEF ExpectedInv
<1> QED
  BY <1>3, <1>5, <1>6, <1>7, <1>8, <1>9, <1>10

LEMMA LockKeeps ==
  ASSUME StoreConstants, StoreInv, NEW w \in Writers, Lock(w)
  PROVE  StoreInv'
<1> USE DEF StoreInv
<1>1. /\ wpc[w] = "lock" /\ lock = NONE /\ lock' = w
      /\ wpc' = [wpc EXCEPT ![w] = "version"]
      /\ UNCHANGED <<dialect, log, call, calls, result, snap, cur, head, attempt, faults>>
  BY DEF Lock, Waits
<1>2. TypeOK'
  BY <1>1 DEF TypeOK
<1>3. /\ wpc'[w] = "version"
      /\ \A v \in Writers \ {w} : wpc'[v] = wpc[v]
      /\ \A v \in Writers : /\ (Req(v))' = Req(v) /\ (Mode(v))' = Mode(v)
                            /\ (Visible(v))' = Visible(v)
  BY <1>1 DEF TypeOK, Req, Mode, Visible
<1>4. Numbered(log)' /\ BatchesInv' /\ AnswersInv'
  BY <1>1, RecordStays
<1>5. SnapshotsInv'
  BY <1>1 DEF SnapshotsInv
<1>6. LockingInv'
  BY <1>1, <1>3 DEF LockingInv, Reading, StoreConstants
<1>7. ReadsInv'
  BY <1>1, <1>3 DEF ReadsInv
<1>8. CallsInv'
  BY <1>1, <1>3 DEF CallsInv, Of, Modes
<1>9. ExpectedInv'
  BY <1>1, <1>3 DEF ExpectedInv
<1> QED
  BY <1>2, <1>4, <1>5, <1>6, <1>7, <1>8, <1>9

LEMMA ReadVersionKeeps ==
  ASSUME StoreConstants, StoreInv, NEW w \in Writers, ReadVersion(w)
  PROVE  StoreInv'
<1> USE DEF StoreInv
<1> DEFINE current == stream_version(Reads(w), Req(w).stream)
<1>1. wpc[w] = "version" /\ UNCHANGED <<dialect, log, call, calls, faults>>
  BY DEF ReadVersion
<1>2. /\ Req(w).stream \in Streams /\ Mode(w) \in Modes
      /\ Reads(w) \subseteq log /\ Numbered(Reads(w))
  BY <1>1, AtHand, InSight
<1>3. current \in Nat
  BY <1>2, VersionTypes
<1>4. CASE Req(w).n = 0 \/ ~matches(Req(w).expected, current)
  <2>1. PICK kind \in {"ok", "conflict"} :
          /\ Unlocked(w) /\ Return(w, kind, current)
          /\ kind = "ok" => Req(w).n = 0
    BY <1>4 DEF ReadVersion
  <2>2. faults' \in 0..MaxFaults
    BY <1>1 DEF TypeOK
  <2> QED
    BY <1>1, <1>3, <2>1, <2>2, EndKeeps
<1>5. CASE Req(w).n > 0 /\ matches(Req(w).expected, current)
  <2>1. /\ snap' = [snap EXCEPT ![w] = IF dialect = "Sqlite" THEN Reads(w) ELSE @]
        /\ cur' = [cur EXCEPT ![w] = current]
        /\ wpc' = [wpc EXCEPT ![w] = "head"]
        /\ UNCHANGED <<lock, result, head, attempt>>
    BY <1>5, <1>1, AtHand DEF ReadVersion
  <2>2. TypeOK'
    BY <1>1, <1>2, <1>3, <2>1 DEF TypeOK
  <2>3. /\ wpc'[w] = "head" /\ cur'[w] = current
        /\ snap'[w] = IF dialect = "Sqlite" THEN Reads(w) ELSE snap[w]
        /\ \A v \in Writers : (Req(v))' = Req(v) /\ (Mode(v))' = Mode(v)
        /\ \A v \in Writers \ {w} : /\ wpc'[v] = wpc[v] /\ snap'[v] = snap[v]
                                    /\ cur'[v] = cur[v] /\ (Visible(v))' = Visible(v)
    BY <1>1, <2>1 DEF TypeOK, Req, Mode, Visible
  <2>4. (Visible(w))' = Reads(w)
    BY <1>1, <1>2, <2>3 DEF Visible, Reads, Mode, TypeOK
  <2>5. Mode(w) # "append" => snap'[w] = snap[w]
    BY <2>3 DEF Reads, Visible, Mode
  <2>6. Numbered(log)' /\ BatchesInv' /\ AnswersInv'
    BY <1>1, <2>1, RecordStays
  <2>7. SnapshotsInv'
    BY <1>1, <1>2, <2>3 DEF SnapshotsInv
  <2>8. LockingInv'
    <3>1. lock = w /\ dialect = "Sqlite" => snap'[w] = log
      BY <2>3 DEF LockingInv, Reads, Visible
    <3> QED
      BY <1>1, <2>1, <2>3, <3>1 DEF LockingInv, Reading
  <2>9. ReadsInv'
    BY <1>1, <1>5, <2>1, <2>3, <2>4 DEF ReadsInv
  <2>10. CallsInv'
    BY <1>1, <2>1, <2>3 DEF CallsInv, Of, Modes
  <2>11. ExpectedInv'
    BY <1>1, <2>1, <2>3, <2>5 DEF ExpectedInv
  <2> QED
    BY <2>2, <2>6, <2>7, <2>8, <2>9, <2>10, <2>11
<1> QED
  BY <1>1, <1>4, <1>5, AtHand

LEMMA ReadHeadKeeps ==
  ASSUME StoreConstants, StoreInv, NEW w \in Writers, ReadHead(w)
  PROVE  StoreInv'
<1> USE DEF StoreInv
<1>1. /\ wpc[w] = "head" /\ wpc' = [wpc EXCEPT ![w] = "insert"]
      /\ head' = [head EXCEPT ![w] = head_position(Visible(w))]
      /\ UNCHANGED <<dialect, log, lock, call, calls, result, snap, cur, attempt, faults>>
  BY DEF ReadHead
<1>2. head_position(Visible(w)) \in Nat
  BY <1>1, InSight, VersionTypes
<1>3. TypeOK'
  BY <1>1, <1>2 DEF TypeOK
<1>4. /\ wpc'[w] = "insert" /\ head'[w] = head_position(Visible(w))
      /\ \A v \in Writers : /\ (Req(v))' = Req(v) /\ (Mode(v))' = Mode(v)
                            /\ (Visible(v))' = Visible(v)
      /\ \A v \in Writers \ {w} : wpc'[v] = wpc[v] /\ head'[v] = head[v]
  BY <1>1 DEF TypeOK, Req, Mode, Visible
<1>5. Numbered(log)' /\ BatchesInv' /\ AnswersInv'
  BY <1>1, RecordStays
<1>6. SnapshotsInv'
  BY <1>1 DEF SnapshotsInv
<1>7. LockingInv'
  BY <1>1, <1>4 DEF LockingInv, Reading
<1>8. ReadsInv'
  BY <1>1, <1>4 DEF ReadsInv
<1>9. CallsInv'
  BY <1>1, <1>4 DEF CallsInv, Of, Modes
<1>10. ExpectedInv'
  BY <1>1, <1>4 DEF ExpectedInv
<1> QED
  BY <1>3, <1>5, <1>6, <1>7, <1>8, <1>9, <1>10

\* Rows numbered from a snapshot that is out of date meet the unique keys.
LEMMA StaleViolates ==
  ASSUME NEW rows, rows \subseteq log, rows # log, Numbered(rows), Numbered(log),
         NEW new, \E r \in new : r.position = head_position(rows) + 1
  PROVE  Violates(new)
<1>1. PICK e \in log : e \notin rows
  OBVIOUS
<1>2. e.position \in 1..head_position(log) /\ e.position \notin 1..head_position(rows)
  BY <1>1 DEF Numbered
<1>3. head_position(rows) + 1 \in 1..head_position(log)
  BY <1>2, VersionTypes
<1>4. PICK f \in log : f.position = head_position(rows) + 1
  BY <1>3 DEF Numbered
<1> QED
  BY <1>4 DEF Violates

LEMMA InsertKeeps ==
  ASSUME StoreConstants, StoreInv, NEW w \in Writers, Insert(w)
  PROVE  StoreInv'
<1> USE DEF StoreInv
<1>1. wpc[w] = "insert" /\ UNCHANGED <<dialect, log, call, calls, faults>>
  BY DEF Insert
<1>2. faults' \in 0..MaxFaults
  BY <1>1 DEF TypeOK
<1>3. CASE Unlocked(w) /\ Return(w, "store", 0)
  BY <1>1, <1>2, <1>3, EndKeeps
<1>4. /\ Visible(w) \subseteq log /\ Numbered(Visible(w))
      /\ Req(w).n \in Nat \ {0} /\ Mode(w) \in Modes /\ cur[w] \in Nat
      /\ head[w] = head_position(Visible(w)) /\ head[w] \in Nat
  BY <1>1, InSight, AtHand DEF ReadsInv, TypeOK
<1>5. CASE /\ ~Busy(w) /\ ~Violates(Rows(w))
           /\ wpc' = [wpc EXCEPT ![w] = "commit"] /\ lock' = w
           /\ UNCHANGED <<result, snap, cur, head, attempt>>
  <2>1. \E r \in Rows(w) : r.position = head_position(Visible(w)) + 1
    <3> DEFINE row(i) == [position |-> head[w] + i, stream |-> Req(w).stream,
                          version |-> cur[w] + i, call |-> call[w]]
    <3>1. row(1) \in Rows(w)
      BY <1>4 DEF Rows
    <3> QED
      BY <1>4, <3>1
  <2>2. Visible(w) = log
    BY <1>4, <1>5, <2>1, StaleViolates
  <2>3. lock = w \/ (lock = NONE /\ dialect = "Sqlite" /\ snap[w] = log)
    BY <1>1, <1>5 DEF Busy, LockingInv, Reading, TypeOK
  <2>4. TypeOK'
    BY <1>1, <1>5 DEF TypeOK
  <2>5. /\ wpc'[w] = "commit"
        /\ \A v \in Writers : /\ (Req(v))' = Req(v) /\ (Mode(v))' = Mode(v)
                              /\ (Visible(v))' = Visible(v)
        /\ \A v \in Writers \ {w} : wpc'[v] = wpc[v]
    BY <1>1, <1>5 DEF TypeOK, Req, Mode, Visible
  <2>6. Numbered(log)' /\ BatchesInv' /\ AnswersInv'
    BY <1>1, <1>5, RecordStays
  <2>7. SnapshotsInv'
    BY <1>1, <1>5 DEF SnapshotsInv
  <2>8. LockingInv'
    BY <1>1, <1>5, <2>2, <2>3, <2>5 DEF LockingInv, Reading, StoreConstants
  <2>9. ReadsInv'
    BY <1>1, <1>5, <2>5 DEF ReadsInv
  <2>10. CallsInv'
    BY <1>1, <1>5, <2>5 DEF CallsInv, Of, Modes
  <2>11. ExpectedInv'
    BY <1>1, <1>5, <2>5 DEF ExpectedInv
  <2> QED
    BY <2>4, <2>6, <2>7, <2>8, <2>9, <2>10, <2>11
<1>6. CASE /\ Unlocked(w) /\ Mode(w) = "append" /\ attempt[w] + 1 < MaxRetries
           /\ wpc' = [wpc EXCEPT ![w] = "begin"]
           /\ attempt' = [attempt EXCEPT ![w] = @ + 1]
           /\ UNCHANGED <<result, snap, cur, head>>
  <2>1. TypeOK'
    BY <1>1, <1>6 DEF TypeOK, Unlocked, StoreConstants
  <2>2. /\ wpc'[w] = "begin" /\ lock' # w /\ lock' \in {lock, NONE}
        /\ \A v \in Writers : /\ (Req(v))' = Req(v) /\ (Mode(v))' = Mode(v)
                              /\ (Visible(v))' = Visible(v)
        /\ \A v \in Writers \ {w} : wpc'[v] = wpc[v] /\ (lock = v => lock' = v)
    BY <1>1, <1>6 DEF TypeOK, Req, Mode, Visible, Unlocked, StoreConstants
  <2>3. Numbered(log)' /\ BatchesInv' /\ AnswersInv'
    BY <1>1, <1>6, RecordStays
  <2>4. SnapshotsInv'
    BY <1>1, <1>6 DEF SnapshotsInv
  <2>5. LockingInv'
    BY <1>1, <1>6, <2>2 DEF LockingInv, Reading, StoreConstants
  <2>6. ReadsInv'
    BY <1>1, <1>6, <2>2 DEF ReadsInv
  <2>7. CallsInv'
    BY <1>1, <1>6, <2>2 DEF CallsInv, Of, Modes
  <2>8. ExpectedInv'
    BY <1>1, <1>6, <2>2 DEF ExpectedInv
  <2> QED
    BY <2>1, <2>3, <2>4, <2>5, <2>6, <2>7, <2>8
<1> QED
  BY <1>3, <1>5, <1>6 DEF Insert, RaceLost, Mode

(***************************************************************************)
(* The COMMIT.                                                             *)
(***************************************************************************)

\* A batch of n rows that continues position h of the log and version v of
\* stream s.
Continues(batch, h, s, v, n) ==
  /\ {e.position : e \in batch} = (h + 1)..(h + n)
  /\ {e.version : e \in batch} = (v + 1)..(v + n)
  /\ \A e \in batch : /\ e.stream = s
                      /\ e.position \in (h + 1)..(h + n)
                      /\ e.version \in (v + 1)..(v + n)
                      /\ e.version - v = e.position - h
  /\ \A e, f \in batch : e.position = f.position \/ e.version = f.version => e = f

LEMMA BatchContinues ==
  ASSUME NEW h \in Nat, NEW s, NEW v \in Nat, NEW n \in Nat, NEW c,
         NEW new, new = {[position |-> h + i, stream |-> s, version |-> v + i,
                          call |-> c] : i \in 1..n}
  PROVE  Continues(new, h, s, v, n)
<1> DEFINE row(i) == [position |-> h + i, stream |-> s, version |-> v + i, call |-> c]
<1>1. \A i \in 1..n : /\ row(i) \in new
                      /\ row(i).position = h + i /\ row(i).version = v + i
                      /\ row(i).stream = s /\ row(i).call = c
  OBVIOUS
<1>2. \A e \in new : \E i \in 1..n : e = row(i)
  OBVIOUS
<1> HIDE DEF row
<1>3. \A k \in (h + 1)..(h + n) : k - h \in 1..n /\ h + (k - h) = k
  OBVIOUS
<1>4. {e.position : e \in new} = (h + 1)..(h + n)
  <2>1. \A e \in new : e.position \in (h + 1)..(h + n)
    BY <1>1, <1>2
  <2>2. ASSUME NEW k \in (h + 1)..(h + n)
        PROVE  \E e \in new : e.position = k
    BY <1>1, <1>3
  <2> QED
    BY <2>1, <2>2
<1>5. \A k \in (v + 1)..(v + n) : k - v \in 1..n /\ v + (k - v) = k
  OBVIOUS
<1>6. {e.version : e \in new} = (v + 1)..(v + n)
  <2>1. \A e \in new : e.version \in (v + 1)..(v + n)
    BY <1>1, <1>2
  <2>2. ASSUME NEW k \in (v + 1)..(v + n)
        PROVE  \E e \in new : e.version = k
    BY <1>1, <1>5
  <2> QED
    BY <2>1, <2>2
<1>7. \A e \in new :
        /\ e.stream = s
        /\ e.position \in (h + 1)..(h + n) /\ e.version \in (v + 1)..(v + n)
        /\ e.version - v = e.position - h
  BY <1>1, <1>2
<1>8. ASSUME NEW e \in new, NEW f \in new, e.position = f.position \/ e.version = f.version
      PROVE  e = f
  <2>1. PICK i \in 1..n : e = row(i)
    BY <1>2
  <2>2. PICK j \in 1..n : f = row(j)
    BY <1>2
  <2>3. i = j
    BY <1>1, <1>8, <2>1, <2>2
  <2> QED
    BY <2>1, <2>2, <2>3
<1> QED
  BY <1>4, <1>6, <1>7, <1>8 DEF Continues

\* Numbered rows with a continuation are numbered.
LEMMA NumberedContinues ==
  ASSUME NEW rows, Numbered(rows), NEW s \in Streams, NEW n \in Nat, NEW new,
         Continues(new, head_position(rows), s, stream_version(rows, s), n)
  PROVE  /\ Numbered(rows \cup new)
         /\ head_position(rows \cup new) = head_position(rows) + n
         /\ \A t \in Streams : stream_version(rows \cup new, t)
              = stream_version(rows, t) + (IF t = s THEN n ELSE 0)
<1> DEFINE h == head_position(rows)
           v(t) == stream_version(rows, t)
           all == rows \cup new
           w(t) == v(t) + (IF t = s THEN n ELSE 0)
<1>1. /\ h \in Nat /\ \A t \in Streams : v(t) \in Nat /\ w(t) \in Nat
      /\ {e.position : e \in rows} = 1..h
      /\ \A t \in Streams : {e.version : e \in InStream(rows, t)} = 1..v(t)
      /\ \A e, f \in rows :
           /\ e.position = f.position => e = f
           /\ e.stream = f.stream /\ e.version = f.version => e = f
           /\ e.stream = f.stream => (e.version < f.version <=> e.position < f.position)
  BY DEF Numbered
<1>2. Continues(new, h, s, v(s), n)
  OBVIOUS
<1> HIDE DEF h, v
<1>3. /\ {e.position : e \in new} = (h + 1)..(h + n)
      /\ {e.version : e \in new} = (v(s) + 1)..(v(s) + n)
      /\ \A e \in new : /\ e.stream = s
                        /\ e.position \in (h + 1)..(h + n)
                        /\ e.version \in (v(s) + 1)..(v(s) + n)
                        /\ e.version - v(s) = e.position - h
      /\ \A e, f \in new : e.position = f.position \/ e.version = f.version => e = f
  BY <1>2 DEF Continues
<1>4. {e.position : e \in all} = 1..(h + n)
  <2>1. {e.position : e \in all} = {e.position : e \in rows} \cup {e.position : e \in new}
    OBVIOUS
  <2>2. (1..h) \cup ((h + 1)..(h + n)) = 1..(h + n)
    BY <1>1
  <2> QED
    BY <1>1, <1>3, <2>1, <2>2
<1>5. ASSUME NEW t \in Streams
      PROVE  {e.version : e \in InStream(all, t)} = 1..w(t)
  <2>1. CASE t = s
    <3>1. InStream(all, t) = InStream(rows, t) \cup new
      BY <1>3, <2>1 DEF InStream
    <3>2. {e.version : e \in InStream(all, t)}
            = {e.version : e \in InStream(rows, t)} \cup {e.version : e \in new}
      BY <3>1
    <3>3. (1..v(s)) \cup ((v(s) + 1)..(v(s) + n)) = 1..(v(s) + n)
      BY <1>1
    <3> QED
      BY <1>1, <1>3, <2>1, <3>2, <3>3
  <2>2. CASE t # s
    <3>1. InStream(all, t) = InStream(rows, t)
      BY <1>3, <2>2 DEF InStream
    <3> QED
      BY <1>1, <2>2, <3>1
  <2> QED
    BY <2>1, <2>2
<1>6. head_position(all) = h + n
  <2>1. Max((1..(h + n)) \cup {0}) = h + n
    BY <1>1, MaxUpTo
  <2> QED
    BY <1>4, <2>1 DEF head_position
<1>7. \A t \in Streams : stream_version(all, t) = w(t)
  BY <1>1, <1>5, MaxUpTo DEF stream_version, InStream
<1>8. \A e \in rows : e.position \in 1..h /\ (e.stream = s => e.version \in 1..v(s))
  BY <1>1 DEF InStream
<1>9. ASSUME NEW e \in all, NEW f \in all
      PROVE  /\ e.position = f.position => e = f
             /\ e.stream = f.stream /\ e.version = f.version => e = f
             /\ e.stream = f.stream => (e.version < f.version <=> e.position < f.position)
  <2>1. CASE e \in rows /\ f \in rows
    BY <1>1, <2>1
  <2>2. CASE e \in new /\ f \in new
    BY <1>1, <1>3, <2>2
  <2>3. CASE e \in rows /\ f \in new
    BY <1>1, <1>3, <1>8, <2>3
  <2>4. CASE e \in new /\ f \in rows
    BY <1>1, <1>3, <1>8, <2>4
  <2> QED
    BY <2>1, <2>2, <2>3, <2>4
<1>10. Numbered(all)
  <2>1. head_position(all) \in Nat /\ \A t \in Streams : stream_version(all, t) \in Nat
    <3>1. h + n \in Nat /\ \A t \in Streams : w(t) \in Nat
      BY <1>1
    <3> HIDE DEF w
    <3> QED
      BY <1>6, <1>7, <3>1
  <2>2. {e.position : e \in all} = 1..head_position(all)
    BY <1>4, <1>6
  <2>3. \A t \in Streams : {e.version : e \in InStream(all, t)} = 1..stream_version(all, t)
    BY <1>5, <1>7
  <2> QED
    BY <1>9, <2>1, <2>2, <2>3 DEF Numbered
<1> QED
  BY <1>6, <1>7, <1>10 DEF h, v

\* What a writer about to commit has read is still the newest.
LEMMA AboutToCommit ==
  ASSUME StoreConstants, StoreInv, NEW w \in Writers, wpc[w] = "commit"
  PROVE  /\ lock = w /\ cur[w] \in Nat /\ head[w] \in Nat
         /\ Req(w).n \in Nat \ {0} /\ Req(w).stream \in Streams
         /\ call[w] \in Appends /\ Req(w) = calls[call[w]] /\ Of(call[w]) = {}
         /\ matches(Req(w).expected, cur[w])
         /\ head[w] = head_position(log)
         /\ cur[w] = stream_version(log, Req(w).stream)
<1>1. lock = w /\ Visible(w) = log
  BY DEF StoreInv, LockingInv
<1>2. /\ call[w] \in Appends /\ Req(w) = calls[call[w]]
      /\ Req(w).n \in Nat /\ Req(w).stream \in Streams
  BY AtHand DEF StoreInv
<1>3. Of(call[w]) = {} /\ cur[w] \in Nat /\ head[w] \in Nat
  BY DEF StoreInv, CallsInv, TypeOK
<1>4. /\ matches(Req(w).expected, cur[w]) /\ Req(w).n > 0
      /\ head[w] = head_position(log)
      /\ cur[w] = stream_version(log, Req(w).stream)
  BY <1>1 DEF StoreInv, ReadsInv
<1> QED
  BY <1>1, <1>2, <1>3, <1>4

\* The rows a COMMIT adds.
LEMMA CommitRows ==
  ASSUME StoreConstants, StoreInv, NEW w \in Writers, wpc[w] = "commit"
  PROVE  /\ Rows(w) \subseteq Event /\ \A e \in Rows(w) : e.call = call[w]
         /\ Continues(Rows(w), head_position(log), Req(w).stream,
                      stream_version(log, Req(w).stream), Req(w).n)
<1> USE AboutToCommit
<1>1. ASSUME NEW e \in Rows(w) PROVE e \in Event /\ e.call = call[w]
  <2>1. PICK i \in 1..Req(w).n :
          e = [position |-> head[w] + i, stream |-> Req(w).stream,
               version |-> cur[w] + i, call |-> call[w]]
    BY DEF Rows
  <2>2. head[w] + i \in Nat /\ cur[w] + i \in Nat
    OBVIOUS
  <2> QED
    BY <2>1, <2>2 DEF Event
<1>2. Continues(Rows(w), head[w], Req(w).stream, cur[w], Req(w).n)
  BY BatchContinues DEF Rows
<1> QED
  BY <1>1, <1>2

\* The log a COMMIT leaves.
LEMMA CommitNumbers ==
  ASSUME StoreConstants, StoreInv, NEW w \in Writers, wpc[w] = "commit"
  PROVE  /\ Numbered(log \cup Rows(w))
         /\ head_position(log \cup Rows(w)) = head_position(log) + Req(w).n
         /\ \A t \in Streams : stream_version(log \cup Rows(w), t)
              = stream_version(log, t) + (IF t = Req(w).stream THEN Req(w).n ELSE 0)
<1> DEFINE s == Req(w).stream
           n == Req(w).n
<1>1. /\ Numbered(log) /\ s \in Streams /\ n \in Nat
      /\ Continues(Rows(w), head_position(log), s, stream_version(log, s), n)
  BY AboutToCommit, CommitRows DEF StoreInv
<1> QED
  BY <1>1, NumberedContinues

LEMMA CommitKeeps ==
  ASSUME StoreConstants, StoreInv, NEW w \in Writers, wpc[w] = "commit",
         NEW kind \in {"ok", "store"}, NEW version \in Nat,
         kind = "ok" => version = cur[w] + Req(w).n,
         log' = log \cup Rows(w), Unlocked(w), Return(w, kind, version),
         UNCHANGED <<dialect, call, calls>>, faults' \in 0..MaxFaults
  PROVE  StoreInv'
<1> USE DEF StoreInv
<1> DEFINE answer == [kind |-> kind, version |-> version]
           c == call[w]
           s == Req(w).stream
           n == Req(w).n
<1>1. /\ c \in Appends /\ Req(w) = calls[c] /\ answer \in Result /\ answer # NONE
      /\ lock = w /\ cur[w] \in Nat /\ n \in Nat \ {0} /\ s \in Streams
      /\ Of(c) = {} /\ matches(Req(w).expected, cur[w])
      /\ cur[w] = stream_version(log, s)
  BY AboutToCommit DEF Result, StoreConstants
<1>2. /\ wpc' = [wpc EXCEPT ![w] = "idle"] /\ snap' = [snap EXCEPT ![w] = {}]
      /\ result' = [result EXCEPT ![c] = answer]
      /\ cur' = [cur EXCEPT ![w] = 0] /\ head' = [head EXCEPT ![w] = 0]
      /\ attempt' = [attempt EXCEPT ![w] = 0]
      /\ lock' = NONE
  BY <1>1 DEF Return, Unlocked
<1>3. /\ Rows(w) \subseteq Event /\ \A e \in Rows(w) : e.call = c
      /\ Continues(Rows(w), head_position(log), s, stream_version(log, s), n)
  BY CommitRows
<1> HIDE DEF answer
<1>4. TypeOK'
  BY <1>1, <1>2, <1>3 DEF TypeOK, StoreConstants, Event
<1>5. /\ Numbered(log \cup Rows(w))
      /\ \A t \in Streams : stream_version(log \cup Rows(w), t)
           = stream_version(log, t) + (IF t = s THEN n ELSE 0)
  BY CommitNumbers
<1>6. Numbered(log')
  BY <1>5
<1>7. ASSUME NEW t \in Streams
      PROVE  /\ stream_version(log, t) \in Nat
             /\ stream_version(log', t) \in Nat
             /\ stream_version(log', t) >= stream_version(log, t)
  <2>1. stream_version(log, t) \in Nat
    BY VersionTypes
  <2>2. stream_version(log', t) = stream_version(log, t) + (IF t = s THEN n ELSE 0)
    BY <1>5
  <2> HIDE DEF n
  <2>3. n \in Nat
    BY <1>1
  <2> QED
    BY <2>1, <2>2, <2>3
<1>8. /\ wpc'[w] = "idle" /\ snap'[w] = {}
      /\ \A v \in Writers \ {w} :
           /\ wpc'[v] = wpc[v] /\ snap'[v] = snap[v] /\ cur'[v] = cur[v]
           /\ head'[v] = head[v] /\ call[v] = call'[v]
           /\ (Req(v))' = Req(v) /\ (Mode(v))' = Mode(v)
  BY <1>2 DEF TypeOK, Req, Mode
<1>9. SnapshotsInv'
  BY <1>8, EmptyNumbered DEF SnapshotsInv
<1>10. \A v \in Writers \ {w} :
         Reading(v) => dialect # "Postgres" /\ Mode(v) # "immediate" /\ wpc[v] # "commit"
  BY <1>1 DEF LockingInv
<1>11. LockingInv'
  BY <1>2, <1>8, <1>10 DEF LockingInv, Reading, StoreConstants
<1>12. \A v \in Writers \ {w} : Reading(v) => (Visible(v))' = Visible(v)
  BY <1>8, <1>10 DEF Visible
<1>13. ReadsInv'
  BY <1>8, <1>12 DEF ReadsInv, Reading
<1>14. /\ \A d \in Appends \ {c} : Of(d)' = Of(d) /\ result'[d] = result[d]
       /\ Of(c)' = Rows(w) /\ result'[c] = answer
  BY <1>1, <1>2, <1>3 DEF Of, TypeOK
<1>15. CallsInv'
  <2>1. \A v \in Writers \ {w} : wpc[v] # "idle" => call[v] # c
    BY DEF CallsInv
  <2>2. \A d \in Appends \ {c} : calls[d] = NONE => result'[d] = NONE /\ Of(d)' = {}
    BY <1>14 DEF CallsInv
  <2>3. calls[c] # NONE
    BY DEF CallsInv
  <2>4. ASSUME NEW v \in Writers, wpc'[v] # "idle"
        PROVE  /\ call[v] \in Appends
               /\ calls[call[v]] # NONE /\ (Mode(v))' \in Modes'
               /\ result'[call[v]] = NONE /\ Of(call[v])' = {}
    BY <1>8, <1>14, <2>1, <2>4 DEF CallsInv, Modes
  <2>5. \A u, v \in Writers :
          wpc'[u] # "idle" /\ wpc'[v] # "idle" /\ call[u] = call[v] => u = v
    BY <1>8 DEF CallsInv
  <2> QED
    BY <2>2, <2>3, <2>4, <2>5 DEF CallsInv
<1>16. /\ {e.version : e \in Rows(w)} = (cur[w] + 1)..(cur[w] + n)
       /\ \A e \in Rows(w) : e.stream = s
  BY <1>1, <1>3 DEF Continues
<1>17. BatchesInv'
  <2>1. cur[w] + 1 \in {e.version : e \in Rows(w)}
    BY <1>1, <1>16
  <2>2. /\ (cur[w] + 1) + n - 1 = cur[w] + n /\ (cur[w] + 1) - 1 = cur[w]
    BY <1>1
  <2>3. \E first \in {e.version : e \in Rows(w)} :
          /\ {e.version : e \in Rows(w)} = first..(first + calls[c].n - 1)
          /\ matches(calls[c].expected, first - 1)
    BY <1>1, <1>16, <2>1, <2>2
  <2> QED
    BY <1>1, <1>14, <1>16, <2>3 DEF BatchesInv
<1>18. AnswersInv'
  <2>1. answer.kind = kind /\ answer.version = version
    BY DEF answer
  <2>2. kind = "ok" => (version - n + 1 = cur[w] + 1 /\ version = cur[w] + n)
    BY <1>1
  <2> QED
    BY <1>1, <1>14, <1>16, <2>1, <2>2 DEF AnswersInv
<1>19. ExpectedInv'
  <2>1. ASSUME NEW v \in Writers, wpc'[v] # "idle", (Req(v))'.expected \in Nat
        PROVE  (Req(v))'.expected <= stream_version(log', (Req(v))'.stream)
    <3>1. v # w /\ wpc[v] # "idle" /\ (Req(v))' = Req(v)
      BY <1>8, <2>1
    <3>2. Req(v).expected <= stream_version(log, Req(v).stream) /\ Req(v).stream \in Streams
      BY <2>1, <3>1, AtHand DEF ExpectedInv
    <3> QED
      <4> DEFINE q == Req(v)
      <4>1. q.expected \in Nat /\ q.expected <= stream_version(log, q.stream)
        BY <2>1, <3>1, <3>2
      <4>2. /\ q.stream \in Streams /\ stream_version(log, q.stream) \in Nat
            /\ stream_version(log', q.stream) \in Nat
            /\ stream_version(log', q.stream) >= stream_version(log, q.stream)
        BY <1>7, <3>2
      <4>3. q.expected <= stream_version(log', q.stream)
        BY <4>1, <4>2
      <4> QED
        BY <3>1, <4>3
  <2> QED
    BY <1>8, <2>1 DEF ExpectedInv
<1> QED
  BY <1>4, <1>6, <1>9, <1>11, <1>13, <1>15, <1>17, <1>18, <1>19

(***************************************************************************)
(* The theorems.                                                           *)
(***************************************************************************)

LEMMA InitStore == StoreConstants /\ Init => StoreInv
<1> SUFFICES ASSUME StoreConstants, Init PROVE StoreInv
  OBVIOUS
<1>1. TypeOK
  BY DEF StoreConstants, Init, TypeOK, Appends
<1>2. Numbered(log) /\ SnapshotsInv
  BY EmptyNumbered DEF Init, SnapshotsInv
<1>3. LockingInv /\ ReadsInv /\ ExpectedInv
  BY DEF Init, LockingInv, Reading, ReadsInv, ExpectedInv, StoreConstants
<1>4. CallsInv
  <2>1. \A c \in Appends : calls[c] = NONE /\ result[c] = NONE /\ Of(c) = {} /\ ~(c <= 0)
    BY DEF Init, Of, Appends
  <2>2. 0 \in 0..MaxCalls
    BY DEF StoreConstants
  <2>3. \E m \in 0..MaxCalls : \A c \in Appends : calls[c] # NONE <=> c <= m
    BY <2>1, <2>2
  <2> QED
    BY <2>1, <2>3 DEF Init, CallsInv
<1>5. BatchesInv /\ AnswersInv
  BY DEF Init, BatchesInv, AnswersInv, Of
<1> QED
  BY <1>1, <1>2, <1>3, <1>4, <1>5 DEF StoreInv

LEMMA NextStore ==
  ASSUME StoreConstants, StoreInv, [Next]_vars
  PROVE  StoreInv'
<1>1. CASE UNCHANGED vars
  <2> USE <1>1 DEF vars
  <2>1. TypeOK' /\ SnapshotsInv'
    BY DEF StoreInv, TypeOK, SnapshotsInv
  <2>2. Numbered(log)' /\ BatchesInv' /\ AnswersInv'
    BY RecordStays
  <2>3. \A w \in Writers : /\ (Req(w))' = Req(w) /\ (Mode(w))' = Mode(w)
                           /\ (Visible(w))' = Visible(w)
    BY DEF Req, Mode, Visible
  <2>4. LockingInv' /\ ReadsInv' /\ CallsInv' /\ ExpectedInv'
    BY <2>3 DEF StoreInv, LockingInv, Reading, ReadsInv, CallsInv, Of, Modes, ExpectedInv
  <2> QED
    BY <2>1, <2>2, <2>4 DEF StoreInv
<1>2. ASSUME NEW w \in Writers, Rollback(w) PROVE StoreInv'
  <2>1. faults' \in 0..MaxFaults
    BY <1>2 DEF Rollback, StoreInv, TypeOK, StoreConstants
  <2> QED
    BY <1>2, <2>1, EndKeeps DEF Rollback
<1>3. ASSUME NEW w \in Writers, Commit(w) PROVE StoreInv'
  <2>1. faults' \in 0..MaxFaults /\ cur[w] + Req(w).n \in Nat /\ wpc[w] = "commit"
    BY <1>3, AboutToCommit DEF Commit, StoreInv, TypeOK
  <2> QED
    BY <1>3, <2>1, CommitKeeps DEF Commit
<1>4. ASSUME NEW w \in Writers, CommitUnheard(w) PROVE StoreInv'
  <2>1. faults' \in 0..MaxFaults
    BY <1>4 DEF CommitUnheard, StoreInv, TypeOK, StoreConstants
  <2> QED
    BY <1>4, <2>1, CommitKeeps DEF CommitUnheard
<1> QED
  BY <1>1, <1>2, <1>3, <1>4, CallKeeps, BeginKeeps, LockKeeps, ReadVersionKeeps,
     ReadHeadKeeps, InsertKeeps DEF Next, Statement

LEMMA StoreInvariant == ASSUME StoreConstants PROVE Spec => []StoreInv
<1>1. Init => StoreInv
  BY InitStore
<1>2. StoreInv /\ [Next]_vars => StoreInv'
  BY NextStore
<1> QED
  BY <1>1, <1>2, PTL DEF Spec

\* As many elements as numbers.
LEMMA Counting ==
  ASSUME NEW S, NEW a \in Nat, NEW n \in Nat, NEW f,
         \A e \in S : f[e] \in (a + 1)..(a + n),
         \A k \in (a + 1)..(a + n) : \E e \in S : f[e] = k,
         \A d, e \in S : f[d] = f[e] => d = e
  PROVE  IsFiniteSet(S) /\ Cardinality(S) = n
<1> DEFINE g == [i \in 1..n |-> CHOOSE e \in S : f[e] = a + i]
<1>1. \A i \in 1..n : g[i] \in S /\ f[g[i]] = a + i
  <2> TAKE i \in 1..n
  <2>1. a + i \in (a + 1)..(a + n)
    OBVIOUS
  <2>2. \E e \in S : f[e] = a + i
    BY <2>1
  <2> QED
    BY <2>2
<1>2. g \in [1..n -> S]
  BY <1>1
<1> HIDE DEF g
<1>3. \A i, j \in 1..n : g[i] = g[j] => i = j
  BY <1>1
<1>4. \A e \in S : \E i \in 1..n : g[i] = e
  <2> TAKE e \in S
  <2>1. f[e] - a \in 1..n /\ a + (f[e] - a) = f[e]
    OBVIOUS
  <2>2. g[f[e] - a] = e
    BY <1>1, <2>1
  <2> QED
    BY <2>1, <2>2
<1>5. g \in Bijection(1..n, S)
  BY <1>2, <1>3, <1>4 DEF Bijection, Injection, Surjection, IsInjective
<1>6. ExistsBijection(1..n, S)
  BY <1>5 DEF ExistsBijection
<1> QED
  BY <1>6, FS_CountingElements, FS_Interval, FS_Bijection

LEMMA VersionCount ==
  ASSUME NEW S, NEW a \in Nat, NEW n \in Nat,
         {e.version : e \in S} = (a + 1)..(a + n),
         \A d, e \in S : d.version = e.version => d = e
  PROVE  IsFiniteSet(S) /\ Cardinality(S) = n
<1> DEFINE f == [e \in S |-> e.version]
<1>1. \A e \in S : f[e] \in (a + 1)..(a + n)
  OBVIOUS
<1>2. \A k \in (a + 1)..(a + n) : \E e \in S : f[e] = k
  OBVIOUS
<1>3. \A d, e \in S : f[d] = f[e] => d = e
  OBVIOUS
<1> HIDE DEF f
<1> QED
  BY <1>1, <1>2, <1>3, Counting

LEMMA PositionCount ==
  ASSUME NEW S, NEW a \in Nat, NEW n \in Nat,
         {e.position : e \in S} = (a + 1)..(a + n),
         \A d, e \in S : d.position = e.position => d = e
  PROVE  IsFiniteSet(S) /\ Cardinality(S) = n
<1> DEFINE f == [e \in S |-> e.position]
<1>1. \A e \in S : f[e] \in (a + 1)..(a + n)
  OBVIOUS
<1>2. \A k \in (a + 1)..(a + n) : \E e \in S : f[e] = k
  OBVIOUS
<1>3. \A d, e \in S : f[d] = f[e] => d = e
  OBVIOUS
<1> HIDE DEF f
<1> QED
  BY <1>1, <1>2, <1>3, Counting

\* Numbered rows are as many as their last number says.
LEMMA NumberedCount ==
  ASSUME NEW rows, Numbered(rows)
  PROVE  /\ IsFiniteSet(rows) /\ Cardinality(rows) = head_position(rows)
         /\ \A s \in Streams : Cardinality(InStream(rows, s)) = stream_version(rows, s)
<1>1. IsFiniteSet(rows) /\ Cardinality(rows) = head_position(rows)
  <2> DEFINE h == head_position(rows)
  <2>1. /\ h \in Nat /\ {e.position : e \in rows} = 1..h
        /\ \A d, e \in rows : d.position = e.position => d = e
    BY DEF Numbered
  <2> HIDE DEF h
  <2>2. {e.position : e \in rows} = (0 + 1)..(0 + h)
    BY <2>1
  <2>3. IsFiniteSet(rows) /\ Cardinality(rows) = h
    BY <2>1, <2>2, PositionCount
  <2> QED
    BY <2>3 DEF h
<1>2. ASSUME NEW s \in Streams
      PROVE  Cardinality(InStream(rows, s)) = stream_version(rows, s)
  <2> DEFINE v == stream_version(rows, s)
             S == InStream(rows, s)
  <2>1. v \in Nat /\ {e.version : e \in S} = 1..v
    BY DEF Numbered
  <2>2. \A d, e \in S : d.version = e.version => d = e
    BY DEF Numbered, InStream
  <2> HIDE DEF S, v
  <2>3. {e.version : e \in S} = (0 + 1)..(0 + v)
    BY <2>1
  <2>4. Cardinality(S) = v
    BY <2>1, <2>2, <2>3, VersionCount
  <2> QED
    BY <2>4 DEF S, v
<1> QED
  BY <1>1, <1>2

\* The committed positions, and the versions of each stream, are 1..n.
THEOREM NoGaps == ASSUME StoreConstants PROVE Spec => []GapFree
<1>1. StoreInv => GapFree
  <2> SUFFICES ASSUME StoreInv PROVE GapFree
    OBVIOUS
  <2>1. Numbered(log)
    BY DEF StoreInv
  <2>2. {e.position : e \in log} = 1..Cardinality(log)
    BY <2>1, NumberedCount DEF Numbered
  <2>3. \A s \in Streams :
          {e.version : e \in InStream(log, s)} = 1..Cardinality(InStream(log, s))
    BY <2>1, NumberedCount DEF Numbered
  <2> QED
    BY <2>2, <2>3 DEF GapFree, InStream
<1> QED
  BY <1>1, StoreInvariant, PTL

\* A stream's versions are in the order of the log.
THEOREM StreamOrder == ASSUME StoreConstants PROVE Spec => []VersionsFollowPositions
<1>1. StoreInv => VersionsFollowPositions
  BY DEF StoreInv, Numbered, VersionsFollowPositions
<1> QED
  BY <1>1, StoreInvariant, PTL

\* What a call has written is its whole batch, and its versions are as many.
LEMMA WholeBatch ==
  ASSUME StoreConstants, StoreInv, NEW c \in Appends, Of(c) # {}
  PROVE  LET first == Min({e.version : e \in Of(c)})
             n == calls[c].n
         IN /\ n \in Nat \ {0} /\ first \in Nat
            /\ Cardinality(Of(c)) = n
            /\ {e.version : e \in Of(c)} = first..(first + n - 1)
            /\ matches(calls[c].expected, first - 1)
<1> DEFINE V == {e.version : e \in Of(c)}
           n == calls[c].n
<1>1. calls[c] \in Request /\ n \in Nat
  BY DEF StoreInv, CallsInv, TypeOK, StoreConstants, Request
<1>2. PICK v \in V : /\ V = v..(v + n - 1)
                     /\ matches(calls[c].expected, v - 1)
                     /\ \A e \in Of(c) : e.stream = calls[c].stream
  BY DEF StoreInv, BatchesInv
<1>3. v \in Nat
  BY DEF StoreInv, TypeOK, Of, Event
<1>4. n # 0
  BY <1>1, <1>2, <1>3
<1>5. Min(V) = v
  <2>1. v \in V /\ \A y \in V : v <= y
    BY <1>1, <1>2, <1>3
  <2>2. ASSUME NEW x \in V, \A y \in V : x <= y PROVE x = v
    <3>1. x \in v..(v + n - 1) /\ x <= v
      BY <1>2, <2>2
    <3> QED
      BY <1>1, <1>3, <3>1
  <2> QED
    BY <2>1, <2>2 DEF Min
<1>6. v \in 1..stream_version(log, calls[c].stream)
  <2>1. PICK e \in Of(c) : e.version = v
    OBVIOUS
  <2>2. e \in InStream(log, calls[c].stream)
    BY <1>2, <2>1 DEF Of, InStream
  <2>3. calls[c].stream \in Streams
    BY <1>1 DEF Request
  <2> QED
    BY <2>1, <2>2, <2>3 DEF StoreInv, Numbered
<1>7. Cardinality(Of(c)) = n
  <2>1. v - 1 \in Nat /\ (v - 1) + 1 = v /\ (v - 1) + n = v + n - 1
    BY <1>1, <1>3, <1>6
  <2>2. V = ((v - 1) + 1)..((v - 1) + n)
    BY <1>2, <2>1
  <2>3. \A d, e \in Of(c) : d.version = e.version => d = e
    BY <1>2 DEF StoreInv, Numbered, Of
  <2> QED
    BY <1>1, <2>1, <2>2, <2>3, VersionCount
<1> QED
  BY <1>1, <1>2, <1>3, <1>4, <1>5, <1>7

\* An append is atomic, continues the version it expected, and its answer is
\* truthful.
THEOREM HonestAppends == ASSUME StoreConstants PROVE Spec => []AppendHonest
<1>1. StoreInv => AppendHonest
  <2> SUFFICES ASSUME StoreInv, NEW c \in Appends, result[c] # NONE \/ Of(c) # {}
               PROVE  LET q == calls[c]
                          first == Min({e.version : e \in Of(c)})
                      IN /\ Of(c) # {} =>
                              /\ Cardinality(Of(c)) = q.n
                              /\ {e.version : e \in Of(c)} = first..(first + q.n - 1)
                              /\ matches(q.expected, first - 1)
                         /\ result[c] # NONE =>
                              /\ result[c].kind = "ok" =>
                                   /\ Cardinality(Of(c)) = q.n
                                   /\ q.n > 0 => result[c].version = first + q.n - 1
                              /\ result[c].kind = "conflict" => Of(c) = {}
    BY DEF AppendHonest
  <2> DEFINE first == Min({e.version : e \in Of(c)})
             n == calls[c].n
  <2>1. calls[c] \in Request /\ n \in Nat
    BY DEF StoreInv, CallsInv, TypeOK, StoreConstants, Request
  <2>2. ASSUME Of(c) # {}
        PROVE  /\ Cardinality(Of(c)) = n
               /\ {e.version : e \in Of(c)} = first..(first + n - 1)
               /\ matches(calls[c].expected, first - 1) /\ first \in Nat
    BY <2>2, WholeBatch
  <2>3. ASSUME result[c] # NONE, result[c].kind = "ok"
        PROVE  Cardinality(Of(c)) = n /\ (n > 0 => result[c].version = first + n - 1)
    <3>1. CASE n = 0
      <4>1. Of(c) = {}
        BY <2>3, <3>1 DEF StoreInv, AnswersInv
      <4>2. Cardinality(Of(c)) = 0
        BY <4>1, FS_EmptySet
      <4> QED
        BY <3>1, <4>2
    <3>2. CASE n > 0
      <4> DEFINE v == result[c].version
      <4>1. v \in Nat
        BY <2>3 DEF StoreInv, TypeOK, Result
      <4>2. {e.version : e \in Of(c)} = (v - n + 1)..v
        BY <2>3, <3>2 DEF StoreInv, AnswersInv
      <4>3. v \in (v - n + 1)..v
        BY <2>1, <3>2, <4>1
      <4>4. Of(c) # {}
        BY <4>2, <4>3
      <4> HIDE DEF v, first
      <4>5. /\ (v - n + 1)..v = first..(first + n - 1)
            /\ Cardinality(Of(c)) = n /\ first \in Nat
        BY <2>2, <4>2, <4>4
      <4>6. v = first + n - 1
        <5>1. v \in first..(first + n - 1)
          BY <4>3, <4>5
        <5>2. first + n - 1 \in (v - n + 1)..v
          <6>1. first + n - 1 \in first..(first + n - 1)
            BY <2>1, <3>2, <4>5
          <6> QED
            BY <4>5, <6>1
        <5> QED
          BY <2>1, <4>1, <4>5, <5>1, <5>2
      <4> QED
        BY <4>5, <4>6 DEF v
    <3> QED
      BY <2>1, <3>1, <3>2
  <2>4. result[c] # NONE /\ result[c].kind = "conflict" => Of(c) = {}
    BY DEF StoreInv, AnswersInv
  <2> QED
    BY <2>2, <2>3, <2>4
<1> QED
  BY <1>1, StoreInvariant, PTL

\* A writer that waits waits for a writer that does not.
THEOREM NoStandstill == ASSUME StoreConstants PROVE Spec => []SomeoneProceeds
<1>1. StoreInv => SomeoneProceeds
  <2> SUFFICES ASSUME StoreInv, NEW w \in Writers, wpc[w] # "idle"
               PROVE  \E v \in Writers : wpc[v] # "idle" /\ ~Waits(v)
    BY DEF SomeoneProceeds
  <2>1. CASE lock = NONE
    BY <2>1 DEF Waits
  <2>2. CASE lock # NONE
    <3>1. lock \in Writers /\ Reading(lock)
      BY <2>2 DEF StoreInv, TypeOK, LockingInv
    <3> QED
      BY <3>1 DEF Waits, Reading
  <2> QED
    BY <2>1, <2>2
<1> QED
  BY <1>1, StoreInvariant, PTL

(***************************************************************************)
(* The refinement of EventLog.                                             *)
(***************************************************************************)

\* The abstract log of some rows, as EventsBar is that of the committed ones.
RowAt(rows, i) == CHOOSE e \in rows : e.position = i
Bar(rows) == [i \in 1..Cardinality(rows) |->
                [stream |-> RowAt(rows, i).stream, call |-> RowAt(rows, i).call]]

Entry == [stream : Streams, call : Appends]

LEMMA Concatenation ==
  ASSUME NEW S, NEW a \in Seq(S), NEW b \in Seq(S), NEW c \in Seq(S),
         Len(c) = Len(a) + Len(b),
         \A i \in 1..Len(a) : c[i] = a[i],
         \A i \in 1..Len(b) : c[Len(a) + i] = b[i]
  PROVE  c = a \o b
OBVIOUS

LEMMA BarOfRows ==
  ASSUME NEW rows, Numbered(rows)
  PROVE  /\ head_position(rows) \in Nat /\ Len(Bar(rows)) = head_position(rows)
         /\ Bar(rows) = [i \in 1..head_position(rows) |->
                           [stream |-> RowAt(rows, i).stream, call |-> RowAt(rows, i).call]]
         /\ \A i \in 1..head_position(rows) : RowAt(rows, i) \in rows
                                              /\ RowAt(rows, i).position = i
         /\ \A e \in rows : e.position \in 1..head_position(rows)
                            /\ RowAt(rows, e.position) = e
         /\ rows \subseteq Event => Bar(rows) \in Seq(Entry)
<1> DEFINE h == head_position(rows)
<1>1. h \in Nat /\ Cardinality(rows) = h
  BY NumberedCount, VersionTypes
<1>2. /\ {e.position : e \in rows} = 1..h
      /\ \A e, f \in rows : e.position = f.position => e = f
  BY DEF Numbered
<1> HIDE DEF h
<1>3. \A i \in 1..h : RowAt(rows, i) \in rows /\ RowAt(rows, i).position = i
  <2> TAKE i \in 1..h
  <2>1. \E e \in rows : e.position = i
    BY <1>2
  <2> QED
    BY <2>1 DEF RowAt
<1>4. \A e \in rows : e.position \in 1..h /\ RowAt(rows, e.position) = e
  BY <1>2, <1>3
<1>5. Bar(rows) = [i \in 1..h |->
                     [stream |-> RowAt(rows, i).stream, call |-> RowAt(rows, i).call]]
  BY <1>1 DEF Bar
<1>6. Len(Bar(rows)) = h
  BY <1>1, <1>5
<1>7. ASSUME rows \subseteq Event PROVE Bar(rows) \in Seq(Entry)
  <2>1. \A i \in 1..h : [stream |-> RowAt(rows, i).stream, call |-> RowAt(rows, i).call] \in Entry
    BY <1>3, <1>7 DEF Event, Entry
  <2> QED
    BY <1>1, <1>5, <2>1
<1> QED
  BY <1>1, <1>3, <1>4, <1>5, <1>6, <1>7 DEF h

LEMMA BarOfLog == EventsBar = Bar(log) /\ EventsBar' = Bar(log')
BY DEF EventsBar, EventAt, Bar, RowAt

\* The abstract version of a stream is its highest version.
LEMMA BarVersion ==
  ASSUME StoreInv, NEW s \in Streams
  PROVE  Abstract!Version(s) = stream_version(log, s)
<1> DEFINE h == head_position(log)
           v == stream_version(log, s)
           S == {i \in 1..h : RowAt(log, i).stream = s}
           f == [i \in S |-> RowAt(log, i).version]
<1>1. Numbered(log)
  BY DEF StoreInv
<1>2. /\ h \in Nat /\ v \in Nat
      /\ {e.version : e \in InStream(log, s)} = 1..v
      /\ \A d, e \in log : d.stream = e.stream /\ d.version = e.version => d = e
      /\ \A i \in 1..h : RowAt(log, i) \in log /\ RowAt(log, i).position = i
      /\ \A e \in log : e.position \in 1..h /\ RowAt(log, e.position) = e
  BY <1>1, BarOfRows DEF Numbered
<1>3. Abstract!Version(s) = Cardinality(S)
  <2>1. Len(Bar(log)) = h
    BY <1>1, BarOfRows
  <2>2. \A i \in 1..h : Bar(log)[i].stream = RowAt(log, i).stream
    BY <1>1, BarOfRows
  <2>3. {i \in 1..Len(EventsBar) : EventsBar[i].stream = s} = S
    BY <2>1, <2>2, BarOfLog
  <2> QED
    BY <2>3 DEF Abstract!Version, Abstract!Cardinality, Cardinality
<1> HIDE DEF h, v
<1>4. \A i \in S : f[i] \in (0 + 1)..(0 + v)
  <2> TAKE i \in S
  <2>1. RowAt(log, i) \in InStream(log, s)
    BY <1>2 DEF InStream
  <2> QED
    BY <1>2, <2>1
<1>5. \A k \in (0 + 1)..(0 + v) : \E i \in S : f[i] = k
  <2> TAKE k \in (0 + 1)..(0 + v)
  <2>1. PICK e \in InStream(log, s) : e.version = k
    BY <1>2
  <2>2. e \in log /\ e.stream = s
    BY DEF InStream
  <2>3. e.position \in S /\ f[e.position] = k
    BY <1>2, <2>1, <2>2
  <2> QED
    BY <2>3
<1>6. \A i, j \in S : f[i] = f[j] => i = j
  <2> TAKE i, j \in S
  <2> HAVE f[i] = f[j]
  <2>1. RowAt(log, i) = RowAt(log, j)
    BY <1>2
  <2> QED
    BY <1>2, <2>1
<1> HIDE DEF S, f
<1>7. Cardinality(S) = v
  <2>1. 0 \in Nat /\ v \in Nat
    BY <1>2
  <2> QED
    BY <1>4, <1>5, <1>6, <2>1, Counting
<1> QED
  BY <1>3, <1>7 DEF v

\* A snapshot's versions are no later than the log's.
LEMMA VersionsGrow ==
  ASSUME NEW rows, Numbered(rows), rows \subseteq log, Numbered(log), NEW s \in Streams
  PROVE  stream_version(rows, s) <= stream_version(log, s)
<1> DEFINE v == stream_version(rows, s)
           u == stream_version(log, s)
<1>1. /\ v \in Nat /\ u \in Nat
      /\ {e.version : e \in InStream(rows, s)} = 1..v
      /\ {e.version : e \in InStream(log, s)} = 1..u
  BY DEF Numbered
<1>2. InStream(rows, s) \subseteq InStream(log, s)
  BY DEF InStream
<1> HIDE DEF u, v
<1>3. \A k \in 1..v : k \in 1..u
  BY <1>1, <1>2
<1>4. v <= u
  BY <1>1, <1>3
<1> QED
  BY <1>4 DEF u, v

\* Statements that write and answer nothing are invisible.
LEMMA Invisible ==
  ASSUME UNCHANGED <<log, calls, result>>
  PROVE  UNCHANGED Abstract!vars
BY BarOfLog DEF Abstract!vars

\* A call is submitted.
LEMMA CallSubmits ==
  ASSUME StoreConstants, StoreInv, NEW w \in Writers, NEW s \in Streams,
         NEW n \in Sizes, NEW mode \in Modes,
         NEW x \in {AnyVersion, NoStream} \cup ({stream_version(log, s)} \ {0}),
         Call(w, s, x, n, mode)
  PROVE  Abstract!Next
<1> DEFINE req == [stream |-> s, expected |-> x, n |-> n, mode |-> mode]
           c == call'[w]
<1>1. /\ c \in Appends /\ calls[c] = NONE /\ req \in Request /\ req # NONE
      /\ calls' = [calls EXCEPT ![c] = req] /\ UNCHANGED <<log, result>>
  BY FreshCall
<1> HIDE DEF c, req
<1>2. calls \in [Appends -> Request \cup {NONE}]
  BY DEF StoreInv, TypeOK
<1>3. /\ calls' \in [Appends -> Request \cup {NONE}] /\ calls'[c] # NONE
      /\ \A d \in Appends \ {c} : calls'[d] = calls[d]
  BY <1>1, <1>2
<1>4. UNCHANGED <<EventsBar, result>>
  BY <1>1, BarOfLog
<1>5. Abstract!Submit(c)
  BY <1>1, <1>3, <1>4 DEF Abstract!Submit
<1> QED
  BY <1>1, <1>5 DEF Abstract!Next

\* A transaction that ends without writing answers its call.
LEMMA EndAnswers ==
  ASSUME StoreConstants, StoreInv, NEW w \in Writers, wpc[w] # "idle",
         NEW kind, NEW version, Return(w, kind, version),
         UNCHANGED <<log, calls>>,
         \/ kind = "store" /\ version = 0
         \/ /\ kind = "ok" /\ Req(w).n = 0
            /\ version \in 0..stream_version(log, Req(w).stream)
            /\ matches(Req(w).expected, version)
         \/ /\ kind = "conflict"
            /\ version \in 0..stream_version(log, Req(w).stream)
            /\ ~matches(Req(w).expected, version)
            /\ ~matches(Req(w).expected, stream_version(log, Req(w).stream))
  PROVE  Abstract!Next
<1> DEFINE c == call[w]
           q == Req(w)
<1>1. /\ c \in Appends /\ calls[c] # NONE /\ result[c] = NONE
      /\ q = calls[c] /\ q.stream \in Streams
  BY AtHand DEF StoreInv, CallsInv
<1>2. Abstract!Version(q.stream) = stream_version(log, q.stream)
  BY <1>1, BarVersion
<1>3. /\ result' = [result EXCEPT ![c] = [kind |-> kind, version |-> version]]
      /\ UNCHANGED <<EventsBar, calls>>
  BY BarOfLog DEF Return
<1>4. Abstract!Open(c)
  BY <1>1 DEF Abstract!Open
<1> HIDE DEF c, q
<1>5. CASE kind = "store" /\ version = 0
  <2>1. Abstract!Fail(c)
    BY <1>3, <1>4, <1>5 DEF Abstract!Fail
  <2> QED
    BY <1>1, <2>1 DEF Abstract!Next
<1>6. CASE /\ kind = "ok" /\ q.n = 0
           /\ version \in 0..stream_version(log, q.stream)
           /\ matches(q.expected, version)
  <2>1. Abstract!Check(c)
    BY <1>1, <1>2, <1>3, <1>4, <1>6 DEF Abstract!Check, Accepts
  <2> QED
    BY <1>1, <2>1 DEF Abstract!Next
<1>7. CASE /\ kind = "conflict"
           /\ version \in 0..stream_version(log, q.stream)
           /\ ~matches(q.expected, version)
           /\ ~matches(q.expected, stream_version(log, q.stream))
  <2>1. Abstract!Refuse(c)
    BY <1>1, <1>2, <1>3, <1>4, <1>7 DEF Abstract!Refuse, Accepts
  <2> QED
    BY <1>1, <2>1 DEF Abstract!Next
<1> QED
  BY <1>5, <1>6, <1>7 DEF q

\* A conflict seen in a snapshot, however stale, is a conflict with the log:
\* the version the caller named was in the snapshot.
LEMMA StaleConflict ==
  ASSUME StoreConstants, StoreInv, NEW w \in Writers, wpc[w] = "version",
         ~matches(Req(w).expected, stream_version(Reads(w), Req(w).stream))
  PROVE  ~matches(Req(w).expected, stream_version(log, Req(w).stream))
<1> DEFINE q == Req(w)
           u == stream_version(Reads(w), q.stream)
           v == stream_version(log, q.stream)
<1>1. /\ q \in Request /\ q.stream \in Streams /\ Mode(w) \in Modes
      /\ Reads(w) \subseteq log /\ Numbered(Reads(w)) /\ Numbered(log)
  BY AtHand, InSight DEF StoreInv
<1>2. u \in Nat /\ v \in Nat /\ u <= v
  BY <1>1, VersionTypes, VersionsGrow
<1>3. q.expected \in {AnyVersion, NoStream} \cup Nat
  BY <1>1 DEF Request, Expected
<1>4. CASE Mode(w) = "append"
  <2>1. Reads(w) = log
    BY <1>4 DEF Reads, Visible, Mode, StoreInv, TypeOK
  <2> QED
    BY <2>1
<1>5. CASE Mode(w) # "append"
  <2>1. Reads(w) = snap[w]
    BY <1>5 DEF Reads, Visible, Mode
  <2>2. q.expected \in Nat => q.expected <= u
    BY <1>5, <2>1 DEF StoreInv, ExpectedInv
  <2>3. ~matches(q.expected, u)
    OBVIOUS
  <2> HIDE DEF q, u, v
  <2>4. ~matches(q.expected, v)
    BY <1>2, <1>3, <2>2, <2>3 DEF matches, AnyVersion, NoStream
  <2> QED
    BY <2>4 DEF q, v
<1> QED
  BY <1>4, <1>5

LEMMA ReadVersionAnswers ==
  ASSUME StoreConstants, StoreInv, NEW w \in Writers, ReadVersion(w)
  PROVE  Abstract!Next \/ UNCHANGED Abstract!vars
<1> DEFINE u == stream_version(Reads(w), Req(w).stream)
           v == stream_version(log, Req(w).stream)
<1>1. wpc[w] = "version" /\ UNCHANGED <<log, calls>>
  BY DEF ReadVersion
<1>2. Req(w).stream \in Streams /\ Numbered(Reads(w)) /\ Reads(w) \subseteq log /\ Numbered(log)
  BY <1>1, AtHand, InSight DEF StoreInv
<1>3. u \in Nat /\ v \in Nat /\ u <= v
  BY <1>2, VersionTypes, VersionsGrow
<1>4. u \in 0..v
  BY <1>3
<1>5. CASE matches(Req(w).expected, u) /\ Req(w).n = 0 /\ Return(w, "ok", u)
  BY <1>1, <1>4, <1>5, EndAnswers
<1>6. CASE ~matches(Req(w).expected, u) /\ Return(w, "conflict", u)
  BY <1>1, <1>4, <1>6, EndAnswers, StaleConflict
<1>7. CASE UNCHANGED result
  BY <1>1, <1>7, Invisible
<1> QED
  BY <1>5, <1>6, <1>7 DEF ReadVersion

\* The COMMIT is where an append takes effect.
LEMMA CommitExtends ==
  ASSUME StoreConstants, StoreInv, NEW w \in Writers, wpc[w] = "commit",
         NEW kind, NEW version, Return(w, kind, version),
         \/ kind = "ok" /\ version = cur[w] + Req(w).n
         \/ kind = "store" /\ version = 0,
         log' = log \cup Rows(w), UNCHANGED calls
  PROVE  Abstract!Next
<1> DEFINE c == call[w]
           q == Req(w)
           n == Req(w).n
           h == head_position(log)
           new == [i \in 1..n |-> [stream |-> q.stream, call |-> c]]
<1>1. /\ c \in Appends /\ q = calls[c] /\ q.stream \in Streams /\ n \in Nat \ {0}
      /\ matches(q.expected, cur[w]) /\ cur[w] = stream_version(log, q.stream)
  BY AboutToCommit
<1>2. calls[c] # NONE /\ result[c] = NONE /\ Numbered(log)
  BY DEF StoreInv, CallsInv
<1>3. Abstract!Version(q.stream) = cur[w]
  BY <1>1, BarVersion
<1>4. /\ Rows(w) \subseteq Event /\ \A e \in Rows(w) : e.call = c
      /\ Continues(Rows(w), h, q.stream, stream_version(log, q.stream), n)
  BY CommitRows
<1> DEFINE all == log \cup Rows(w)
<1>5. Numbered(all) /\ head_position(all) = head_position(log) + n
  BY CommitNumbers
<1> HIDE DEF c, q, n
<1>6. EventsBar' = EventsBar \o new
  <2> HIDE DEF all
  <2>1. /\ h \in Nat /\ Len(Bar(log)) = h
        /\ Bar(log) = [i \in 1..h |-> [stream |-> RowAt(log, i).stream,
                                       call |-> RowAt(log, i).call]]
        /\ \A i \in 1..h : RowAt(log, i) \in log /\ RowAt(log, i).position = i
    BY <1>2, BarOfRows
  <2>2. /\ Len(Bar(all)) = h + n
        /\ Bar(all) = [i \in 1..(h + n) |-> [stream |-> RowAt(all, i).stream,
                                              call |-> RowAt(all, i).call]]
        /\ \A e \in all : RowAt(all, e.position) = e
    BY <1>5, BarOfRows DEF h
  <2>3. Len(new) = n
    BY <1>1
  <2>4. /\ {e.position : e \in Rows(w)} = (h + 1)..(h + n)
        /\ \A e \in Rows(w) : e.stream = q.stream
    BY <1>4 DEF Continues
  <2>5. ASSUME NEW i \in 1..h PROVE RowAt(all, i) = RowAt(log, i)
    BY <2>1, <2>2 DEF all
  <2>6. ASSUME NEW i \in (h + 1)..(h + n)
        PROVE  RowAt(all, i).stream = q.stream /\ RowAt(all, i).call = c
    <3>1. PICK e \in Rows(w) : e.position = i
      BY <2>4
    <3>2. RowAt(all, i) = e
      BY <2>2, <3>1 DEF all
    <3> QED
      BY <1>4, <2>4, <3>2
  <2>7. \A i \in 1..(h + n) :
          Bar(all)[i] = IF i <= h THEN Bar(log)[i] ELSE new[i - h]
    <3> TAKE i \in 1..(h + n)
    <3>1. CASE i <= h
      <4>1. i \in 1..h
        BY <3>1, <2>1
      <4>2. Bar(all)[i] = Bar(log)[i]
        BY <2>1, <2>2, <2>5, <4>1
      <4> QED
        BY <3>1, <4>2
    <3>2. CASE ~(i <= h)
      <4>1. i \in (h + 1)..(h + n) /\ i - h \in 1..n
        BY <1>1, <2>1, <3>2
      <4>2. Bar(all)[i] = new[i - h]
        BY <2>2, <2>6, <4>1
      <4> QED
        BY <3>2, <4>2
    <3> QED
      BY <3>1, <3>2
  <2>8. Bar(all) = Bar(log) \o new
    <3>1. Bar(all) \in Seq(Entry) /\ Bar(log) \in Seq(Entry)
      BY <1>2, <1>4, <1>5, BarOfRows DEF StoreInv, TypeOK, all
    <3>2. new \in Seq(Entry)
      <4>1. [stream |-> q.stream, call |-> c] \in Entry
        BY <1>1 DEF Entry
      <4> QED
        BY <1>1, <4>1
    <3>3. \A i \in 1..h : Bar(all)[i] = Bar(log)[i]
      BY <1>1, <2>1, <2>7
    <3>4. \A i \in 1..n : Bar(all)[h + i] = new[i]
      <4> TAKE i \in 1..n
      <4>1. h + i \in 1..(h + n) /\ ~(h + i <= h) /\ (h + i) - h = i
        BY <1>1, <2>1
      <4> HIDE DEF new
      <4> QED
        BY <2>7, <4>1
    <3>5. Len(Bar(all)) = Len(Bar(log)) + Len(new) /\ Len(Bar(log)) = h /\ Len(new) = n
      BY <2>1, <2>2, <2>3
    <3> HIDE DEF new, h
    <3> QED
      BY <3>1, <3>2, <3>3, <3>4, <3>5, Concatenation
  <2> QED
    BY <2>8, BarOfLog DEF all
<1>7. result' = [result EXCEPT ![c] = [kind |-> kind, version |-> version]]
  BY DEF Return, c
<1>8. Abstract!Open(c)
  BY <1>1, <1>2 DEF Abstract!Open, c
<1>9. Abstract!Extend(c)
  <2>1. calls[c].n = n /\ n > 0 /\ calls[c] = q /\ q.n = n
    BY <1>1 DEF n, q, c
  <2>2. \/ version = Abstract!Version(q.stream) + q.n /\ kind = "ok"
        \/ kind = "store" /\ version = 0
    BY <1>3, <2>1 DEF n
  <2> QED
    BY <1>1, <1>3, <1>6, <1>7, <1>8, <2>1, <2>2 DEF Abstract!Extend, Accepts
<1> QED
  BY <1>1, <1>9 DEF Abstract!Next, c

\* Every step of the store is a step of the log or invisible in it.
LEMMA StoreStepRefines ==
  ASSUME StoreConstants, StoreInv, [Next]_vars
  PROVE  [Abstract!Next]_(Abstract!vars)
<1>1. CASE UNCHANGED vars
  BY <1>1, Invisible DEF vars
<1>2. ASSUME NEW w \in Writers, NEW s \in Streams, NEW n \in Sizes, NEW m \in Modes,
             NEW x \in {AnyVersion, NoStream} \cup ({stream_version(log, s)} \ {0}),
             Call(w, s, x, n, m)
      PROVE  Abstract!Next
  BY <1>2, CallSubmits
<1>3. ASSUME NEW w \in Writers, Begin(w) \/ Lock(w) \/ ReadHead(w)
      PROVE  UNCHANGED Abstract!vars
  BY <1>3, Invisible DEF Begin, Lock, ReadHead
<1>4. ASSUME NEW w \in Writers, Insert(w)
      PROVE  Abstract!Next \/ UNCHANGED Abstract!vars
  <2>1. wpc[w] # "idle" /\ UNCHANGED <<log, calls>>
    BY <1>4 DEF Insert
  <2>2. CASE Return(w, "store", 0)
    BY <2>1, <2>2, EndAnswers
  <2>3. CASE UNCHANGED result
    BY <2>1, <2>3, Invisible
  <2> QED
    BY <1>4, <2>2, <2>3 DEF Insert, RaceLost
<1>5. ASSUME NEW w \in Writers, Rollback(w) PROVE Abstract!Next
  BY <1>5, EndAnswers DEF Rollback
<1>6. ASSUME NEW w \in Writers, Commit(w) \/ CommitUnheard(w) PROVE Abstract!Next
  <2>1. CASE Commit(w)
    BY <2>1, CommitExtends DEF Commit
  <2>2. CASE CommitUnheard(w)
    BY <2>2, CommitExtends DEF CommitUnheard
  <2> QED
    BY <1>6, <2>1, <2>2
<1> QED
  BY <1>1, <1>2, <1>3, <1>4, <1>5, <1>6, ReadVersionAnswers DEF Next, Statement

LEMMA InitLog == Init => Abstract!Init
<1> SUFFICES ASSUME Init PROVE Abstract!Init
  OBVIOUS
<1>1. Cardinality({}) = 0
  BY FS_EmptySet
<1>2. EventsBar = <<>>
  BY <1>1 DEF Init, EventsBar
<1> QED
  BY <1>2 DEF Init, Abstract!Init

\* The statement-level store implements the log: an append takes effect at one
\* moment, its COMMIT, or not at all, and its answer is true of that moment.
THEOREM Refinement == ASSUME StoreConstants PROVE Spec => RefinesEventLog
<1>1. Init => Abstract!Init
  BY InitLog
<1>2. StoreInv /\ [Next]_vars => [Abstract!Next]_(Abstract!vars)
  BY StoreStepRefines
<1> QED
  BY <1>1, <1>2, StoreInvariant, PTL DEF Spec, RefinesEventLog, Abstract!Spec

=============================================================================
