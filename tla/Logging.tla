-------------------------------- MODULE Logging --------------------------------
(***************************************************************************)
(* Structured logging of crates/sutegi-log, and the access log of sutegi-web *)
(* that tags the lines of a request.                                       *)
(***************************************************************************)
EXTENDS Integers, Sequences, FiniteSets, SequencesExt

(***************************************************************************)
(* sutegi-log: the process-wide configuration, counters and ring of recent *)
(* records, the thread-local context and captures, and emit.               *)
(*                                                                         *)
(* Of emit, the reading of the configuration (two locks when it is not set *)
(* yet) and the two updates of shared state are steps of their own; the    *)
(* thread-local parts take place with the step before them.  A target is a *)
(* sequence of characters with "." between its segments; levels are        *)
(* numbers.                                                                *)
(***************************************************************************)


CONSTANTS
    Threads,
    Targets,      \* targets records are emitted for
    Configs,      \* what set_config may be given, [level, targets]
    EnvConfig,    \* what Config::from_env returns
    Unset,        \* no configuration yet
    FieldSets,    \* fields of a scope or a record: sequences of [key, val]
    SecretKeys,   \* keys is_secret accepts
    Redacted,     \* "[redacted]"
    MaxContext,   \* MAX_CONTEXT_FIELDS
    Capacity,     \* RECENT_CAPACITY
    MaxEmits,     \* bound: records emitted
    MaxLocal      \* bound: scopes, annotations and captures

VARIABLES
    config,       \* CONFIG
    counts,       \* COUNTS, added up
    recent,       \* RECENT
    pc,           \* [Threads -> "idle", "insert", "count" or "remember"]
    record,       \* [Threads -> the record being emitted]
    context,      \* [Threads -> CONTEXT]
    scopes,       \* [Threads -> the lengths held by the open scopes]
    captures,     \* [Threads -> CAPTURE and the outer ones below it]
    chosen,       \* history: the last configuration given to set_config
    frames,       \* history: [Threads -> the fields of each open scope]
    passed,       \* history: the records remembered, in order
    emits, locals

tvars == <<context, scopes, captures, frames>>
gvars == <<config, counts, recent, chosen, passed>>
vars == <<config, counts, recent, pc, record, context, scopes, captures, chosen, frames, passed, emits, locals>>

(***************************************************************************)
(* Filters.                                                                *)
(***************************************************************************)

\* target == t, or t followed by a "."
Matches(t, target) == target = t \/ (IsPrefix(t, target) /\ target[Len(t) + 1] = ".")

\* The longest matching target decides, the level of the filter otherwise.
min_level(c, target) ==
    LET hits == {e \in c.targets : Matches(e.target, target)}
    IN  IF hits = {} THEN c.level
        ELSE (CHOOSE e \in hits : \A f \in hits : Len(f.target) <= Len(e.target)).level

(***************************************************************************)
(* Fields.                                                                 *)
(***************************************************************************)
Value(f) == IF f.key \in SecretKeys THEN [f EXCEPT !.val = Redacted] ELSE f

push_unique(out, f) ==
    IF \E i \in DOMAIN out : out[i].key = f.key THEN out ELSE Append(out, Value(f))

merged_fields(fields, ctx) == FoldLeft(push_unique, <<>>, fields \o Reverse(ctx))

push_context(ctx, f) == IF Len(ctx) < MaxContext THEN Append(ctx, f) ELSE ctx
Pushed(ctx, fields) == FoldLeft(push_context, ctx, fields)

Busy == locals < MaxLocal /\ locals' = locals + 1

Total(fs) == FoldLeft(LAMBDA n, f : n + Len(f), 0, fs)
Room(t, n) == IF MaxContext - Total(frames[t]) < n THEN MaxContext - Total(frames[t]) ELSE n

scope(t) ==
    /\ pc[t] = "idle" /\ Busy
    /\ \E fields \in FieldSets :
         /\ scopes' = [scopes EXCEPT ![t] = Append(@, [len |-> Len(context[t]), n |-> Len(fields)])]
         /\ context' = [context EXCEPT ![t] = Pushed(@, fields)]
         /\ frames' = [frames EXCEPT ![t] = Append(@, SubSeq(fields, 1, Room(t, Len(fields))))]
    /\ UNCHANGED <<gvars, pc, record, captures, emits>>

\* Scope::drop truncates to the length at its opening.
Truncated(ctx, sc) == SubSeq(ctx, 1, sc.len)

DropScope(t) ==
    /\ pc[t] = "idle" /\ scopes[t] # <<>>
    /\ context' = [context EXCEPT ![t] = Truncated(@, Last(scopes[t]))]
    /\ scopes' = [scopes EXCEPT ![t] = Front(@)]
    /\ frames' = [frames EXCEPT ![t] = Front(@)]
    /\ UNCHANGED <<gvars, pc, record, captures, emits, locals>>

annotate(t) ==
    /\ pc[t] = "idle" /\ Busy
    /\ \E fields \in FieldSets : \E i \in DOMAIN fields :
         /\ context' = [context EXCEPT ![t] = push_context(@, fields[i])]
         /\ frames' = IF Room(t, 1) = 0 THEN frames
                      ELSE [frames EXCEPT ![t][Len(frames[t])] = Append(@, fields[i])]
    /\ UNCHANGED <<gvars, pc, record, scopes, captures, emits>>

(***************************************************************************)
(* Captures: the closure's records go to the innermost one, and are handed *)
(* back when it returns.                                                   *)
(***************************************************************************)
CaptureBegins(t) ==
    /\ pc[t] = "idle" /\ Busy
    /\ captures' = [captures EXCEPT ![t] = Append(@, <<>>)]
    /\ UNCHANGED <<gvars, pc, record, context, scopes, frames, emits>>

\* The outer capture, if any, takes over again.
Outer(stack) == Front(stack)

CaptureReturns(t) ==
    /\ pc[t] = "idle" /\ captures[t] # <<>>
    /\ captures' = [captures EXCEPT ![t] = Outer(@)]
    /\ UNCHANGED <<gvars, pc, record, context, scopes, frames, emits, locals>>

(***************************************************************************)
(* Configuration and emit.                                                 *)
(***************************************************************************)
set_config(t) ==
    /\ pc[t] = "idle"
    /\ \E c \in Configs : c # config /\ config' = c /\ chosen' = c
    /\ Busy
    /\ UNCHANGED <<counts, recent, passed, pc, record, tvars, emits>>

Draft(t, level, target, fields) ==
    [thread |-> t, level |-> level, target |-> target, fields |-> fields, own |-> fields, by |-> Unset]

Blank == Draft(Unset, 0, <<>>, <<>>)

\* What becomes of a record once the configuration is known.
Decide(t, c, r) ==
    LET on == r.level >= min_level(c, r.target)
        full == [r EXCEPT !.fields = merged_fields(r.fields, context[t]), !.by = c]
        goes == on /\ captures[t] = <<>>
    IN  /\ record' = [record EXCEPT ![t] = IF goes THEN full ELSE Blank]
        /\ captures' = IF captures[t] = <<>> THEN captures
                       ELSE [captures EXCEPT ![t][Len(captures[t])] = Append(@, full)]
        /\ pc' = [pc EXCEPT ![t] = IF goes THEN "count" ELSE "idle"]

emit(t) ==
    /\ pc[t] = "idle" /\ emits < MaxEmits
    /\ \E level \in 0..1, target \in Targets, fields \in FieldSets :
         LET r == Draft(t, level, target, fields) IN
         IF config # Unset THEN Decide(t, config, r)
         ELSE /\ pc' = [pc EXCEPT ![t] = "insert"]
              /\ record' = [record EXCEPT ![t] = r]
              /\ UNCHANGED captures
    /\ emits' = emits + 1
    /\ UNCHANGED <<gvars, context, scopes, frames, locals>>

\* get_or_insert_with, under the write lock: another thread may have set it.
GetOrInsert(c) == IF c = Unset THEN EnvConfig ELSE c

Insert(t) ==
    /\ pc[t] = "insert"
    /\ config' = GetOrInsert(config)
    /\ Decide(t, config', record[t])
    /\ UNCHANGED <<counts, recent, chosen, passed, context, scopes, frames, emits, locals>>

Count(t) ==
    /\ pc[t] = "count"
    /\ counts' = counts + 1
    /\ pc' = [pc EXCEPT ![t] = "remember"]
    /\ UNCHANGED <<config, recent, chosen, passed, record, tvars, emits, locals>>

\* The oldest makes room.
Trimmed(ring) == IF Len(ring) >= Capacity THEN Tail(ring) ELSE ring

remember(t) ==
    /\ pc[t] = "remember"
    /\ recent' = Append(Trimmed(recent), record[t])
    /\ passed' = Append(passed, record[t])
    /\ pc' = [pc EXCEPT ![t] = "idle"]
    /\ record' = [record EXCEPT ![t] = Blank]
    /\ UNCHANGED <<config, counts, chosen, tvars, emits, locals>>

Init ==
    /\ config = Unset /\ chosen = Unset
    /\ counts = 0 /\ recent = <<>> /\ passed = <<>>
    /\ pc = [t \in Threads |-> "idle"]
    /\ record = [t \in Threads |-> Blank]
    /\ context = [t \in Threads |-> <<>>]
    /\ scopes = [t \in Threads |-> <<>>]
    /\ captures = [t \in Threads |-> <<>>]
    /\ frames = [t \in Threads |-> << <<>> >>]
    /\ emits = 0 /\ locals = 0

Next == \E t \in Threads :
    \/ scope(t) \/ DropScope(t) \/ annotate(t)
    \/ CaptureBegins(t) \/ CaptureReturns(t)
    \/ set_config(t) \/ emit(t) \/ Insert(t) \/ Count(t) \/ remember(t)

Spec == Init /\ [][Next]_vars

-----------------------------------------------------------------------------
TypeOK ==
    /\ config \in Configs \cup {EnvConfig, Unset}
    /\ pc \in [Threads -> {"idle", "insert", "count", "remember"}]
    /\ \A t \in Threads : Len(context[t]) <= MaxContext
    /\ emits \in 0..MaxEmits /\ locals \in 0..MaxLocal

(***************************************************************************)
(* A configuration given to set_config stays until the next one: the lazy  *)
(* default of a thread that was already emitting never replaces it.        *)
(***************************************************************************)
ConfigSticks == chosen # Unset => config = chosen

\* Innermost wins: the record's own fields, then the open scopes from inside.
Expected(own, fs) ==
    LET all == own \o Reverse(FlattenSeq(fs))
        keys == {all[i].key : i \in DOMAIN all}
        FirstOf(k) == all[CHOOSE i \in DOMAIN all : all[i].key = k /\ \A j \in 1..(i - 1) : all[j].key # k]
    IN  {Value(FirstOf(k)) : k \in keys}

(***************************************************************************)
(* The record a thread is emitting carries its own fields and those of the *)
(* scopes that are open, each key once with its innermost value and        *)
(* secrets redacted; what a closed scope added, or was annotated inside    *)
(* it, is gone, also when the context was full.                            *)
(***************************************************************************)
CarriesOpenScopes ==
    \A t \in Threads : pc[t] \in {"count", "remember"} =>
        LET got == record[t].fields IN
        /\ {got[i] : i \in DOMAIN got} = Expected(record[t].own, frames[t])
        /\ \A i, j \in DOMAIN got : got[i].key = got[j].key => i = j

Segments(target) == {n \in 1..Len(target) : n = Len(target) \/ target[n + 1] = "."}

(***************************************************************************)
(* A record that is let out has the level its nearest ancestor in the      *)
(* filter asks for, segment by segment.                                    *)
(***************************************************************************)
LeftOutByNearest ==
    \A t \in Threads : pc[t] \in {"count", "remember"} =>
        LET r == record[t]
            near == {n \in Segments(r.target) : \E e \in r.by.targets : e.target = SubSeq(r.target, 1, n)}
            best == CHOOSE n \in near : \A m \in near : m <= n
        IN  IF near = {} THEN r.level >= r.by.level
            ELSE \E e \in r.by.targets : e.target = SubSeq(r.target, 1, best) /\ r.level >= e.level

(***************************************************************************)
(* The ring holds the last records remembered, in order, and every record  *)
(* counted is there or about to be; what was emitted inside a capture is   *)
(* in neither.                                                             *)
(***************************************************************************)
RecentIsTail ==
    LET n == IF Len(passed) < Capacity THEN Len(passed) ELSE Capacity IN
    /\ recent = SubSeq(passed, Len(passed) - n + 1, Len(passed))
    /\ counts = Len(passed) + Cardinality({t \in Threads : pc[t] = "remember"})

(***************************************************************************)
(* A capture that returns leaves the outer one as it was: its records are  *)
(* its own, and the outer one goes on taking the thread's records.         *)
(***************************************************************************)
CapturesNest ==
    [][\A t \in Threads :
         /\ Len(captures'[t]) < Len(captures[t]) => captures'[t] = Front(captures[t])
         /\ Len(captures'[t]) = Len(captures[t]) /\ captures[t] # <<>> => Front(captures'[t]) = Front(captures[t])]_vars

(***************************************************************************)
(* The access log of crates/sutegi-web (src/access.rs) around the service  *)
(* of the application: worker threads take requests, each under a request  *)
(* id that a logging scope adds to every line of the request, and /__logs  *)
(* answers which of the remembered lines belong to an id.                  *)
(*                                                                         *)
(* An id is a caller's word or a number of the process's counter.  A line  *)
(* is its level, its id and the request that really wrote it.  Levels are  *)
(* 0 debug, 1 info, 3 error.                                               *)
(***************************************************************************)


CONSTANTS
  Workers,       \* worker threads
  Inbound,       \* x-request-id values of callers
  Safe,          \* those made of at most 64 letters, digits, '-', '_' and '.'
  TrustIds,      \* AccessLog::trust_request_id
  MinLevel,      \* the configured level of the target
  AccessCapacity,      \* RECENT_CAPACITY
  AccessMaxContext,    \* MAX_CONTEXT_FIELDS
  MaxRequests,   \* bound: requests
  MaxLines,      \* bound: lines written by handlers, notes included
  NONE

VARIABLES
  seq,       \* SEQ, the counter of new_request_id
  requests,  \* requests taken so far
  ids,       \* the id each request was given
  now,       \* the request and the scope of each worker
  accessContext,   \* CONTEXT of each worker: ids and notes ("note")
  accessRecent,    \* RECENT
  written,   \* every line ever remembered
  lines      \* lines and notes of handlers so far

accessVars == <<seq, requests, ids, now, accessContext, accessRecent, written, lines>>

Word(w) == [word |-> w, n |-> 0]
Counted(n) == [word |-> NONE, n |-> n]
Nothing == Word(NONE)

Idle == [req |-> 0, len |-> 0, quiet |-> FALSE]

AccessInit ==
  /\ seq = 0 /\ requests = 0 /\ ids = <<>>
  /\ now = [w \in Workers |-> Idle] /\ accessContext = [w \in Workers |-> <<>>]
  /\ accessRecent = <<>> /\ written = <<>> /\ lines = 0

inbound_request_id(header) == IF header \in Safe THEN Word(header) ELSE Nothing

\* scope, push_context: beyond the limit nothing is added.
AccessPushed(ctx, f) == IF Len(ctx) < AccessMaxContext THEN Append(ctx, f) ELSE ctx

\* begin, with the header the request came with.
begin(w, header, quiet) ==
  LET given == IF TrustIds THEN inbound_request_id(header) ELSE Nothing
      rid == IF given # Nothing THEN given ELSE Counted(seq)
  IN /\ now[w] = Idle /\ requests < MaxRequests
     /\ requests' = requests + 1
     /\ ids' = Append(ids, rid)
     /\ seq' = IF given # Nothing THEN seq ELSE seq + 1
     /\ now' = [now EXCEPT ![w] = [req |-> requests + 1, len |-> Len(accessContext[w]), quiet |-> quiet]]
     /\ accessContext' = [accessContext EXCEPT ![w] = AccessPushed(@, rid)]
     /\ UNCHANGED <<accessRecent, written, lines>>

\* The field rid of a line: the innermost id of the context (merged_fields).
RidOf(ctx) ==
  LET own == SelectSeq(ctx, LAMBDA f : f # Word("note")) IN IF own = <<>> THEN Nothing ELSE Last(own)

\* emit, remember: a line at or above the level goes into the ring.
Remembered(w, level) ==
  IF level < MinLevel THEN UNCHANGED <<accessRecent, written>>
  ELSE LET line == [level |-> level, rid |-> RidOf(accessContext[w]), by |-> now[w].req] IN
       /\ accessRecent' = Append(IF Len(accessRecent) >= AccessCapacity THEN Tail(accessRecent) ELSE accessRecent, line)
       /\ written' = Append(written, line)

\* A handler logs a line, or adds a note to the context (annotate).
HandlerLogs(w) ==
  /\ now[w] # Idle /\ lines < MaxLines
  /\ lines' = lines + 1
  /\ \E level \in {0, 1} : Remembered(w, level)
  /\ UNCHANGED <<seq, requests, ids, now, accessContext>>

HandlerNotes(w) ==
  /\ now[w] # Idle /\ lines < MaxLines
  /\ lines' = lines + 1
  /\ accessContext' = [accessContext EXCEPT ![w] = AccessPushed(@, Word("note"))]
  /\ UNCHANGED <<seq, requests, ids, now, accessRecent, written>>

\* Scope::drop.
Dropped(w) ==
  /\ accessContext' = [accessContext EXCEPT ![w] = SubSeq(@, 1, now[w].len)]
  /\ now' = [now EXCEPT ![w] = Idle]

\* finish: one line about the request, the header, the end of the scope.
finish(w, status) ==
  /\ now[w] # Idle
  /\ Remembered(w, IF status >= 500 THEN 3 ELSE IF status < 400 /\ now[w].quiet THEN 0 ELSE 1)
  /\ Dropped(w)
  /\ UNCHANGED <<seq, requests, ids, lines>>

\* A handler panics: the service unwinds past finish, dropping the scope.
Unwind(w) ==
  /\ now[w] # Idle
  /\ Dropped(w)
  /\ UNCHANGED <<seq, requests, ids, accessRecent, written, lines>>

matches_filter(line, rid) == line.rid = rid

\* recent_logs: from the newest back, those that match, at most limit of them,
\* and the oldest of those first.
recent_logs(ring, rid, min, limit) ==
  LET hits == SelectSeq(Reverse(ring), LAMBDA l : l.level >= min /\ matches_filter(l, rid))
  IN Reverse(SubSeq(hits, 1, IF Len(hits) < limit THEN Len(hits) ELSE limit))

AccessNext ==
  \E w \in Workers :
       \/ \E h \in Inbound \cup {NONE}, quiet \in BOOLEAN : begin(w, h, quiet)
       \/ HandlerLogs(w) \/ HandlerNotes(w) \/ Unwind(w)
       \/ \E status \in {200, 404, 500} : finish(w, status)

AccessSpec == AccessInit /\ [][AccessNext]_accessVars

(***************************************************************************)
(* Properties.                                                             *)
(***************************************************************************)

\* Every line carries the id of the request that wrote it, however many
\* handlers of the same worker have panicked or left notes before, and ids of
\* the counter are never given twice (begin, finish, new_request_id).
TaggedByTheirRequest ==
  /\ \A i \in DOMAIN written : written[i].rid = ids[written[i].by]
  /\ \A i, j \in DOMAIN ids : (ids[i] = ids[j] /\ ids[i].word = NONE) => i = j

\* What /__logs answers for an id are the lines of the requests with that id, in
\* the order they were written: it leaves one out only when the ring has lost
\* it or when limit newer ones are shown (recent_logs, remember).
LogsFindTheRequest ==
  LET kept == SubSeq(written, IF Len(written) > AccessCapacity THEN Len(written) - AccessCapacity + 1 ELSE 1, Len(written))
      Mine(id, min, from) == {i \in from..Len(kept) : ids[kept[i].by] = id /\ kept[i].level >= min}
      Shown(id, min, limit) == {i \in Mine(id, min, 1) : Cardinality(Mine(id, min, i)) <= limit}
  IN \A r \in DOMAIN ids, min \in {0, 3}, limit \in {1, 2} :
       LET shown == SetToSortSeq(Shown(ids[r], min, limit), <)
       IN recent_logs(accessRecent, ids[r], min, limit) = [i \in DOMAIN shown |-> kept[shown[i]]]

=============================================================================
