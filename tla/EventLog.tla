------------------------------ MODULE EventLog ------------------------------
(***************************************************************************)
(* What crates/sutegi-events promises of an append: the log is one         *)
(* sequence, a call extends it with its whole batch at one moment, at      *)
(* which its expectation holds, and the answer is truthful.                *)
(***************************************************************************)
EXTENDS Integers, Sequences, FiniteSets

CONSTANTS Calls, Requests, NONE,
          Matches(_, _)   \* whether a request accepts a stream version

VARIABLES
  events,     \* the log: stream and call of each event, by position
  requests,   \* the request of each call
  answer      \* the answer to each call

vars == <<events, requests, answer>>

Version(s) == Cardinality({i \in 1..Len(events) : events[i].stream = s})

Submit(c) ==
  /\ requests[c] = NONE
  /\ requests' \in [Calls -> Requests \cup {NONE}]
  /\ requests'[c] # NONE
  /\ \A d \in Calls \ {c} : requests'[d] = requests[d]
  /\ UNCHANGED <<events, answer>>

Open(c) == requests[c] # NONE /\ answer[c] = NONE

\* The batch goes in; the answer is its last version, or lost.
Extend(c) ==
  /\ Open(c) /\ requests[c].n > 0
  /\ LET q == requests[c]
     IN /\ Matches(q, Version(q.stream))
        /\ events' = events \o [i \in 1..q.n |-> [stream |-> q.stream, call |-> c]]
        /\ answer' \in {[answer EXCEPT ![c] = [kind |-> "ok", version |-> Version(q.stream) + q.n]],
                        [answer EXCEPT ![c] = [kind |-> "store", version |-> 0]]}
  /\ UNCHANGED requests

\* A batch of nothing only checks its expectation, perhaps against a version
\* the stream had before.
Check(c) ==
  /\ Open(c) /\ requests[c].n = 0
  /\ \E v \in 0..Version(requests[c].stream) :
       /\ Matches(requests[c], v)
       /\ answer' = [answer EXCEPT ![c] = [kind |-> "ok", version |-> v]]
  /\ UNCHANGED <<events, requests>>

\* The stream has moved on; the version reported may be an earlier one.
Refuse(c) ==
  /\ Open(c)
  /\ ~Matches(requests[c], Version(requests[c].stream))
  /\ \E v \in 0..Version(requests[c].stream) :
       /\ ~Matches(requests[c], v)
       /\ answer' = [answer EXCEPT ![c] = [kind |-> "conflict", version |-> v]]
  /\ UNCHANGED <<events, requests>>

\* The store fails before anything is written.
Fail(c) ==
  /\ Open(c)
  /\ answer' = [answer EXCEPT ![c] = [kind |-> "store", version |-> 0]]
  /\ UNCHANGED <<events, requests>>

Init ==
  /\ events = <<>>
  /\ requests = [c \in Calls |-> NONE]
  /\ answer = [c \in Calls |-> NONE]

Next ==
  \E c \in Calls :
    Submit(c) \/ Extend(c) \/ Check(c) \/ Refuse(c) \/ Fail(c)

Spec == Init /\ [][Next]_vars

=============================================================================
