------------------------------ MODULE MCQueue ------------------------------
(***************************************************************************)
(* Instances of Queue for TLC.                                             *)
(***************************************************************************)
EXTENDS Queue, TLC

CONSTANTS w1, w2, p1, p2, main, k

Job(q, n, key) == [queue |-> q, priority |-> 0, max_attempts |-> n, delay |-> 0,
                   unique_key |-> key]

\* One pool of two workers in the producer's own process.
OnePool == [w \in {w1, w2} |-> "A"]
OnePoolQueue == [x \in {"A"} |-> main]
LocalAll == [p \in Producers |-> {w1, w2}]

\* Two pools of two processes; the producer runs in the first one.
TwoPools == [w \in {w1, w2} |-> IF w = w1 THEN "A" ELSE "B"]
TwoPoolsQueue == [x \in {"A", "B"} |-> main]
LocalFirst == [p \in Producers |-> {w1}]

\* A keyed job with a budget of two and a job with the budget zero, which
\* enqueue raises to one.
MixedRequests == {Job(main, 2, k), Job(main, 0, NULL)}
KeyedRequests == {Job(main, 1, k)}
DelayedRequests ==
  {Job(main, 2, NULL), [Job(main, 1, NULL) EXCEPT !.delay = 1, !.priority = 1]}

Workers2 == {w1, w2}
Sym == Permutations(Workers2)

(***************************************************************************)
(* What the runs check.                                                    *)
(***************************************************************************)

\* Every job due within the model's time is settled, although a worker dies,
\* and a pool that is told to stop comes to its end.
QueueProgress == EveryJobSettles /\ ShutdownDrains

=============================================================================
