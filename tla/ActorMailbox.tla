---------------------------- MODULE ActorMailbox ----------------------------
(***************************************************************************)
(* The mailbox of one actor of crates/sutegi-actors over its generations:  *)
(* ActorRef::tell, ask and stop by concurrent clients, the receive loop of *)
(* run_actor, and the mailbox_len counter in Shared, which all generations *)
(* share.                                                                  *)
(*                                                                         *)
(* A tell is two steps: the try_send, then the fetch_add.  Calls are       *)
(* numbered, and the reply channel of an ask has the number of its call; a *)
(* ReplyTo travels in the envelope and then belongs to the actor, which    *)
(* may answer it, keep it for later or drop it.                            *)
(***************************************************************************)
EXTENDS Integers, Sequences, FiniteSets

CONSTANTS
  Clients,      \* threads that may hold an ActorRef
  Cap,          \* mailbox capacity; a rendezvous mailbox (0) is left out
  Word,         \* usize arithmetic is modulo Word
  MaxGen,       \* bound: generations of the actor
  MaxOps        \* bound: tell, ask and stop calls

MailboxConstants ==
  /\ IsFiniteSet(Clients) /\ Cap \in Nat \ {0}
  /\ MaxGen \in Nat \ {0} /\ MaxOps \in Nat
  /\ Word \in Nat /\ Word > MaxOps

VARIABLES
  supervised,  \* whether a supervisor holds a sender and restarts the actor
  gen,      \* the last generation started
  thread,   \* its thread: "up" in recv, "busy" in a hook or handler,
            \*   "dying" after the loop, "down" once it has ended
  box,      \* its mailbox
  mlen,     \* Shared.mailbox_len
  kept,     \* asks whose ReplyTo the actor owns
  cpc,      \* control point of each client
  call,     \* the client's last call
  ref,      \* the generation the client's ActorRef addresses, 0 for none
  chan,     \* the reply channel of each call
  result,   \* what each client's last call returned
  ops,      \* calls so far
  drift     \* history: counts of earlier generations in mlen

vars == <<supervised, gen, thread, box, mlen, kept, cpc, call, ref, chan, result,
          ops, drift>>

actor == <<gen, thread, kept>>
client == <<cpc, call, ref, result, ops>>

Calls == 1..MaxOps
Envelope == [kind : {"msg", "ask", "stop"}, call : Calls]
Results == {"none", "ok", "full", "dead", "timeout"}

\* The receiver of generation g still exists.
Connected(g) == g = gen /\ thread # "down"

IsMsg(e) == e.kind # "stop"
Dropped(asks) == [k \in Calls |-> IF k \in asks /\ chan[k] = "open"
                                  THEN "dropped" ELSE chan[k]]

(***************************************************************************)
(* Clients.                                                                *)
(***************************************************************************)

\* SupervisorHandle::child_ref, or the clone of another client's reference.
GetRef(cl) ==
  /\ cpc[cl] = "idle" /\ ref[cl] # gen
  /\ \/ supervised /\ thread # "down"
     \/ \E other \in Clients : ref[other] = gen
  /\ ref' = [ref EXCEPT ![cl] = gen]
  /\ UNCHANGED <<supervised, actor, box, mlen, cpc, call, chan, result, ops,
                 drift>>

\* The client drops its ActorRef.
DropRef(cl) ==
  /\ cpc[cl] = "idle" /\ ref[cl] > 0
  /\ ref' = [ref EXCEPT ![cl] = 0]
  /\ UNCHANGED <<supervised, actor, box, mlen, cpc, call, chan, result, ops,
                 drift>>

NewCall(cl) ==
  /\ cpc[cl] = "idle" /\ ref[cl] > 0 /\ ops < MaxOps
  /\ ops' = ops + 1
  /\ call' = [call EXCEPT ![cl] = ops + 1]

Send(kind) == box' = Append(box, [kind |-> kind, call |-> ops + 1])

\* The try_send of tell, called directly ("msg") or by ask ("ask").
TrySend(cl, kind) ==
  /\ NewCall(cl)
  /\ \/ /\ Connected(ref[cl]) /\ Len(box) < Cap
        /\ Send(kind)
        /\ cpc' = [cpc EXCEPT ![cl] = "counting"]
        /\ chan' = [chan EXCEPT ![ops + 1] = IF kind = "ask" THEN "open" ELSE "none"]
        /\ result' = [result EXCEPT ![cl] = "none"]
     \/ /\ Connected(ref[cl]) /\ Len(box) >= Cap
        /\ result' = [result EXCEPT ![cl] = "full"]
        /\ UNCHANGED <<box, cpc, chan>>
     \/ /\ ~Connected(ref[cl])
        /\ result' = [result EXCEPT ![cl] = "dead"]
        /\ UNCHANGED <<box, cpc, chan>>
  /\ UNCHANGED <<supervised, actor, mlen, ref, drift>>

Counted(cl) ==
  LET asks == chan[call[cl]] # "none" IN
  /\ cpc' = [cpc EXCEPT ![cl] = IF asks THEN "waiting" ELSE "idle"]
  /\ result' = [result EXCEPT ![cl] = IF asks THEN "none" ELSE "ok"]
  /\ UNCHANGED <<supervised, actor, box, call, ref, chan, ops>>

\* The fetch_add that follows an accepted try_send.
Count(cl) ==
  /\ cpc[cl] = "counting"
  /\ mlen' = (mlen + 1) % Word
  /\ drift' = IF ref[cl] = gen THEN drift ELSE drift + 1
  /\ Counted(cl)

\* recv_timeout returns the answer, or an error that ask maps to Timeout
\* whether the time is up or the ReplyTo is gone.
AskReturns(cl) ==
  /\ cpc[cl] = "waiting"
  /\ result' = [result EXCEPT ![cl] =
                  IF chan[call[cl]] = "answered" THEN "ok" ELSE "timeout"]
  /\ cpc' = [cpc EXCEPT ![cl] = "idle"]
  /\ chan' = [chan EXCEPT ![call[cl]] = "closed"]
  /\ UNCHANGED <<supervised, actor, box, mlen, call, ref, ops, drift>>

\* ActorRef::stop, and the supervisor's stop closure: a blocking send that
\* is not counted and whose error is ignored.
Stop(cl) ==
  /\ NewCall(cl)
  /\ \/ Connected(ref[cl]) /\ Len(box) < Cap /\ Send("stop")
     \/ ~Connected(ref[cl]) /\ box' = box
  /\ UNCHANGED <<supervised, actor, mlen, cpc, ref, chan, result, drift>>

(***************************************************************************)
(* The actor's thread, run_actor.                                          *)
(***************************************************************************)

\* recv returns an envelope; a message is uncounted before it is handled.
Receive ==
  /\ thread = "up" /\ box # <<>>
  /\ box' = Tail(box)
  /\ \/ /\ Head(box).kind = "stop"
        /\ thread' = "dying"
        /\ UNCHANGED <<mlen, kept>>
     \/ /\ Head(box).kind # "stop"
        /\ thread' = "busy"
        /\ mlen' = (mlen - 1) % Word
        /\ kept' = IF Head(box).kind = "ask" THEN kept \cup {Head(box).call} ELSE kept
  /\ UNCHANGED <<supervised, gen, client, chan, drift>>

\* Every sender is gone: recv fails and the loop ends.
HangUp ==
  /\ thread = "up" /\ box = <<>> /\ ~supervised
  /\ \A cl \in Clients : ref[cl] # gen
  /\ thread' = "dying"
  /\ UNCHANGED <<supervised, gen, box, mlen, kept, client, chan, drift>>

\* started() or handle() returns, or panics and ends the loop.
Return ==
  /\ thread = "busy"
  /\ thread' \in {"up", "dying"}
  /\ UNCHANGED <<supervised, gen, box, mlen, kept, client, chan, drift>>

\* A handler or the stopped() hook answers an ask; without effect once the
\* asker has given up.
Reply(k) ==
  /\ thread \in {"busy", "dying"} /\ k \in kept
  /\ kept' = kept \ {k}
  /\ chan' = [chan EXCEPT ![k] = IF @ = "open" THEN "answered" ELSE @]
  /\ UNCHANGED <<supervised, gen, thread, box, mlen, client, drift>>

\* A handler drops a ReplyTo unanswered, or its panic does.
DropReply(k) ==
  /\ thread \in {"busy", "dying"} /\ k \in kept
  /\ kept' = kept \ {k}
  /\ chan' = Dropped({k})
  /\ UNCHANGED <<supervised, gen, thread, box, mlen, client, drift>>

\* Mutant of ThreadEnds: the envelopes left in the mailbox are not dropped.
ThreadEnds_LeaksMailbox ==
  /\ thread = "dying"
  /\ thread' = "down" /\ box' = <<>> /\ kept' = {}
  /\ chan' = Dropped(kept)
  /\ UNCHANGED <<supervised, gen, mlen, client, drift>>

\* The thread returns: the actor and its receiver go, with every envelope
\* still queued and every ReplyTo in them.
ThreadEnds ==
  /\ thread = "dying"
  /\ thread' = "down" /\ box' = <<>> /\ kept' = {}
  /\ chan' = Dropped(kept \cup {box[i].call : i \in DOMAIN box})
  /\ UNCHANGED <<supervised, gen, mlen, client, drift>>

\* Child::start: reset_for_restart, then a fresh mailbox and thread.
Restart ==
  /\ supervised /\ thread = "down" /\ gen < MaxGen
  /\ gen' = gen + 1 /\ thread' = "busy"
  /\ mlen' = 0 /\ drift' = 0
  /\ UNCHANGED <<supervised, box, kept, client, chan>>

Init ==
  /\ supervised \in BOOLEAN
  /\ gen = 1 /\ thread = "busy" /\ box = <<>> /\ mlen = 0 /\ kept = {}
  /\ cpc = [cl \in Clients |-> "idle"]
  /\ call = [cl \in Clients |-> 0]
  /\ ref = [cl \in Clients |-> 1]
  /\ chan = [k \in Calls |-> "none"]
  /\ result = [cl \in Clients |-> "none"]
  /\ ops = 0 /\ drift = 0

ClientStep(cl) ==
  \/ GetRef(cl) \/ DropRef(cl)
  \/ TrySend(cl, "msg") \/ TrySend(cl, "ask")
  \/ Count(cl) \/ AskReturns(cl) \/ Stop(cl)

ActorStep ==
  \/ Receive \/ HangUp \/ Return \/ ThreadEnds
  \/ \E k \in Calls : Reply(k) \/ DropReply(k)

Next == ActorStep \/ Restart \/ \E cl \in Clients : ClientStep(cl)

Spec == Init /\ [][Next]_vars

\* Handlers return, and a client thread that has sent goes on to count.
FairSpec == /\ Spec
            /\ WF_vars(Receive) /\ WF_vars(HangUp) /\ WF_vars(Return)
            /\ WF_vars(ThreadEnds)
            /\ \A cl \in Clients : WF_vars(Count(cl)) /\ WF_vars(AskReturns(cl))

(***************************************************************************)
(* Properties.                                                             *)
(***************************************************************************)

Queued == {i \in DOMAIN box : IsMsg(box[i])}
Counting(g) == {cl \in Clients : cpc[cl] = "counting" /\ ref[cl] = g}

\* Every variable has its type.
TypeOK ==
  /\ supervised \in BOOLEAN
  /\ gen \in 1..MaxGen /\ thread \in {"up", "busy", "dying", "down"}
  /\ box \in Seq(Envelope) /\ Len(box) <= Cap
  /\ mlen \in 0..(Word - 1) /\ drift \in 0..MaxOps
  /\ kept \subseteq Calls
  /\ cpc \in [Clients -> {"idle", "counting", "waiting"}]
  /\ call \in [Clients -> 0..MaxOps]
  /\ ref \in [Clients -> 0..gen]
  /\ chan \in [Calls -> {"none", "open", "answered", "dropped", "closed"}]
  /\ result \in [Clients -> Results]
  /\ ops \in 0..MaxOps

\* mailbox_len under any interleaving of try_send, fetch_add, recv and
\* fetch_sub (which may wrap below zero): once the counts still on their way
\* have landed it is the number of queued messages, plus the counts that a
\* tell to an earlier generation added after reset_for_restart.
LenAccounting ==
  thread # "down" =>
    (mlen + Cardinality(Counting(gen))) % Word = (Cardinality(Queued) + drift) % Word

\* An ask whose reply channel is open has its ReplyTo in the mailbox or with
\* the living actor: no asker waits for an answer nobody can give, however
\* the actor ended.
OpenAskIsHeld ==
  \A k \in Calls : chan[k] = "open" =>
    /\ thread # "down"
    /\ k \in kept \/ \E i \in DOMAIN box : box[i] = [kind |-> "ask", call |-> k]

\* A Stop that was accepted ends the thread, behind whatever is queued before
\* it, as long as handlers return.
StopEnds ==
  (\E i \in DOMAIN box : box[i].kind = "stop") ~> (thread = "down")

\* An unsupervised actor ends once its last ActorRef is gone, after the
\* messages still queued.
LastRefEnds ==
  (~supervised /\ \A cl \in Clients : ref[cl] # gen) ~> (thread = "down")

=============================================================================
