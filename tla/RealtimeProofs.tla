---------------------------- MODULE RealtimeProofs ----------------------------
(***************************************************************************)
(* What clients, connections and pods can rely on, whatever their numbers: *)
(* the mailbox of an actor for any clients, generations and capacity, the  *)
(* supervisor for any children, policies and strategy, the hub for any     *)
(* connections and other threads, the channel protocol for any topics,     *)
(* channels and frames, presence for any pods and connections, the         *)
(* PostgreSQL broker for any pods and publishing threads.                  *)
(***************************************************************************)
EXTENDS ActorMailbox, FiniteSetTheorems, FunctionTheorems, SequenceTheorems, TLAPS

CONSTANTS N, Policy, Strategies, MaxRestarts, Window, MaxExits, MaxTime
CONSTANTS Conns, Others, MaxJoins, MaxCasts, MaxKicks
CONSTANTS Pods, Keys, Home, PresenceOps, Publishers, PublisherPod, MaxMsgs,
          MaxFaults, NONE
CONSTANTS Topics, Channels, MaxFrames, ClientKicks

VARIABLES strategy, spc, cur, from, ending, supInbox, recent, supGen, join,
          stat, restarts, thr, stopq, now, exits, supShutdown, events
VARIABLES conn, joins, topic, tracked, subs, hubNextSub, th, made, admitted,
          left, contested, casts, kicks
VARIABLES channelJoins, channelUp, down, view, asked, channelSent, answers,
          sockets, crossed, channelKicks
VARIABLES up, local, entry, remote, live, nextSub, inbox, pend, due, presOps,
          presFaults
VARIABLES heard, publisher, mutex, pc, attempt, sent, again, listener, queue,
          buffered, handles, shutdown, psFaults

Sup == INSTANCE Supervisor
  WITH gen <- supGen, inbox <- supInbox, shutdown <- supShutdown

Hub == INSTANCE Hub
  WITH nextSub <- hubNextSub

Chan == INSTANCE ChannelProtocol
  WITH MaxKicks <- ClientKicks, joins <- channelJoins, up <- channelUp,
       sent <- channelSent, kicks <- channelKicks

Presence == INSTANCE Presence
  WITH MaxOps <- PresenceOps, ops <- presOps, faults <- presFaults

PubSub == INSTANCE PgPubSub
  WITH Threads <- Publishers, PodOf <- PublisherPod, faults <- psFaults

\* The instances count as the modules they come from do.
LEMMA SameCounting ==
  /\ \A S : Sup!Cardinality(S) = Cardinality(S)
  /\ \A S : Chan!Cardinality(S) = Cardinality(S)
  /\ \A S : PubSub!Cardinality(S) = Cardinality(S)
  /\ \A S : Presence!Cardinality(S) = Cardinality(S)
  /\ \A S : Presence!IsFiniteSet(S) <=> IsFiniteSet(S)
BY DEF Sup!Cardinality, Chan!Cardinality, PubSub!Cardinality, Presence!Cardinality, Cardinality,
       Presence!IsFiniteSet, IsFiniteSet

(***************************************************************************)
(* The mailbox.  The counter and the mailbox are two objects: the          *)
(* accounting is inductive only over the sends whose fetch_add is still to *)
(* come, and in the arithmetic of usize, where a fetch_sub may come first. *)
(***************************************************************************)

\* Every client with a fetch_add to come, to whichever generation.
AllCounting == {cl \in Clients : cpc[cl] = "counting"}

\* A thread that is down has left nothing behind, a client in a call has its
\* number, and the counts to come are of calls that were made.
MailboxInv ==
  /\ TypeOK /\ LenAccounting /\ OpenAskIsHeld
  /\ thread = "down" => box = <<>> /\ kept = {}
  /\ \A cl \in Clients : cpc[cl] # "idle" => call[cl] > 0
  /\ drift + Cardinality(AllCounting) <= ops

\* A number is its remainder and whole turns of the word.
LEMMA Quotient ==
  ASSUME NEW W \in Nat, W > 0, NEW a \in Int
  PROVE  \E q \in Int : a = q * W + (a % W)
BY SMTT(30)

\* The remainder is the only one of its kind.
LEMMA Remainder ==
  ASSUME NEW W \in Nat, W > 0, NEW a \in Int, NEW q \in Int, NEW r \in 0..(W - 1),
         a = q * W + r
  PROVE  a % W = r
OBVIOUS

\* Whole turns of the word do not show in a remainder.
LEMMA WholeTurns ==
  ASSUME NEW W \in Nat, W > 0, NEW a \in Int, NEW b \in Int, NEW q \in Int, a = b + q * W
  PROVE  a % W = b % W
<1>1. PICK p \in Int : b = p * W + (b % W)
  BY Quotient
<1>2. b % W \in 0..(W - 1)
  OBVIOUS
<1> DEFINE r == b % W
<1>3. a = (p + q) * W + r /\ p + q \in Int /\ r \in 0..(W - 1)
  BY <1>1, <1>2
<1> HIDE DEF r
<1>4. a % W = r
  BY <1>3, Remainder
<1> QED
  BY <1>4 DEF r

\* What is added to equals modulo the word keeps them equal.
LEMMA AddBoth ==
  ASSUME NEW W \in Nat, W > 0, NEW a \in Int, NEW b \in Int, NEW d \in Int, a % W = b % W
  PROVE  (a + d) % W = (b + d) % W
<1>1. PICK p \in Int : a = p * W + (a % W)
  BY Quotient
<1>2. PICK q \in Int : b = q * W + (b % W)
  BY Quotient
<1>3. b % W \in 0..(W - 1)
  OBVIOUS
<1>4. a + d = (b + d) + (p - q) * W
  BY <1>1, <1>2, <1>3
<1>5. a + d \in Int /\ b + d \in Int /\ p - q \in Int
  OBVIOUS
<1> QED
  BY ONLY <1>4, <1>5, W \in Nat, W > 0, WholeTurns

\* The counter wraps before it is added to, or after: it is the same.
LEMMA AddReduced ==
  ASSUME NEW W \in Nat, W > 0, NEW a \in Int, NEW d \in Int
  PROVE  ((a % W) + d) % W = (a + d) % W
<1>1. PICK q \in Int : a = q * W + (a % W)
  BY Quotient
<1>2. a % W \in 0..(W - 1)
  OBVIOUS
<1>3. a + d = ((a % W) + d) + q * W
  BY <1>1, <1>2
<1>4. a + d \in Int /\ (a % W) + d \in Int
  BY <1>2
<1>5. (a + d) % W = ((a % W) + d) % W
  BY ONLY <1>3, <1>4, q \in Int, W \in Nat, W > 0, WholeTurns
<1> QED
  BY <1>5

-----------------------------------------------------------------------------

\* The sets that are counted are finite.
LEMMA CountsAreNumbers ==
  ASSUME MailboxConstants, box \in Seq(Envelope)
  PROVE  /\ IsFiniteSet(AllCounting) /\ Cardinality(AllCounting) \in Nat
         /\ \A g : IsFiniteSet(Counting(g)) /\ Cardinality(Counting(g)) \in Nat
         /\ IsFiniteSet(Queued) /\ Cardinality(Queued) \in Nat
<1>1. AllCounting \subseteq Clients /\ \A g : Counting(g) \subseteq Clients
  BY DEF AllCounting, Counting
<1>2. IsFiniteSet(DOMAIN box) /\ Queued \subseteq DOMAIN box
  BY FS_Interval DEF Queued
<1>3. IsFiniteSet(Clients)
  BY DEF MailboxConstants
<1>4. IsFiniteSet(AllCounting) /\ \A g : IsFiniteSet(Counting(g))
  BY <1>1, <1>3, FS_Subset
<1>5. IsFiniteSet(Queued)
  BY <1>2, FS_Subset
<1> QED
  BY <1>4, <1>5, FS_CardinalityType

\* What an accepted envelope adds to the messages queued.
LEMMA OneMoreQueued ==
  ASSUME box \in Seq(Envelope), NEW e \in Envelope, box' = Append(box, e)
  PROVE  Cardinality(Queued') = Cardinality(Queued) + (IF IsMsg(e) THEN 1 ELSE 0)
<1>1. IsFiniteSet(DOMAIN box) /\ Queued \subseteq DOMAIN box
  BY FS_Interval DEF Queued
<1>2. IsFiniteSet(Queued)
  BY <1>1, FS_Subset
<1>3. Len(box) + 1 \notin Queued
  BY DEF Queued
<1>4. Queued' = IF IsMsg(e) THEN Queued \cup {Len(box) + 1} ELSE Queued
  <2>1. DOMAIN box' = DOMAIN box \cup {Len(box) + 1}
    OBVIOUS
  <2>2. \A i \in DOMAIN box : box'[i] = box[i]
    OBVIOUS
  <2>3. box'[Len(box) + 1] = e
    OBVIOUS
  <2> QED
    BY <2>1, <2>2, <2>3 DEF Queued, IsMsg
<1> QED
  BY <1>2, <1>3, <1>4, FS_AddElement, FS_CardinalityType

\* What recv takes away.
LEMMA OneLessQueued ==
  ASSUME box \in Seq(Envelope), box # <<>>, box' = Tail(box)
  PROVE  Cardinality(Queued') = Cardinality(Queued) - (IF IsMsg(Head(box)) THEN 1 ELSE 0)
<1> DEFINE shift == [i \in Queued \ {1} |-> i - 1]
<1>1. IsFiniteSet(DOMAIN box) /\ Queued \subseteq DOMAIN box /\ DOMAIN box = 1..Len(box)
  BY FS_Interval DEF Queued
<1>2. IsFiniteSet(Queued)
  BY <1>1, FS_Subset
<1>3. Head(box) = box[1] /\ 1 \in DOMAIN box
  OBVIOUS
<1>4. IsFiniteSet(Queued \ {1}) /\ Cardinality(Queued \ {1}) =
        Cardinality(Queued) - (IF IsMsg(Head(box)) THEN 1 ELSE 0)
  <2>1. 1 \in Queued <=> IsMsg(Head(box))
    BY <1>3 DEF Queued
  <2>2. /\ IsFiniteSet(Queued \ {1})
        /\ Cardinality(Queued \ {1}) =
             IF 1 \in Queued THEN Cardinality(Queued) - 1 ELSE Cardinality(Queued)
    BY <1>2, FS_RemoveElement
  <2>3. Cardinality(Queued) \in Nat
    BY <1>2, FS_CardinalityType
  <2> QED
    BY <2>1, <2>2, <2>3
<1>5. Len(box') = Len(box) - 1 /\ \A i \in 1..Len(box') : box'[i] = box[i + 1]
  OBVIOUS
<1>6. \A i \in Nat : i \in Queued' <=> i + 1 \in Queued \ {1}
  BY <1>1, <1>5 DEF Queued, IsMsg
<1>7. Queued' \subseteq Nat
  BY <1>5 DEF Queued
<1>8. shift \in Bijection(Queued \ {1}, Queued')
  <2>1. \A i \in Queued \ {1} : i - 1 \in Nat /\ (i - 1) + 1 = i
    BY <1>1
  <2>2. shift \in [Queued \ {1} -> Queued']
    BY <1>6, <2>1
  <2>3. \A i, j \in Queued \ {1} : shift[i] = shift[j] => i = j
    BY <2>1
  <2>4. \A k \in Queued' : \E i \in Queued \ {1} : shift[i] = k
    BY <1>6, <1>7
  <2> QED
    BY <2>2, <2>3, <2>4, Fun_IsBij
<1> QED
  BY <1>4, <1>8, FS_Bijection DEF ExistsBijection

-----------------------------------------------------------------------------

\* Steps that add and take no message and no count.
LEMMA AccountsRest ==
  ASSUME MailboxInv, UNCHANGED <<box, mlen, drift, gen, ops, cpc>>,
         \A cl \in Clients : cpc[cl] = "counting" => ref'[cl] = ref[cl],
         thread' = "down" \/ thread # "down"
  PROVE  LenAccounting' /\ drift' + Cardinality(AllCounting') <= ops'
<1>1. AllCounting' = AllCounting /\ Counting(gen)' = Counting(gen) /\ Queued' = Queued
  BY DEF AllCounting, Counting, Queued
<1> QED
  BY <1>1 DEF MailboxInv, LenAccounting

\* References come and go between calls.
LEMMA GetRefKeeps ==
  ASSUME MailboxConstants, MailboxInv, NEW cl \in Clients, GetRef(cl) \/ DropRef(cl)
  PROVE  MailboxInv'
<1>1. /\ cpc[cl] = "idle" /\ \E g \in 0..gen : ref' = [ref EXCEPT ![cl] = g]
      /\ UNCHANGED <<supervised, gen, thread, kept, box, mlen, cpc, call, chan, result,
                     ops, drift>>
  <2>1. gen \in 0..gen /\ 0 \in 0..gen
    BY DEF MailboxInv, TypeOK, MailboxConstants
  <2> QED
    BY <2>1 DEF GetRef, DropRef, actor
<1>2. LenAccounting' /\ drift' + Cardinality(AllCounting') <= ops'
  <2>1. UNCHANGED <<box, mlen, drift, gen, ops, cpc>>
    BY <1>1
  <2>2. \A c \in Clients : c # cl => ref'[c] = ref[c]
    BY <1>1 DEF MailboxInv, TypeOK
  <2>3. thread' = "down" \/ thread # "down"
    BY <1>1
  <2> QED
    BY <1>1, <2>1, <2>2, <2>3, AccountsRest
<1>3. TypeOK'
  BY <1>1 DEF MailboxInv, TypeOK
<1>4. OpenAskIsHeld'
  BY <1>1 DEF MailboxInv, OpenAskIsHeld
<1> QED
  BY <1>1, <1>2, <1>3, <1>4 DEF MailboxInv

\* A send that was accepted: the message stands in the mailbox, its count is
\* still to come.
LEMMA SentKeeps ==
  ASSUME MailboxConstants, MailboxInv, NEW cl \in Clients, NEW kind \in {"msg", "ask"},
         TrySend(cl, kind), Connected(ref[cl]), Len(box) < Cap
  PROVE  MailboxInv'
<1> DEFINE e == [kind |-> kind, call |-> ops + 1]
<1>1. /\ cpc[cl] = "idle" /\ ref[cl] = gen /\ ops + 1 \in Calls /\ ops' = ops + 1
      /\ cpc' = [cpc EXCEPT ![cl] = "counting"] /\ box' = Append(box, e)
      /\ call' = [call EXCEPT ![cl] = ops + 1] /\ result' = [result EXCEPT ![cl] = "none"]
      /\ chan' = [chan EXCEPT ![ops + 1] = IF kind = "ask" THEN "open" ELSE "none"]
      /\ thread # "down" /\ UNCHANGED <<supervised, gen, thread, kept, mlen, ref, drift>>
  BY DEF Connected, Calls, MailboxConstants, MailboxInv, TypeOK, TrySend, NewCall, Send,
         actor
<1>2. e \in Envelope /\ IsMsg(e)
  BY <1>1 DEF Envelope, IsMsg
<1>3. TypeOK'
  <2>1. box' \in Seq(Envelope) /\ Len(box') <= Cap
    BY <1>1, <1>2 DEF MailboxInv, TypeOK, MailboxConstants
  <2> QED
    BY <1>1, <2>1 DEF MailboxInv, TypeOK, Results, Calls
<1>4. /\ Cardinality(Counting(gen)') = Cardinality(Counting(gen)) + 1
      /\ Cardinality(AllCounting') = Cardinality(AllCounting) + 1
  <2>1. cl \notin Counting(gen) /\ cl \notin AllCounting
    BY <1>1 DEF Counting, AllCounting
  <2>2. Counting(gen)' = Counting(gen) \cup {cl} /\ AllCounting' = AllCounting \cup {cl}
    BY <1>1 DEF Counting, AllCounting, MailboxInv, TypeOK
  <2>3. IsFiniteSet(Counting(gen)) /\ IsFiniteSet(AllCounting)
    BY CountsAreNumbers DEF MailboxInv, TypeOK
  <2> QED
    BY <2>1, <2>2, <2>3, FS_AddElement
<1>5. LenAccounting'
  <2> DEFINE m == mlen + Cardinality(Counting(gen))
             q == Cardinality(Queued) + drift
  <2>1. m \in Int /\ q \in Int /\ Word \in Nat /\ Word > 0
    <3>1. mlen \in Int /\ drift \in Int /\ Word \in Nat /\ Word > 0
      BY DEF MailboxInv, TypeOK, MailboxConstants
    <3>2. Cardinality(Counting(gen)) \in Nat /\ Cardinality(Queued) \in Nat
      BY CountsAreNumbers DEF MailboxInv, TypeOK
    <3> QED
      BY <3>1, <3>2
  <2>2. m % Word = q % Word
    BY <1>1 DEF MailboxInv, LenAccounting
  <2>3. Cardinality(Queued') = Cardinality(Queued) + 1
    BY <1>1, <1>2, OneMoreQueued DEF MailboxInv, TypeOK
  <2>4. /\ mlen' + Cardinality(Counting(gen)') = m + 1
        /\ Cardinality(Queued') + drift' = q + 1
    <3>1. mlen' = mlen /\ drift' = drift /\ mlen \in Int /\ drift \in Int
      BY <1>1 DEF MailboxInv, TypeOK
    <3>2. Cardinality(Counting(gen)) \in Nat /\ Cardinality(Queued) \in Nat
      BY CountsAreNumbers DEF MailboxInv, TypeOK
    <3>3. mlen + (Cardinality(Counting(gen)) + 1) = m + 1
      BY <3>1, <3>2
    <3>4. (Cardinality(Queued) + 1) + drift = q + 1
      BY <3>1, <3>2
    <3> QED
      BY ONLY <1>4, <2>3, <3>1, <3>3, <3>4
  <2> HIDE DEF m, q
  <2>5. (m + 1) % Word = (q + 1) % Word
    BY ONLY <2>1, <2>2, 1 \in Int, AddBoth, Zenon
  <2> QED
    BY <2>4, <2>5 DEF LenAccounting
<1>6. OpenAskIsHeld'
  <2> SUFFICES ASSUME NEW k \in Calls, chan'[k] = "open"
               PROVE  \/ k \in kept'
                      \/ \E i \in DOMAIN box' : box'[i] = [kind |-> "ask", call |-> k]
    BY <1>1 DEF OpenAskIsHeld
  <2>1. DOMAIN box' = DOMAIN box \cup {Len(box) + 1} /\ box'[Len(box) + 1] = e
        /\ \A i \in DOMAIN box : box'[i] = box[i]
    BY <1>1, <1>2 DEF MailboxInv, TypeOK
  <2>2. CASE k = ops + 1
    BY <1>1, <2>1, <2>2 DEF MailboxInv, TypeOK
  <2>3. CASE k # ops + 1
    BY <1>1, <2>1, <2>3 DEF MailboxInv, TypeOK, OpenAskIsHeld
  <2> QED
    BY <2>2, <2>3
<1>7. \A c \in Clients : cpc'[c] # "idle" => call'[c] > 0
  BY <1>1 DEF MailboxInv, TypeOK, Calls
<1>8. drift' + Cardinality(AllCounting') <= ops'
  BY <1>1, <1>4, CountsAreNumbers DEF MailboxInv, TypeOK
<1> QED
  BY <1>1, <1>3, <1>5, <1>6, <1>7, <1>8 DEF MailboxInv

\* A send that was refused, with Full or with Dead.
LEMMA RefusedKeeps ==
  ASSUME MailboxConstants, MailboxInv, NEW cl \in Clients, NewCall(cl),
         UNCHANGED <<supervised, actor, box, cpc, chan, mlen, ref, drift>>,
         result' = result \/ \E r \in Results : result' = [result EXCEPT ![cl] = r]
  PROVE  MailboxInv'
<1>1. /\ ops + 1 \in Calls /\ ops' = ops + 1 /\ call' = [call EXCEPT ![cl] = ops + 1]
      /\ UNCHANGED <<supervised, gen, thread, kept, box, cpc, chan, mlen, ref, drift>>
  BY DEF Calls, MailboxConstants, MailboxInv, TypeOK, NewCall, actor
<1>2. TypeOK'
  <2>1. result' \in [Clients -> Results]
    BY DEF MailboxInv, TypeOK
  <2>2. call' \in [Clients -> 0..MaxOps] /\ ops' \in 0..MaxOps
    BY <1>1 DEF MailboxInv, TypeOK, Calls
  <2> QED
    BY <1>1, <2>1, <2>2 DEF MailboxInv, TypeOK
<1>3. AllCounting' = AllCounting /\ Counting(gen)' = Counting(gen) /\ Queued' = Queued
  BY <1>1 DEF AllCounting, Counting, Queued
<1>4. LenAccounting' /\ OpenAskIsHeld'
  BY <1>1, <1>3 DEF MailboxInv, LenAccounting, OpenAskIsHeld
<1>5. drift' + Cardinality(AllCounting') <= ops'
  BY <1>1, <1>3, CountsAreNumbers DEF MailboxInv, TypeOK
<1> QED
  BY <1>1, <1>2, <1>4, <1>5 DEF MailboxInv, TypeOK

\* try_send, accepted or refused.
LEMMA TrySendKeeps ==
  ASSUME MailboxConstants, MailboxInv, NEW cl \in Clients, NEW kind \in {"msg", "ask"},
         TrySend(cl, kind)
  PROVE  MailboxInv'
<1>1. CASE Connected(ref[cl]) /\ Len(box) < Cap
  BY <1>1, SentKeeps
<1>2. CASE ~(Connected(ref[cl]) /\ Len(box) < Cap)
  <2>1. Len(box) \in Nat /\ Cap \in Nat
    BY DEF MailboxInv, TypeOK, MailboxConstants
  <2>2. /\ NewCall(cl) /\ UNCHANGED <<supervised, actor, box, cpc, chan, mlen, ref, drift>>
        /\ \E r \in Results : result' = [result EXCEPT ![cl] = r]
    BY <1>2, <2>1 DEF TrySend, Results
  <2> QED
    BY <2>2, RefusedKeeps
<1> QED
  BY <1>1, <1>2

\* Stop sends an envelope nobody counts.
LEMMA StopKeeps ==
  ASSUME MailboxConstants, MailboxInv, NEW cl \in Clients, Stop(cl)
  PROVE  MailboxInv'
<1> DEFINE e == [kind |-> "stop", call |-> ops + 1]
<1>1. CASE ~Connected(ref[cl])
  <2>1. NewCall(cl) /\ UNCHANGED <<supervised, actor, box, cpc, chan, mlen, ref, drift>>
        /\ result' = result
    BY <1>1 DEF Stop
  <2> QED
    BY <2>1, RefusedKeeps
<1>2. CASE Connected(ref[cl])
  <2>1. /\ ops + 1 \in Calls /\ ops' = ops + 1 /\ call' = [call EXCEPT ![cl] = ops + 1]
        /\ box' = Append(box, e) /\ Len(box) < Cap /\ thread # "down"
        /\ UNCHANGED <<supervised, gen, thread, kept, cpc, chan, mlen, ref, drift, result>>
    BY <1>2 DEF Calls, MailboxConstants, MailboxInv, TypeOK, NewCall, actor, Stop, Send,
                Connected
  <2>2. e \in Envelope /\ ~IsMsg(e)
    BY <2>1 DEF Envelope, IsMsg
  <2>3. TypeOK'
    <3>1. box' \in Seq(Envelope) /\ Len(box') <= Cap
      BY <2>1, <2>2 DEF MailboxInv, TypeOK, MailboxConstants
    <3> QED
      BY <2>1, <3>1 DEF MailboxInv, TypeOK, Calls
  <2>4. AllCounting' = AllCounting /\ Counting(gen)' = Counting(gen)
    BY <2>1 DEF AllCounting, Counting
  <2>5. LenAccounting'
    <3>1. Cardinality(Queued') = Cardinality(Queued)
      <4>1. Cardinality(Queued') = Cardinality(Queued) + 0
        BY <2>1, <2>2, OneMoreQueued DEF MailboxInv, TypeOK
      <4> QED
        BY <4>1, CountsAreNumbers DEF MailboxInv, TypeOK
    <3> QED
      BY <2>1, <2>4, <3>1 DEF MailboxInv, LenAccounting
  <2>6. OpenAskIsHeld'
    <3>1. DOMAIN box \subseteq DOMAIN box' /\ \A i \in DOMAIN box : box'[i] = box[i]
      BY <2>1, <2>2 DEF MailboxInv, TypeOK
    <3> QED
      BY <2>1, <3>1 DEF MailboxInv, OpenAskIsHeld
  <2>7. drift' + Cardinality(AllCounting') <= ops'
    BY <2>1, <2>4, CountsAreNumbers DEF MailboxInv, TypeOK
  <2> QED
    BY <2>1, <2>3, <2>5, <2>6, <2>7 DEF MailboxInv, TypeOK
<1> QED
  BY <1>1, <1>2

\* The fetch_add lands: in the count of its own generation it was expected, in
\* that of a later one it is drift.
LEMMA CountKeeps ==
  ASSUME MailboxConstants, MailboxInv, NEW cl \in Clients, Count(cl)
  PROVE  MailboxInv'
<1>1. /\ cpc[cl] = "counting" /\ mlen' = (mlen + 1) % Word
      /\ drift' = IF ref[cl] = gen THEN drift ELSE drift + 1
      /\ \E p \in {"idle", "waiting"} : cpc' = [cpc EXCEPT ![cl] = p]
      /\ \E r \in Results : result' = [result EXCEPT ![cl] = r]
      /\ UNCHANGED <<supervised, gen, thread, kept, box, call, ref, chan, ops>>
  BY DEF Count, Counted, actor, Results
<1>2. /\ mlen \in Int /\ drift \in Nat /\ Word \in Nat /\ Word > 0 /\ ops \in 0..MaxOps
      /\ MaxOps \in Nat
  BY DEF MailboxInv, TypeOK, MailboxConstants
<1>3. /\ IsFiniteSet(Counting(gen)) /\ IsFiniteSet(AllCounting)
      /\ Cardinality(Counting(gen)) \in Nat /\ Cardinality(Queued) \in Nat
      /\ Cardinality(AllCounting) \in Nat
  BY CountsAreNumbers DEF MailboxInv, TypeOK
<1>4. AllCounting' = AllCounting \ {cl} /\ cl \in AllCounting
  BY <1>1 DEF AllCounting, MailboxInv, TypeOK
<1>5. Cardinality(AllCounting') = Cardinality(AllCounting) - 1
  BY <1>3, <1>4, FS_RemoveElement
<1>6. drift' + Cardinality(AllCounting') <= ops'
  BY <1>1, <1>2, <1>3, <1>5 DEF MailboxInv
<1>7. TypeOK'
  <2>1. mlen' \in 0..(Word - 1)
    BY <1>1, <1>2
  <2>2. drift' \in 0..MaxOps
    <3>1. Cardinality(AllCounting') \in Nat
      BY <1>3, <1>4, FS_RemoveElement, FS_CardinalityType
    <3>2. drift' \in Nat /\ ops' = ops
      BY <1>1, <1>2
    <3> QED
      BY ONLY <1>2, <1>6, <3>1, <3>2
  <2> QED
    BY <1>1, <2>1, <2>2 DEF MailboxInv, TypeOK
<1>8. LenAccounting'
  <2> SUFFICES ASSUME thread # "down"
               PROVE  (mlen' + Cardinality(Counting(gen)')) % Word
                        = (Cardinality(Queued) + drift') % Word
    BY <1>1 DEF LenAccounting, Queued, Counting
  <2> DEFINE c == Cardinality(Counting(gen))
             q == Cardinality(Queued) + drift
  <2>1. (mlen + c) % Word = q % Word
    BY DEF MailboxInv, LenAccounting
  <2>2. CASE ref[cl] = gen
    <3>1. Counting(gen)' = Counting(gen) \ {cl} /\ cl \in Counting(gen)
      BY <1>1, <2>2 DEF Counting, MailboxInv, TypeOK
    <3>2. Cardinality(Counting(gen)') = c - 1
      BY <1>3, <3>1, FS_RemoveElement
    <3>3. mlen + 1 \in Int /\ c - 1 \in Int /\ (mlen + 1) + (c - 1) = mlen + c
      BY <1>2, <1>3
    <3>4. (((mlen + 1) % Word) + (c - 1)) % Word = ((mlen + 1) + (c - 1)) % Word
      BY ONLY <1>2, <3>3, AddReduced, Zenon
    <3> QED
      BY <1>1, <2>1, <2>2, <3>2, <3>3, <3>4
  <2>3. CASE ref[cl] # gen
    <3>1. Counting(gen)' = Counting(gen)
      BY <1>1, <2>3 DEF Counting, MailboxInv, TypeOK
    <3>2. /\ mlen + 1 \in Int /\ c \in Int /\ (mlen + 1) + c = (mlen + c) + 1
          /\ mlen + c \in Int /\ q \in Int
          /\ Cardinality(Queued) + (drift + 1) = q + 1
      BY <1>2, <1>3
    <3> HIDE DEF c, q
    <3>3. (((mlen + 1) % Word) + c) % Word = ((mlen + 1) + c) % Word
      BY ONLY <1>2, <3>2, AddReduced, Zenon
    <3> DEFINE m == mlen + c
    <3>4. m \in Int /\ q \in Int /\ m % Word = q % Word /\ Word \in Nat /\ Word > 0
      BY <1>2, <2>1, <3>2
    <3> HIDE DEF m
    <3>5. (m + 1) % Word = (q + 1) % Word
      BY ONLY <3>4, 1 \in Int, AddBoth, Zenon
    <3> QED
      BY <1>1, <2>3, <3>1, <3>2, <3>3, <3>5 DEF c, m
  <2> QED
    BY <2>2, <2>3
<1>9. OpenAskIsHeld' /\ \A c \in Clients : cpc'[c] # "idle" => call'[c] > 0
  BY <1>1 DEF MailboxInv, TypeOK, OpenAskIsHeld
<1> QED
  BY <1>1, <1>6, <1>7, <1>8, <1>9 DEF MailboxInv

\* The asker takes its answer, or gives up on it.
LEMMA AskReturnsKeeps ==
  ASSUME MailboxConstants, MailboxInv, NEW cl \in Clients, AskReturns(cl)
  PROVE  MailboxInv'
<1>1. /\ cpc[cl] = "waiting" /\ cpc' = [cpc EXCEPT ![cl] = "idle"]
      /\ \E r \in Results : result' = [result EXCEPT ![cl] = r]
      /\ chan' = [chan EXCEPT ![call[cl]] = "closed"]
      /\ UNCHANGED <<supervised, gen, thread, kept, box, mlen, call, ref, ops, drift>>
  BY DEF AskReturns, actor, Results
<1>2. call[cl] \in Calls
  <2>1. call[cl] \in 0..MaxOps /\ call[cl] > 0 /\ MaxOps \in Nat
    BY <1>1 DEF MailboxInv, TypeOK, MailboxConstants
  <2> QED
    BY ONLY <2>1 DEF Calls
<1>3. AllCounting' = AllCounting /\ Counting(gen)' = Counting(gen) /\ Queued' = Queued
  BY <1>1 DEF AllCounting, Counting, Queued, MailboxInv, TypeOK
<1>4. TypeOK'
  BY <1>1, <1>2 DEF MailboxInv, TypeOK
<1>5. LenAccounting'
  BY <1>1, <1>3 DEF MailboxInv, LenAccounting
<1>6. OpenAskIsHeld'
  BY <1>1, <1>2 DEF MailboxInv, TypeOK, OpenAskIsHeld
<1>7. \A c \in Clients : cpc'[c] # "idle" => call'[c] > 0
  BY <1>1 DEF MailboxInv, TypeOK
<1> QED
  BY <1>1, <1>3, <1>4, <1>5, <1>6, <1>7 DEF MailboxInv

\* recv takes an envelope and uncounts a message, perhaps before it was counted.
LEMMA ReceiveKeeps ==
  ASSUME MailboxConstants, MailboxInv, Receive
  PROVE  MailboxInv'
<1>1. /\ thread = "up" /\ thread' \in {"dying", "busy"} /\ box # <<>> /\ box' = Tail(box)
      /\ Head(box) \in Envelope /\ Head(box) = box[1] /\ box \in Seq(Envelope)
      /\ mlen' = IF IsMsg(Head(box)) THEN (mlen - 1) % Word ELSE mlen
      /\ kept' = IF Head(box).kind = "ask" THEN kept \cup {Head(box).call} ELSE kept
      /\ UNCHANGED <<supervised, gen, cpc, call, ref, result, ops, chan, drift>>
  BY DEF Receive, client, IsMsg, MailboxInv, TypeOK
<1>2. /\ box' \in Seq(Envelope) /\ Len(box) \in Nat /\ Len(box') = Len(box) - 1
      /\ \A i \in DOMAIN box : i # 1 => i - 1 \in DOMAIN box' /\ box'[i - 1] = box[i]
  BY <1>1
<1>3. mlen \in Int /\ drift \in Nat /\ Word \in Nat /\ Word > 0 /\ mlen \in 0..(Word - 1)
  BY DEF MailboxInv, TypeOK, MailboxConstants
<1>4. AllCounting' = AllCounting /\ Counting(gen)' = Counting(gen)
  BY <1>1 DEF AllCounting, Counting
<1>5. Cardinality(Counting(gen)) \in Nat /\ Cardinality(Queued) \in Nat
  BY CountsAreNumbers DEF MailboxInv, TypeOK
<1>6. TypeOK'
  <2>1. mlen' \in 0..(Word - 1)
    BY <1>1, <1>3
  <2>2. kept' \subseteq Calls
    BY <1>1 DEF MailboxInv, TypeOK, Envelope
  <2>3. Len(box') <= Cap
    BY <1>2 DEF MailboxInv, TypeOK, MailboxConstants
  <2> QED
    BY <1>1, <1>2, <2>1, <2>2, <2>3 DEF MailboxInv, TypeOK
<1>7. LenAccounting'
  <2> DEFINE c == Cardinality(Counting(gen))
             q == Cardinality(Queued) + drift
  <2>1. (mlen + c) % Word = q % Word
    BY <1>1 DEF MailboxInv, LenAccounting
  <2>2. Cardinality(Queued') = Cardinality(Queued) - (IF IsMsg(Head(box)) THEN 1 ELSE 0)
    BY <1>1, OneLessQueued
  <2>3. CASE ~IsMsg(Head(box))
    <3>1. Cardinality(Queued') = Cardinality(Queued)
      BY <1>5, <2>2, <2>3
    <3> QED
      BY <1>1, <1>4, <2>1, <2>3, <3>1 DEF LenAccounting
  <2>4. CASE IsMsg(Head(box))
    <3> DEFINE m == mlen + c
               less == -1
    <3>1. /\ m \in Int /\ q \in Int /\ m % Word = q % Word /\ c \in Int
          /\ mlen - 1 \in Int /\ (mlen - 1) + c = m + less /\ less \in Int
      BY <1>3, <1>5, <2>1
    <3>2. Cardinality(Queued') + drift = q + less
      BY <1>3, <1>5, <2>2, <2>4
    <3> HIDE DEF m, c, q, less
    <3>3. (((mlen - 1) % Word) + c) % Word = ((mlen - 1) + c) % Word
      BY ONLY <1>3, <3>1, AddReduced, Zenon
    <3>4. (m + less) % Word = (q + less) % Word
      <4>1. /\ m \in Int /\ q \in Int /\ m % Word = q % Word /\ less \in Int
            /\ Word \in Nat /\ Word > 0
        BY <1>3, <3>1
      <4> QED
        BY ONLY <4>1, AddBoth, Zenon
    <3>5. (mlen' + c) % Word = (Cardinality(Queued') + drift) % Word
      BY <1>1, <2>4, <3>1, <3>2, <3>3, <3>4
    <3> QED
      BY <1>1, <1>4, <3>5 DEF LenAccounting, c
  <2> QED
    BY <2>3, <2>4
<1>8. OpenAskIsHeld'
  <2> SUFFICES ASSUME NEW k \in Calls, chan[k] = "open"
               PROVE  \/ k \in kept'
                      \/ \E i \in DOMAIN box' : box'[i] = [kind |-> "ask", call |-> k]
    BY <1>1 DEF OpenAskIsHeld
  <2>1. CASE k \in kept
    BY <1>1, <2>1
  <2>2. CASE k \notin kept
    <3>1. PICK i \in DOMAIN box : box[i] = [kind |-> "ask", call |-> k]
      BY <2>2 DEF MailboxInv, OpenAskIsHeld
    <3>2. CASE i = 1
      BY <1>1, <3>1, <3>2
    <3>3. CASE i # 1
      BY <1>2, <3>1, <3>3
    <3> QED
      BY <3>2, <3>3
  <2> QED
    BY <2>1, <2>2
<1> QED
  BY <1>1, <1>4, <1>6, <1>7, <1>8 DEF MailboxInv

\* The loop ends or a hook returns: nothing moves but the thread.
LEMMA ReturnKeeps ==
  ASSUME MailboxConstants, MailboxInv, HangUp \/ Return
  PROVE  MailboxInv'
<1>1. /\ thread # "down" /\ thread' \in {"up", "dying"}
      /\ UNCHANGED <<supervised, gen, box, mlen, kept, cpc, call, ref, result, ops, chan,
                     drift>>
  BY DEF HangUp, Return, client
<1>2. LenAccounting' /\ drift' + Cardinality(AllCounting') <= ops'
  BY <1>1, AccountsRest
<1>3. TypeOK' /\ OpenAskIsHeld'
  BY <1>1 DEF MailboxInv, TypeOK, OpenAskIsHeld
<1> QED
  BY <1>1, <1>2, <1>3 DEF MailboxInv

\* A ReplyTo that is used or dropped closes its own ask alone.
LEMMA ReplyKeeps ==
  ASSUME MailboxConstants, MailboxInv, NEW k \in Calls, Reply(k) \/ DropReply(k)
  PROVE  MailboxInv'
<1>1. /\ kept' = kept \ {k} /\ thread # "down"
      /\ chan'[k] # "open" /\ \A j \in Calls : j # k => chan'[j] = chan[j]
      /\ chan' \in [Calls -> {"none", "open", "answered", "dropped", "closed"}]
      /\ UNCHANGED <<supervised, gen, thread, box, mlen, cpc, call, ref, result, ops, drift>>
  BY DEF Reply, DropReply, Dropped, client, MailboxInv, TypeOK
<1>2. LenAccounting' /\ drift' + Cardinality(AllCounting') <= ops'
  BY <1>1, AccountsRest
<1>3. TypeOK'
  BY <1>1 DEF MailboxInv, TypeOK
<1>4. OpenAskIsHeld'
  BY <1>1 DEF MailboxInv, OpenAskIsHeld
<1> QED
  BY <1>1, <1>2, <1>3, <1>4 DEF MailboxInv

\* With the thread go the asks it kept and those still queued: none stays open.
LEMMA ThreadEndsKeeps ==
  ASSUME MailboxConstants, MailboxInv, ThreadEnds
  PROVE  MailboxInv'
<1>1. /\ thread' = "down" /\ box' = <<>> /\ kept' = {}
      /\ chan' = Dropped(kept \cup {box[i].call : i \in DOMAIN box})
      /\ UNCHANGED <<supervised, gen, mlen, cpc, call, ref, result, ops, drift>>
  BY DEF ThreadEnds, client
<1>2. chan' \in [Calls -> {"none", "open", "answered", "dropped", "closed"}]
  BY <1>1 DEF Dropped, MailboxInv, TypeOK
<1>3. TypeOK'
  <2>1. box' \in Seq(Envelope) /\ Len(box') <= Cap
    BY <1>1 DEF MailboxConstants
  <2> QED
    BY <1>1, <1>2, <2>1 DEF MailboxInv, TypeOK
<1>4. OpenAskIsHeld'
  <2> SUFFICES ASSUME NEW k \in Calls, chan'[k] = "open"
               PROVE  FALSE
    BY DEF OpenAskIsHeld
  <2>1. chan[k] = "open" /\ k \notin kept \cup {box[i].call : i \in DOMAIN box}
    BY <1>1 DEF Dropped
  <2> QED
    BY <2>1 DEF MailboxInv, OpenAskIsHeld
<1>5. AllCounting' = AllCounting
  BY <1>1 DEF AllCounting
<1> QED
  BY <1>1, <1>3, <1>4, <1>5 DEF MailboxInv, LenAccounting

\* A fresh generation has an empty mailbox, and no client has its address yet.
LEMMA RestartKeeps ==
  ASSUME MailboxConstants, MailboxInv, Restart
  PROVE  MailboxInv'
<1>1. /\ thread = "down" /\ gen < MaxGen /\ gen' = gen + 1 /\ thread' = "busy"
      /\ mlen' = 0 /\ drift' = 0
      /\ UNCHANGED <<supervised, box, kept, cpc, call, ref, result, ops, chan>>
  BY DEF Restart, client
<1>2. box = <<>> /\ kept = {}
  BY <1>1 DEF MailboxInv
<1>3. TypeOK'
  BY <1>1 DEF MailboxInv, TypeOK, MailboxConstants
<1>4. OpenAskIsHeld'
  BY <1>1 DEF MailboxInv, OpenAskIsHeld
<1>5. Counting(gen)' = {} /\ Queued' = {} /\ AllCounting' = AllCounting
  BY <1>1, <1>2 DEF Counting, Queued, AllCounting, MailboxInv, TypeOK
<1>6. LenAccounting'
  BY <1>1, <1>5, FS_EmptySet DEF LenAccounting
<1>7. drift' + Cardinality(AllCounting') <= ops'
  BY <1>1, <1>5, CountsAreNumbers DEF MailboxInv, TypeOK
<1> QED
  BY <1>1, <1>3, <1>4, <1>6, <1>7 DEF MailboxInv

\* The first generation starts with everything empty.
LEMMA MailboxInit ==
  ASSUME MailboxConstants, Init
  PROVE  MailboxInv
<1>1. TypeOK
  BY DEF Init, TypeOK, MailboxConstants, Results
<1>2. Counting(gen) = {} /\ Queued = {} /\ AllCounting = {}
  BY DEF Init, Counting, Queued, AllCounting
<1>3. LenAccounting
  BY <1>2, FS_EmptySet DEF Init, LenAccounting
<1>4. OpenAskIsHeld
  BY DEF Init, OpenAskIsHeld
<1>5. drift + Cardinality(AllCounting) <= ops
  BY <1>2, FS_EmptySet DEF Init
<1> QED
  BY <1>1, <1>3, <1>4, <1>5 DEF Init, MailboxInv

\* Every step keeps the invariant.
LEMMA MailboxNext ==
  ASSUME MailboxConstants, MailboxInv, [Next]_vars
  PROVE  MailboxInv'
<1>1. CASE ActorStep
  BY <1>1, ReceiveKeeps, ReturnKeeps, ThreadEndsKeeps, ReplyKeeps DEF ActorStep
<1>2. CASE Restart
  BY <1>2, RestartKeeps
<1>3. CASE \E cl \in Clients : ClientStep(cl)
  <2> SUFFICES ASSUME NEW cl \in Clients, ClientStep(cl)
               PROVE  MailboxInv'
    BY <1>3
  <2> QED
    BY GetRefKeeps, TrySendKeeps, CountKeeps, AskReturnsKeeps, StopKeeps DEF ClientStep
<1>4. CASE UNCHANGED vars
  <2>1. AllCounting' = AllCounting /\ Counting(gen)' = Counting(gen) /\ Queued' = Queued
    BY <1>4 DEF vars, AllCounting, Counting, Queued
  <2> QED
    BY <1>4, <2>1 DEF vars, MailboxInv, TypeOK, LenAccounting, OpenAskIsHeld
<1> QED
  BY <1>1, <1>2, <1>3, <1>4 DEF Next

\* What the two properties need of the types is part of the invariant.
LEMMA MailboxInductive ==
  ASSUME MailboxConstants
  PROVE  Spec => []MailboxInv
<1>1. Init => MailboxInv
  BY MailboxInit
<1>2. MailboxInv /\ [Next]_vars => MailboxInv'
  BY MailboxNext
<1> QED
  BY <1>1, <1>2, PTL DEF Spec

\* mailbox_len is the length of the mailbox but for the counts on their way and
\* the late ones of earlier generations, although it may wrap below zero.
THEOREM LengthIsAccounted ==
  ASSUME MailboxConstants
  PROVE  Spec => []LenAccounting
<1>1. MailboxInv => LenAccounting
  BY DEF MailboxInv
<1> QED
  BY <1>1, MailboxInductive, PTL

\* An asker never waits for an answer nobody can give: while its channel is open
\* the ReplyTo is with the living actor or in its mailbox.
THEOREM AsksAreHeld ==
  ASSUME MailboxConstants
  PROVE  Spec => []OpenAskIsHeld
<1>1. MailboxInv => OpenAskIsHeld
  BY DEF MailboxInv
<1> QED
  BY <1>1, MailboxInductive, PTL


(***************************************************************************)
(* The supervisor.  The queue tells it of the past: an Exit may be that of *)
(* a generation replaced since, or of a child in a group that is being     *)
(* stopped.  That a child has one live thread is therefore inductive only  *)
(* together with where the supervisor is in its loops over the group, and  *)
(* with what the exits in the queue still say of the threads.              *)
(***************************************************************************)

\* Generations are used up in order; only the last may have a live thread, and
\* one that is not live and was reaped has reported its exit.
ThreadsInv ==
  \A c \in Sup!Children :
    /\ \A g \in Sup!Gens : /\ g < supGen[c] => thr[c][g] = "exited"
                           /\ g = supGen[c] => thr[c][g] # "none"
                           /\ g > supGen[c] => thr[c][g] = "none"
    /\ join[c] => supGen[c] > 0
    /\ supGen[c] > 0 /\ ~join[c] => thr[c][supGen[c]] = "exited"

\* Where the supervisor is in its loops: from the last child down to the first
\* of the group nobody is left to join, and then they are started upwards.
LoopInv ==
  /\ spc \in {"starting", "recv"} => ending = "none"
  /\ ending # "none" => from = 1
  /\ spc \in {"recv", "stopping", "joining"} => \A c \in Sup!Children : supGen[c] > 0
  /\ spc \in {"stopping", "joining"} =>
       from <= cur /\ \A c \in Sup!Children : c > cur => ~join[c]
  /\ spc = "joining" => join[cur]
  /\ spc = "starting" =>
       \A c \in Sup!Children : (c < cur => supGen[c] > 0) /\ (c >= cur => ~join[c])
  /\ ~Sup!Running => \A c \in Sup!Children : ~join[c]

\* The thread of the exit at place i of the queue is gone, and told of it once.
TellsTrue(i) == thr[supInbox[i].id][supInbox[i].gen] = "exited"

ToldOnce(i) ==
  \A j \in 1..Len(supInbox) :
    supInbox[j].id = supInbox[i].id /\ supInbox[j].gen = supInbox[i].gen => i = j

\* One that is not stale is of a child still to be reaped, unless the loop over
\* its group has passed it.
ToReap(i) ==
  supInbox[i].gen = supGen[supInbox[i].id] =>
    \/ join[supInbox[i].id] \/ ~Sup!Running
    \/ spc \in {"stopping", "joining"} /\ supInbox[i].id > cur
    \/ spc = "starting" /\ supInbox[i].id >= cur

QueueInv ==
  \A i \in 1..Len(supInbox) :
    supInbox[i] # Sup!Shutdown => TellsTrue(i) /\ ToldOnce(i) /\ ToReap(i)

\* Restarts and restart events agree, but for the children of the group whose
\* turn has not come.
ScopeInv ==
  ending = "none" =>
    \A c \in Sup!Children :
      restarts[c] + (IF \/ spc \in {"stopping", "joining"} /\ c >= from
                        \/ spc = "starting" /\ c >= cur /\ supGen[c] > 0
                     THEN 1 ELSE 0)
        = Cardinality(Sup!Covering(c))

SupervisorInv ==
  /\ Sup!TypeOK /\ ThreadsInv /\ Sup!StatusTruth /\ LoopInv /\ QueueInv /\ Sup!NoExitLost
  /\ ScopeInv

(***************************************************************************)
(* The threads.                                                            *)
(***************************************************************************)

\* Only the current generation's thread is live, and it is still to be joined.
LEMMA LiveIsCurrent ==
  ASSUME Sup!SupervisorConstants, Sup!TypeOK, ThreadsInv, NEW c \in Sup!Children,
         NEW g \in Sup!Gens, Sup!Alive(c, g)
  PROVE  g = supGen[c] /\ join[c] /\ supGen[c] > 0
<1>1. g \in Nat /\ supGen[c] \in Nat
  BY DEF Sup!TypeOK, Sup!Gens, Sup!SupervisorConstants
<1>2. thr[c][g] \notin {"none", "exited"}
  BY DEF Sup!Alive
<1>3. g = supGen[c]
  BY <1>1, <1>2 DEF ThreadsInv
<1> QED
  BY <1>1, <1>2, <1>3 DEF ThreadsInv, Sup!Gens

\* A thread that gets on with its work, or panics, or takes its Stop, is as
\* live as it was.
LEMMA LiveThreadKeeps ==
  ASSUME Sup!SupervisorConstants, SupervisorInv, NEW c \in Sup!Children, NEW g \in Sup!Gens,
         Sup!Alive(c, g), NEW state \in {"up", "stopped", "crashed"},
         thr' = [thr EXCEPT ![c][g] = state],
         \/ state = "up" /\ thr[c][g] = "boot" /\ stat' = stat
         \/ state \in {"stopped", "crashed"} /\ stat' = [stat EXCEPT ![c] = state],
         exits' \in 0..MaxExits,
         UNCHANGED <<strategy, spc, cur, from, ending, supInbox, recent, supGen, join, restarts,
                     stopq, now, supShutdown, events>>
  PROVE  SupervisorInv'
<1> USE DEF SupervisorInv
<1>1. g = supGen[c] /\ join[c] /\ supGen[c] > 0
  BY LiveIsCurrent
<1>2. /\ thr' \in [Sup!Children -> [Sup!Gens -> Sup!ThreadState]] /\ thr'[c][g] = state
      /\ \A d \in Sup!Children, h \in Sup!Gens : d # c \/ h # g => thr'[d][h] = thr[d][h]
  BY DEF Sup!TypeOK, Sup!ThreadState
<1>3. /\ stat' \in [Sup!Children -> {"running", "stopped", "crashed"}]
      /\ \A d \in Sup!Children \ {c} : stat'[d] = stat[d]
      /\ (stat'[c] = "running" <=> state = "up")
  <2>1. CASE state = "up"
    BY <1>1, <2>1 DEF Sup!TypeOK, Sup!StatusTruth
  <2>2. CASE state # "up"
    BY <1>1, <2>2 DEF Sup!TypeOK
  <2> QED
    BY <2>1, <2>2
<1>4. thr[c][g] \notin {"none", "exited"} /\ Sup!Alive(c, g)'
  BY <1>2 DEF Sup!Alive
<1>5. Sup!TypeOK'
  BY <1>2, <1>3 DEF Sup!TypeOK
<1>6. ThreadsInv'
  BY <1>1, <1>2, <1>4 DEF ThreadsInv
<1>7. Sup!StatusTruth'
  <2>1. \A d \in Sup!Children \ {c} : supGen[d] > 0 => thr'[d][supGen[d]] = thr[d][supGen[d]]
    BY <1>2 DEF Sup!TypeOK, Sup!Gens
  <2> QED
    BY <1>1, <1>2, <1>3, <2>1 DEF Sup!StatusTruth
<1>8. LoopInv'
  BY DEF LoopInv, Sup!Running
<1>9. QueueInv'
  <2> SUFFICES ASSUME NEW i \in 1..Len(supInbox), supInbox[i] # Sup!Shutdown
               PROVE  TellsTrue(i)'
    BY DEF QueueInv, ToldOnce, ToReap, Sup!Running
  <2>1. supInbox[i] \in Sup!Exit /\ thr[supInbox[i].id][supInbox[i].gen] = "exited"
    BY DEF QueueInv, TellsTrue, Sup!TypeOK
  <2> QED
    BY <1>2, <1>4, <2>1 DEF Sup!Exit, TellsTrue
<1>10. Sup!NoExitLost'
  <2>1. \A d \in Sup!Children : join[d] /\ ~Sup!Alive(d, supGen[d])' => ~Sup!Alive(d, supGen[d])
    <3> TAKE d \in Sup!Children
    <3> HAVE join[d] /\ ~Sup!Alive(d, supGen[d])'
    <3>1. d # c
      BY <1>1, <1>4
    <3>2. supGen[d] \in Sup!Gens
      BY DEF Sup!TypeOK, ThreadsInv, Sup!Gens
    <3> QED
      BY <1>2, <3>1, <3>2 DEF Sup!Alive
  <2> QED
    BY <2>1 DEF Sup!NoExitLost
<1>11. ScopeInv'
  BY DEF ScopeInv, Sup!Covering
<1> QED
  BY <1>5, <1>6, <1>7, <1>8, <1>9, <1>10, <1>11

\* An exit goes to the end of the queue with the thread.
LEMMA ReportKeeps ==
  ASSUME Sup!SupervisorConstants, SupervisorInv, NEW c \in Sup!Children, NEW g \in Sup!Gens,
         Sup!Report(c, g)
  PROVE  SupervisorInv'
<1> USE DEF SupervisorInv
<1> DEFINE e == [id |-> c, gen |-> g, reason |-> thr[c][g]]
<1>1. /\ thr[c][g] \in {"stopped", "crashed"}
      /\ supInbox' = Append(supInbox, e) /\ thr' = [thr EXCEPT ![c][g] = "exited"]
      /\ UNCHANGED <<strategy, spc, cur, from, ending, recent, supGen, join, restarts, stat,
                     stopq, now, exits, supShutdown, events>>
  BY DEF Sup!Report, Sup!loop, Sup!child
<1>2. g = supGen[c] /\ join[c] /\ supGen[c] > 0
  BY <1>1, LiveIsCurrent DEF Sup!Alive
<1>3. e \in Sup!Exit /\ e # Sup!Shutdown
  BY <1>1 DEF Sup!Exit, Sup!Shutdown, Sup!Children, Sup!SupervisorConstants
<1>4. /\ thr' \in [Sup!Children -> [Sup!Gens -> Sup!ThreadState]] /\ thr'[c][g] = "exited"
      /\ \A d \in Sup!Children, h \in Sup!Gens : d # c \/ h # g => thr'[d][h] = thr[d][h]
  BY <1>1 DEF Sup!TypeOK, Sup!ThreadState
<1>5. /\ supInbox' \in Seq(Sup!Exit \cup {Sup!Shutdown}) /\ Len(supInbox') = Len(supInbox) + 1
      /\ \A i \in 1..Len(supInbox) : supInbox'[i] = supInbox[i]
      /\ supInbox'[Len(supInbox')] = e /\ Len(supInbox) \in Nat
  <2>1. supInbox \in Seq(Sup!Exit \cup {Sup!Shutdown}) /\ e \in Sup!Exit \cup {Sup!Shutdown}
    BY <1>3 DEF Sup!TypeOK
  <2> HIDE DEF e
  <2> QED
    BY <1>1, <2>1
<1>6. Sup!TypeOK'
  BY <1>1, <1>4, <1>5 DEF Sup!TypeOK
<1>7. ThreadsInv'
  BY <1>1, <1>2, <1>4 DEF ThreadsInv
<1>8. Sup!StatusTruth'
  <2>1. \A d \in Sup!Children \ {c} : supGen[d] > 0 => thr'[d][supGen[d]] = thr[d][supGen[d]]
    <3> TAKE d \in Sup!Children \ {c}
    <3> HAVE supGen[d] > 0
    <3>1. supGen[d] \in Sup!Gens
      BY DEF Sup!TypeOK, Sup!Gens
    <3> QED
      BY <1>4, <3>1
  <2> QED
    BY <1>1, <1>2, <1>4, <2>1 DEF Sup!StatusTruth
<1>9. LoopInv'
  BY <1>1 DEF LoopInv, Sup!Running
<1>10. \A i \in 1..Len(supInbox) : supInbox[i] # Sup!Shutdown => supInbox[i].id # c \/ supInbox[i].gen # g
  BY <1>1 DEF QueueInv, TellsTrue
<1>11. QueueInv'
  <2> SUFFICES ASSUME NEW i \in 1..Len(supInbox'), supInbox'[i] # Sup!Shutdown
               PROVE  TellsTrue(i)' /\ ToldOnce(i)' /\ ToReap(i)'
    BY DEF QueueInv
  <2>1. CASE i = Len(supInbox')
    <3>1. supInbox'[i].id = c /\ supInbox'[i].gen = g
      BY <1>5, <2>1
    <3>2. \A j \in 1..Len(supInbox) : supInbox'[j].id = c /\ supInbox'[j].gen = g => FALSE
      <4> TAKE j \in 1..Len(supInbox)
      <4>1. CASE supInbox[j] = Sup!Shutdown
        BY <1>5, <4>1 DEF Sup!Shutdown, Sup!Children, Sup!SupervisorConstants
      <4>2. CASE supInbox[j] # Sup!Shutdown
        BY <1>5, <1>10, <4>2
      <4> QED
        BY <4>1, <4>2
    <3> QED
      BY <1>1, <1>2, <1>4, <1>5, <2>1, <3>1, <3>2 DEF TellsTrue, ToldOnce, ToReap
  <2>2. CASE i # Len(supInbox')
    <3>1. i \in 1..Len(supInbox) /\ supInbox'[i] = supInbox[i]
      BY <1>5, <2>2
    <3>2. supInbox[i] \in Sup!Exit
      BY <2>2, <3>1 DEF Sup!TypeOK
    <3>3. thr'[supInbox[i].id][supInbox[i].gen] = "exited"
      BY <1>4, <1>10, <2>2, <3>1, <3>2 DEF QueueInv, TellsTrue, Sup!Exit
    <3>4. \A j \in 1..Len(supInbox') :
            supInbox'[j].id = supInbox[i].id /\ supInbox'[j].gen = supInbox[i].gen => i = j
      <4> TAKE j \in 1..Len(supInbox')
      <4>1. CASE j = Len(supInbox')
        BY <1>5, <1>10, <3>1, <4>1
      <4>2. CASE j # Len(supInbox')
        <5>1. j \in 1..Len(supInbox) /\ supInbox'[j] = supInbox[j]
          BY <1>5, <4>2
        <5> QED
          BY <2>2, <3>1, <5>1 DEF QueueInv, ToldOnce
      <4> QED
        BY <4>1, <4>2
    <3> QED
      BY <1>1, <2>2, <3>1, <3>3, <3>4 DEF QueueInv, TellsTrue, ToldOnce, ToReap, Sup!Running
  <2> QED
    BY <2>1, <2>2
<1>12. Sup!NoExitLost'
  <2> SUFFICES ASSUME NEW d \in Sup!Children, join[d], ~Sup!Alive(d, supGen[d])'
               PROVE  \/ \E i \in 1..Len(supInbox') : supInbox'[i].id = d /\ supInbox'[i].gen = supGen[d]
                      \/ spc \in {"stopping", "joining"} /\ from <= d /\ d <= cur
    BY <1>1 DEF Sup!NoExitLost
  <2>1. CASE d = c
    BY <1>2, <1>5, <2>1
  <2>2. CASE d # c
    <3>1. supGen[d] \in Sup!Gens
      BY DEF Sup!TypeOK, ThreadsInv, Sup!Gens
    <3>2. ~Sup!Alive(d, supGen[d])
      BY <1>1, <1>4, <2>2, <3>1 DEF Sup!Alive
    <3>3. CASE \E i \in 1..Len(supInbox) : supInbox[i].id = d /\ supInbox[i].gen = supGen[d]
      <4>1. PICK i \in 1..Len(supInbox) : supInbox[i].id = d /\ supInbox[i].gen = supGen[d]
        BY <3>3
      <4>2. i \in 1..Len(supInbox') /\ supInbox'[i] = supInbox[i]
        BY <1>5
      <4> QED
        BY <4>1, <4>2
    <3> QED
      BY <3>2, <3>3 DEF Sup!NoExitLost
  <2> QED
    BY <2>1, <2>2
<1>13. ScopeInv'
  BY <1>1 DEF ScopeInv, Sup!Covering
<1> QED
  BY <1>6, <1>7, <1>8, <1>9, <1>11, <1>12, <1>13

(***************************************************************************)
(* The queue.                                                              *)
(***************************************************************************)

\* Taking the head leaves the rest, one place nearer.
LEMMA HeadTaken ==
  ASSUME Sup!TypeOK, supInbox # <<>>, supInbox' = Tail(supInbox)
  PROVE  /\ Len(supInbox) \in Nat \ {0} /\ Head(supInbox) = supInbox[1]
         /\ supInbox' \in Seq(Sup!Exit \cup {Sup!Shutdown}) /\ Len(supInbox') = Len(supInbox) - 1
         /\ \A i \in 1..Len(supInbox') : i + 1 \in 1..Len(supInbox) /\ supInbox'[i] = supInbox[i + 1]
  BY DEF Sup!TypeOK

\* What the queue tells of the threads stays true as its head is taken.
LEMMA TailTells ==
  ASSUME Sup!TypeOK, QueueInv, supInbox # <<>>, supInbox' = Tail(supInbox), thr' = thr,
         NEW i \in 1..Len(supInbox'), supInbox'[i] # Sup!Shutdown
  PROVE  TellsTrue(i)' /\ ToldOnce(i)' /\ ToReap(i + 1)
<1>1. /\ Len(supInbox) \in Nat \ {0} /\ Len(supInbox') = Len(supInbox) - 1
      /\ \A k \in 1..Len(supInbox') : k + 1 \in 1..Len(supInbox) /\ supInbox'[k] = supInbox[k + 1]
  BY HeadTaken
<1>2. i + 1 \in 1..Len(supInbox) /\ supInbox[i + 1] # Sup!Shutdown
  BY <1>1
<1>3. TellsTrue(i + 1) /\ ToldOnce(i + 1) /\ ToReap(i + 1)
  BY <1>2 DEF QueueInv
<1>4. TellsTrue(i)'
  BY <1>1, <1>3 DEF TellsTrue
<1>5. ToldOnce(i)'
  <2> SUFFICES ASSUME NEW j \in 1..Len(supInbox'),
                      supInbox'[j].id = supInbox'[i].id, supInbox'[j].gen = supInbox'[i].gen
               PROVE  i = j
    BY DEF ToldOnce
  <2>1. i + 1 = j + 1
    BY <1>1, <1>3 DEF ToldOnce
  <2> QED
    BY <2>1
<1> QED
  BY <1>3, <1>4, <1>5

\* A dead child the head does not announce is announced behind it.
LEMMA TailAnnounces ==
  ASSUME Sup!TypeOK, supInbox # <<>>, supInbox' = Tail(supInbox), NEW c \in Sup!Children,
         Head(supInbox).id # c \/ Head(supInbox).gen # supGen[c],
         \E i \in 1..Len(supInbox) : supInbox[i].id = c /\ supInbox[i].gen = supGen[c]
  PROVE  \E i \in 1..Len(supInbox') : supInbox'[i].id = c /\ supInbox'[i].gen = supGen[c]
<1>1. PICK i \in 1..Len(supInbox) : supInbox[i].id = c /\ supInbox[i].gen = supGen[c]
  OBVIOUS
<1>2. /\ Len(supInbox) \in Nat \ {0} /\ Head(supInbox) = supInbox[1] /\ Len(supInbox') = Len(supInbox) - 1
      /\ \A k \in 1..Len(supInbox') : supInbox'[k] = supInbox[k + 1]
  BY HeadTaken
<1>3. i - 1 \in 1..Len(supInbox') /\ supInbox'[i - 1] = supInbox[i]
  BY <1>1, <1>2
<1> QED
  BY <1>1, <1>3

\* The shutdown command starts the loop over every child.
LEMMA RecvShutdownKeeps ==
  ASSUME Sup!SupervisorConstants, SupervisorInv, Sup!RecvShutdown
  PROVE  SupervisorInv'
<1> USE DEF SupervisorInv
<1>1. /\ spc = "recv" /\ supInbox # <<>> /\ Head(supInbox) = Sup!Shutdown /\ supInbox' = Tail(supInbox)
      /\ spc' = "stopping" /\ cur' = N /\ from' = 1 /\ ending' = "SUP_STOPPED"
      /\ UNCHANGED <<strategy, recent, supGen, join, restarts, stat, thr, stopq, now, exits,
                     supShutdown, events>>
  BY DEF Sup!RecvShutdown, Sup!child
<1>2. Sup!TypeOK'
  <2>1. supInbox' \in Seq(Sup!Exit \cup {Sup!Shutdown})
    BY <1>1, HeadTaken
  <2>2. 1 \in Sup!Children /\ N \in Sup!Children
    BY DEF Sup!Children, Sup!SupervisorConstants
  <2> QED
    BY <1>1, <2>1, <2>2 DEF Sup!TypeOK, Sup!SupPc
<1>3. ThreadsInv' /\ Sup!StatusTruth'
  BY <1>1 DEF ThreadsInv, Sup!StatusTruth
<1>4. LoopInv'
  BY <1>1 DEF LoopInv, Sup!Running, Sup!Children, Sup!SupervisorConstants
<1>5. QueueInv'
  <2> SUFFICES ASSUME NEW i \in 1..Len(supInbox'), supInbox'[i] # Sup!Shutdown
               PROVE  TellsTrue(i)' /\ ToldOnce(i)' /\ ToReap(i)'
    BY DEF QueueInv
  <2>1. TellsTrue(i)' /\ ToldOnce(i)' /\ ToReap(i + 1)
    BY <1>1, TailTells
  <2>2. supInbox'[i] = supInbox[i + 1]
    BY <1>1, HeadTaken
  <2> QED
    BY <1>1, <2>1, <2>2 DEF ToReap, Sup!Running
<1>6. Sup!NoExitLost'
  <2> SUFFICES ASSUME NEW c \in Sup!Children PROVE from' <= c /\ c <= cur'
    BY <1>1 DEF Sup!NoExitLost
  <2> QED
    BY <1>1 DEF Sup!Children, Sup!SupervisorConstants
<1>7. ScopeInv'
  BY <1>1 DEF ScopeInv
<1> QED
  BY <1>2, <1>3, <1>4, <1>5, <1>6, <1>7

\* An exit of a generation replaced since is dropped.
LEMMA RecvStaleKeeps ==
  ASSUME Sup!SupervisorConstants, SupervisorInv, Sup!RecvStale
  PROVE  SupervisorInv'
<1> USE DEF SupervisorInv
<1>1. /\ spc = "recv" /\ supInbox # <<>> /\ Sup!Stale(Head(supInbox)) /\ supInbox' = Tail(supInbox)
      /\ UNCHANGED <<strategy, spc, cur, from, ending, recent, supGen, join, restarts, stat,
                     thr, stopq, now, exits, supShutdown, events>>
  BY DEF Sup!RecvStale, Sup!loop, Sup!child
<1>2. Sup!TypeOK'
  BY <1>1, HeadTaken DEF Sup!TypeOK
<1>3. ThreadsInv' /\ Sup!StatusTruth'
  BY <1>1 DEF ThreadsInv, Sup!StatusTruth
<1>4. LoopInv'
  BY <1>1 DEF LoopInv, Sup!Running
<1>5. QueueInv'
  <2> SUFFICES ASSUME NEW i \in 1..Len(supInbox'), supInbox'[i] # Sup!Shutdown
               PROVE  TellsTrue(i)' /\ ToldOnce(i)' /\ ToReap(i)'
    BY DEF QueueInv
  <2>1. TellsTrue(i)' /\ ToldOnce(i)' /\ ToReap(i + 1)
    BY <1>1, TailTells
  <2>2. supInbox'[i] = supInbox[i + 1]
    BY <1>1, HeadTaken
  <2> QED
    BY <1>1, <2>1, <2>2 DEF ToReap, Sup!Running
<1>6. Sup!NoExitLost'
  <2> SUFFICES ASSUME NEW c \in Sup!Children, join[c], ~Sup!Alive(c, supGen[c])
               PROVE  \E i \in 1..Len(supInbox') : supInbox'[i].id = c /\ supInbox'[i].gen = supGen[c]
    BY <1>1 DEF Sup!NoExitLost, Sup!Alive
  <2>1. \E i \in 1..Len(supInbox) : supInbox[i].id = c /\ supInbox[i].gen = supGen[c]
    BY <1>1 DEF Sup!NoExitLost
  <2> QED
    BY <1>1, <2>1, TailAnnounces DEF Sup!Stale
<1>7. ScopeInv'
  BY <1>1 DEF ScopeInv, Sup!Covering
<1> QED
  BY <1>2, <1>3, <1>4, <1>5, <1>6, <1>7

(***************************************************************************)
(* The reap, and the loops over the group.                                 *)
(***************************************************************************)

\* The instants the window keeps are a suffix of those there were.
LEMMA RecentTyped ==
  ASSUME Sup!TypeOK
  PROVE  Sup!Recent \in Seq(Nat)
<1> DEFINE r == Append(recent, now)
           popped == {k \in 1..Len(r) : \A j \in 1..k : now - r[j] > Window}
<1>1. now \in Nat /\ r \in Seq(Nat) /\ Len(r) \in Nat
  <2>1. now \in Nat /\ recent \in Seq(Nat)
    BY DEF Sup!TypeOK
  <2> QED
    BY <2>1
<1>2. Cardinality(popped) \in Nat
  <2>1. IsFiniteSet(1..Len(r))
    BY <1>1, FS_Interval
  <2>2. IsFiniteSet(popped)
    BY <2>1, FS_Subset
  <2> QED
    BY <2>2, FS_CardinalityType
<1>3. Sup!Recent = SubSeq(r, Cardinality(popped) + 1, Len(r))
  BY SameCounting DEF Sup!Recent
<1> HIDE DEF r, popped
<1> QED
  BY <1>1, <1>2, <1>3

\* The group of a restart event: one more event covers its children.
LEMMA OneMoreEvent ==
  ASSUME Sup!TypeOK, NEW e \in Sup!Children, events' = Append(events, e), strategy' = strategy,
         NEW c \in Sup!Children
  PROVE  /\ Cardinality(Sup!Covering(c)) \in Nat
         /\ Cardinality(Sup!Covering(c))'
              = Cardinality(Sup!Covering(c)) + (IF c >= Sup!RangeStart(e) THEN 1 ELSE 0)
<1>1. /\ Len(events) \in Nat /\ Len(events') = Len(events) + 1
      /\ \A i \in 1..Len(events) : events'[i] = events[i]
      /\ events'[Len(events) + 1] = e
  BY DEF Sup!TypeOK
<1>2. IsFiniteSet(Sup!Covering(c))
  <2>1. IsFiniteSet(1..Len(events))
    BY <1>1, FS_Interval
  <2> QED
    BY <2>1, FS_Subset DEF Sup!Covering
<1>3. Cardinality(Sup!Covering(c)) \in Nat
  BY <1>2, FS_CardinalityType
<1>4. c >= Sup!RangeStart(e) <=> strategy = "OneForAll" \/ e <= c
  BY DEF Sup!RangeStart, Sup!Children
<1>5. CASE c >= Sup!RangeStart(e)
  <2>1. Sup!Covering(c)' = Sup!Covering(c) \cup {Len(events) + 1}
    BY <1>1, <1>4, <1>5 DEF Sup!Covering
  <2>2. Len(events) + 1 \notin Sup!Covering(c)
    BY <1>1 DEF Sup!Covering
  <2>3. Cardinality(Sup!Covering(c) \cup {Len(events) + 1}) = Cardinality(Sup!Covering(c)) + 1
    BY <1>2, <2>2, FS_AddElement
  <2> QED
    BY <1>3, <1>5, <2>1, <2>3
<1>6. CASE ~(c >= Sup!RangeStart(e))
  <2>1. Sup!Covering(c)' = Sup!Covering(c)
    BY <1>1, <1>4, <1>6 DEF Sup!Covering
  <2> QED
    BY <1>3, <1>6, <2>1
<1> QED
  BY <1>3, <1>5, <1>6

\* The child is reaped, and left down, or the loop over its group begins.
LEMMA RecvExitKeeps ==
  ASSUME Sup!SupervisorConstants, SupervisorInv, Sup!RecvExit
  PROVE  SupervisorInv'
<1> USE DEF SupervisorInv
<1> DEFINE e == Head(supInbox)
<1>1. /\ spc = "recv" /\ supInbox # <<>> /\ e # Sup!Shutdown /\ e.gen = supGen[e.id]
      /\ ~Sup!Alive(e.id, supGen[e.id]) /\ supInbox' = Tail(supInbox)
      /\ join' = [join EXCEPT ![e.id] = FALSE]
      /\ UNCHANGED <<strategy, supGen, restarts, stat, thr, stopq, now, exits, supShutdown>>
  BY DEF Sup!RecvExit, Sup!Stale
<1>2. \/ UNCHANGED <<spc, cur, from, ending, recent, events>>
      \/ /\ events' = Append(events, e.id) /\ recent' = Sup!Recent
         /\ spc' = "stopping" /\ cur' = N
         /\ \/ from' = 1 /\ ending' = "SUP_FAILED"
            \/ from' = Sup!RangeStart(e.id) /\ ending' = ending
  BY DEF Sup!RecvExit, Sup!loop
<1>3. /\ Len(supInbox) \in Nat \ {0} /\ e = supInbox[1]
      /\ supInbox' \in Seq(Sup!Exit \cup {Sup!Shutdown}) /\ Len(supInbox') = Len(supInbox) - 1
      /\ \A i \in 1..Len(supInbox') : i + 1 \in 1..Len(supInbox) /\ supInbox'[i] = supInbox[i + 1]
  BY <1>1, HeadTaken
<1>4. e \in Sup!Exit /\ e.id \in Sup!Children /\ e.gen \in Sup!Gens
  <2>1. e \in Sup!Exit \cup {Sup!Shutdown}
    BY <1>3 DEF Sup!TypeOK
  <2> QED
    BY <1>1, <2>1 DEF Sup!Exit
<1> HIDE DEF e
<1>6. 1 \in Sup!Children /\ N \in Sup!Children /\ Sup!RangeStart(e.id) \in Sup!Children /\ N \in Nat
  BY <1>4 DEF Sup!Children, Sup!SupervisorConstants, Sup!RangeStart
<1>7. Sup!TypeOK'
  <2>1. join' \in [Sup!Children -> BOOLEAN] /\ Sup!Recent \in Seq(Nat)
    BY <1>1, RecentTyped DEF Sup!TypeOK
  <2>2. Append(events, e.id) \in Seq(Sup!Children)
    BY <1>4 DEF Sup!TypeOK
  <2> QED
    BY <1>1, <1>2, <1>3, <1>6, <2>1, <2>2 DEF Sup!TypeOK, Sup!SupPc
<1>8. thr[e.id][supGen[e.id]] = "exited"
  BY <1>1, <1>3 DEF QueueInv, TellsTrue
<1>9. ThreadsInv'
  BY <1>1, <1>8 DEF ThreadsInv, Sup!TypeOK
<1>10. Sup!StatusTruth'
  BY <1>1 DEF Sup!StatusTruth
<1>11. LoopInv'
  <2>1. \A c \in Sup!Children : c <= N
    BY <1>6 DEF Sup!Children
  <2>2. ending = "none" /\ \A c \in Sup!Children : supGen[c] > 0
    BY <1>1 DEF LoopInv
  <2>3. CASE UNCHANGED <<spc, cur, from, ending, recent, events>>
    BY <1>1, <2>2, <2>3 DEF LoopInv, Sup!Running
  <2>4. CASE /\ spc' = "stopping" /\ cur' = N
             /\ \/ from' = 1
                \/ from' = Sup!RangeStart(e.id) /\ ending' = ending
    <3>1. from' <= N /\ \A c \in Sup!Children : ~(c > N)
      BY <1>6, <2>1, <2>4 DEF Sup!Children
    <3>2. ending' # "none" => from' = 1
      BY <2>2, <2>4
    <3> QED
      BY <1>1, <2>2, <2>4, <3>1, <3>2 DEF LoopInv, Sup!Running
  <2> QED
    BY <1>2, <2>3, <2>4
<1>12. QueueInv'
  <2> SUFFICES ASSUME NEW i \in 1..Len(supInbox'), supInbox'[i] # Sup!Shutdown
               PROVE  TellsTrue(i)' /\ ToldOnce(i)' /\ ToReap(i)'
    BY DEF QueueInv
  <2>1. TellsTrue(i)' /\ ToldOnce(i)' /\ ToReap(i + 1)
    BY <1>1, TailTells
  <2>2. ToldOnce(1)
    BY <1>1, <1>3 DEF QueueInv
  <2>3. supInbox'[i].id # e.id \/ supInbox'[i].gen # e.gen
    BY <1>3, <2>2 DEF ToldOnce
  <2>4. supInbox'[i].gen = supGen[supInbox'[i].id] => join'[supInbox'[i].id]
    <3> SUFFICES ASSUME supInbox'[i].gen = supGen[supInbox'[i].id]
                 PROVE  join'[supInbox'[i].id]
      OBVIOUS
    <3>1. supInbox'[i].id # e.id
      BY <1>1, <2>3
    <3>2. join[supInbox'[i].id]
      BY <1>1, <1>3, <2>1 DEF ToReap, Sup!Running
    <3>3. supInbox'[i].id \in Sup!Children
      BY <1>3 DEF Sup!Exit
    <3> QED
      BY <1>1, <3>1, <3>2, <3>3 DEF Sup!TypeOK
  <2> QED
    BY <1>1, <2>1, <2>4 DEF ToReap
<1>13. Sup!NoExitLost'
  <2> SUFFICES ASSUME NEW c \in Sup!Children, join'[c], ~Sup!Alive(c, supGen[c])
               PROVE  \E i \in 1..Len(supInbox') : supInbox'[i].id = c /\ supInbox'[i].gen = supGen[c]
    BY <1>1 DEF Sup!NoExitLost, Sup!Alive
  <2>1. c # e.id /\ join[c]
    BY <1>1, <1>4 DEF Sup!TypeOK
  <2>2. \E i \in 1..Len(supInbox) : supInbox[i].id = c /\ supInbox[i].gen = supGen[c]
    BY <1>1, <2>1 DEF Sup!NoExitLost
  <2> QED
    BY <1>1, <2>1, <2>2, TailAnnounces DEF e
<1>14. ScopeInv'
  <2> SUFFICES ASSUME ending' = "none", NEW c \in Sup!Children
               PROVE  restarts[c] + (IF \/ spc' \in {"stopping", "joining"} /\ c >= from'
                                        \/ spc' = "starting" /\ c >= cur' /\ supGen[c] > 0
                                     THEN 1 ELSE 0)
                        = Cardinality(Sup!Covering(c))'
    BY <1>1 DEF ScopeInv
  <2>1. restarts[c] \in Nat /\ restarts[c] = Cardinality(Sup!Covering(c))
    BY <1>1, <1>2 DEF ScopeInv, LoopInv, Sup!TypeOK
  <2>2. CASE UNCHANGED <<spc, cur, from, ending, recent, events>>
    BY <1>1, <2>1, <2>2 DEF Sup!Covering
  <2>3. CASE /\ events' = Append(events, e.id) /\ spc' = "stopping"
             /\ from' = Sup!RangeStart(e.id)
    BY <1>1, <1>4, <2>1, <2>3, OneMoreEvent
  <2> QED
    BY <1>2, <2>2, <2>3
<1> QED
  BY <1>7, <1>9, <1>10, <1>11, <1>12, <1>13, <1>14

\* The child the loop is at is down and not to be joined any more.
LEMMA LoopGoesOn ==
  ASSUME Sup!SupervisorConstants, SupervisorInv, spc \in {"stopping", "joining"},
         ~Sup!Alive(cur, supGen[cur]), join' = [join EXCEPT ![cur] = FALSE], Sup!StopLoopNext,
         UNCHANGED <<strategy, from, ending, supInbox, recent, supGen, restarts, stat, thr,
                     stopq, now, exits, supShutdown, events>>
  PROVE  SupervisorInv'
<1> USE DEF SupervisorInv
<1>1. /\ cur \in Sup!Children /\ from \in Sup!Children /\ from <= cur /\ supGen[cur] > 0
      /\ supGen[cur] \in Sup!Gens /\ \A c \in Sup!Children : supGen[c] > 0
      /\ \A c \in Sup!Children : c > cur => ~join[c]
  BY DEF LoopInv, Sup!TypeOK, Sup!Gens
<1>2. cur \in Nat /\ from \in Nat /\ from >= 1 /\ N \in Nat /\ Sup!Children \subseteq Nat
  BY <1>1 DEF Sup!Children, Sup!SupervisorConstants
<1>3. \/ cur > from /\ spc' = "stopping" /\ cur' = cur - 1
      \/ cur = from /\ ending = "none" /\ spc' = "starting" /\ cur' = from
      \/ cur = from /\ ending # "none" /\ spc' = ending /\ cur' = cur /\ ~Sup!Running'
  BY <1>1, <1>2 DEF Sup!StopLoopNext, Sup!TypeOK, Sup!Running
<1>4. cur' \in Sup!Children /\ spc' \in Sup!SupPc /\ (ending = "none" \/ ~Sup!Running' \/ spc' = "stopping")
  BY <1>1, <1>2, <1>3 DEF Sup!SupPc, Sup!Running, Sup!Children, Sup!TypeOK
<1>5. thr[cur][supGen[cur]] = "exited"
  BY <1>1 DEF Sup!Alive, ThreadsInv, Sup!TypeOK, Sup!ThreadState
<1>6. join' \in [Sup!Children -> BOOLEAN] /\ \A c \in Sup!Children : join'[c] <=> c # cur /\ join[c]
  BY <1>1 DEF Sup!TypeOK
<1>7. Sup!TypeOK'
  BY <1>4, <1>6 DEF Sup!TypeOK
<1>8. ThreadsInv'
  BY <1>1, <1>5, <1>6 DEF ThreadsInv
<1>9. Sup!StatusTruth'
  BY DEF Sup!StatusTruth
<1>10. \A c \in Sup!Children : c >= cur => ~join'[c]
  BY <1>1, <1>2, <1>6
<1>11. LoopInv'
  <2>1. CASE cur > from /\ spc' = "stopping" /\ cur' = cur - 1
    <3>1. from <= cur' /\ \A c \in Sup!Children : c > cur' => ~join'[c]
      BY <1>2, <1>10, <2>1
    <3> QED
      BY <1>1, <2>1, <3>1 DEF LoopInv, Sup!Running
  <2>2. CASE cur = from /\ ending = "none" /\ spc' = "starting" /\ cur' = from
    BY <1>1, <1>10, <2>2 DEF LoopInv, Sup!Running
  <2>3. CASE cur = from /\ ending # "none" /\ spc' = ending /\ cur' = cur
    <3>1. from = 1 /\ spc' \in {"SUP_STOPPED", "SUP_FAILED"}
      BY <2>3 DEF LoopInv, Sup!TypeOK
    <3>2. \A c \in Sup!Children : ~join'[c]
      BY <1>10, <2>3, <3>1 DEF Sup!Children
    <3> QED
      BY <2>3, <3>1, <3>2 DEF LoopInv, Sup!Running
  <2> QED
    BY <1>3, <2>1, <2>2, <2>3
<1>12. QueueInv'
  <2> SUFFICES ASSUME NEW i \in 1..Len(supInbox), supInbox[i] # Sup!Shutdown
               PROVE  TellsTrue(i)' /\ ToldOnce(i)' /\ ToReap(i)'
    BY DEF QueueInv
  <2>1. TellsTrue(i) /\ ToldOnce(i) /\ ToReap(i)
    BY DEF QueueInv
  <2>2. supInbox[i].id \in Sup!Children
    BY DEF Sup!TypeOK, Sup!Exit
  <2>3. supInbox[i].gen = supGen[supInbox[i].id] => join[supInbox[i].id] \/ supInbox[i].id > cur
    BY <2>1 DEF ToReap, Sup!Running
  <2>4. \A c \in Sup!Children : join[c] \/ c > cur => join'[c] \/ c >= cur
    BY <1>1, <1>2, <1>6
  <2>5. \A c \in Sup!Children : c >= cur => \/ ~Sup!Running'
                                            \/ spc' = "stopping" /\ c > cur'
                                            \/ spc' = "starting" /\ c >= cur'
    BY <1>1, <1>2, <1>3, <1>4
  <2>6. ToReap(i)'
    BY <2>2, <2>3, <2>4, <2>5 DEF ToReap
  <2> QED
    BY <2>1, <2>6 DEF TellsTrue, ToldOnce
<1>13. Sup!NoExitLost'
  <2> SUFFICES ASSUME NEW c \in Sup!Children, join'[c], ~Sup!Alive(c, supGen[c])
               PROVE  \/ \E i \in 1..Len(supInbox) : supInbox[i].id = c /\ supInbox[i].gen = supGen[c]
                      \/ spc' \in {"stopping", "joining"} /\ from <= c /\ c <= cur'
    BY DEF Sup!NoExitLost, Sup!Alive
  <2>1. join[c] /\ c # cur
    BY <1>6
  <2>2. c < cur
    BY <1>1, <1>2, <2>1
  <2>3. CASE from <= c
    BY <1>2, <1>3, <2>2, <2>3
  <2> QED
    BY <2>1, <2>3 DEF Sup!NoExitLost
<1>14. ScopeInv'
  <2> SUFFICES ASSUME ending = "none", NEW c \in Sup!Children
               PROVE  restarts[c] + (IF \/ spc' \in {"stopping", "joining"} /\ c >= from
                                        \/ spc' = "starting" /\ c >= cur' /\ supGen[c] > 0
                                     THEN 1 ELSE 0)
                        = Cardinality(Sup!Covering(c))
    BY DEF ScopeInv, Sup!Covering
  <2> QED
    BY <1>1, <1>3 DEF ScopeInv
<1> QED
  BY <1>7, <1>8, <1>9, <1>11, <1>12, <1>13, <1>14

LEMMA StopSkipKeeps ==
  ASSUME Sup!SupervisorConstants, SupervisorInv, Sup!StopSkip
  PROVE  SupervisorInv'
<1>1. spc = "stopping" /\ cur \in Sup!Children /\ supGen[cur] > 0 /\ ~join[cur]
  BY DEF SupervisorInv, Sup!StopSkip, Sup!TypeOK, LoopInv
<1>2. thr[cur][supGen[cur]] = "exited"
  BY <1>1 DEF SupervisorInv, ThreadsInv
<1>3. join' = [join EXCEPT ![cur] = FALSE]
  BY <1>1 DEF SupervisorInv, Sup!StopSkip, Sup!child, Sup!TypeOK
<1> QED
  BY <1>1, <1>2, <1>3, LoopGoesOn DEF Sup!StopSkip, Sup!child, Sup!Alive

LEMMA StopJoinKeeps ==
  ASSUME Sup!SupervisorConstants, SupervisorInv, Sup!StopJoin
  PROVE  SupervisorInv'
BY LoopGoesOn DEF Sup!StopJoin

LEMMA StopSendKeeps ==
  ASSUME Sup!SupervisorConstants, SupervisorInv, Sup!StopSend
  PROVE  SupervisorInv'
<1> USE DEF SupervisorInv
<1>1. /\ spc = "stopping" /\ join[cur] /\ stopq' = stopq \cup {<<cur, supGen[cur]>>}
      /\ spc' = "joining"
      /\ UNCHANGED <<strategy, cur, from, ending, supInbox, recent, supGen, join, restarts,
                     stat, thr, now, exits, supShutdown, events>>
  BY DEF Sup!StopSend, Sup!child
<1>2. supGen[cur] \in Sup!Gens
  BY <1>1 DEF LoopInv, Sup!TypeOK, Sup!Gens
<1>3. Sup!TypeOK'
  BY <1>1, <1>2 DEF Sup!TypeOK, Sup!SupPc
<1>4. ThreadsInv' /\ Sup!StatusTruth' /\ LoopInv'
  BY <1>1 DEF ThreadsInv, Sup!StatusTruth, LoopInv, Sup!Running
<1>5. QueueInv'
  BY <1>1 DEF QueueInv, TellsTrue, ToldOnce, ToReap, Sup!Running
<1>6. Sup!NoExitLost' /\ ScopeInv'
  BY <1>1 DEF Sup!NoExitLost, Sup!Alive, ScopeInv, Sup!Covering
<1> QED
  BY <1>3, <1>4, <1>5, <1>6

\* A child of the group is started: a generation nobody has used.
LEMMA StartChildKeeps ==
  ASSUME Sup!SupervisorConstants, SupervisorInv, Sup!StartChild
  PROVE  SupervisorInv'
<1> USE DEF SupervisorInv
<1> DEFINE g == supGen[cur] + 1
<1>1. /\ spc = "starting" /\ g \in Sup!Gens /\ supGen' = [supGen EXCEPT ![cur] = g]
      /\ thr' = [thr EXCEPT ![cur][g] = "boot"]
      /\ restarts' = [restarts EXCEPT ![cur] = IF supGen[cur] > 0 THEN @ + 1 ELSE @]
      /\ stat' = [stat EXCEPT ![cur] = "running"] /\ join' = [join EXCEPT ![cur] = TRUE]
      /\ \/ cur = N /\ spc' = "recv" /\ cur' = cur
         \/ cur # N /\ spc' = "starting" /\ cur' = cur + 1
      /\ UNCHANGED <<strategy, from, ending, supInbox, recent, stopq, now, exits, supShutdown,
                     events>>
  BY DEF Sup!StartChild
<1>2. /\ cur \in Sup!Children /\ cur \in Nat /\ N \in Nat /\ cur <= N /\ Sup!Children \subseteq Nat
      /\ \A c \in Sup!Children : c <= N
  BY DEF Sup!TypeOK, Sup!Children, Sup!SupervisorConstants
<1>3. /\ supGen[cur] \in Nat /\ Sup!Gens \subseteq Nat \ {0} /\ ~join[cur] /\ ending = "none"
      /\ \A c \in Sup!Children : (c < cur => supGen[c] > 0) /\ (c >= cur => ~join[c])
  <2>1. Sup!Gens \subseteq Nat \ {0}
    BY DEF Sup!Gens, Sup!SupervisorConstants
  <2>2. supGen[cur] \in Nat
    BY <1>2 DEF Sup!TypeOK, Sup!Gens
  <2>3. ending = "none" /\ \A c \in Sup!Children : (c < cur => supGen[c] > 0) /\ (c >= cur => ~join[c])
    BY <1>1 DEF LoopInv
  <2> QED
    BY <1>2, <2>1, <2>2, <2>3
<1>4. thr[cur][g] = "none"
  BY <1>1, <1>2, <1>3 DEF ThreadsInv
<1> HIDE DEF g
<1>5. /\ supGen' \in [Sup!Children -> Sup!Gens \cup {0}] /\ supGen'[cur] = g
      /\ join' \in [Sup!Children -> BOOLEAN] /\ join'[cur]
      /\ stat' \in [Sup!Children -> {"running", "stopped", "crashed"}] /\ stat'[cur] = "running"
      /\ restarts' \in [Sup!Children -> Nat]
      /\ restarts'[cur] = restarts[cur] + (IF supGen[cur] > 0 THEN 1 ELSE 0)
      /\ \A c \in Sup!Children \ {cur} : /\ supGen'[c] = supGen[c] /\ (join'[c] <=> join[c])
                                         /\ stat'[c] = stat[c] /\ restarts'[c] = restarts[c]
  BY <1>1, <1>2 DEF Sup!TypeOK
<1>6. /\ thr' \in [Sup!Children -> [Sup!Gens -> Sup!ThreadState]] /\ thr'[cur][g] = "boot"
      /\ \A c \in Sup!Children, h \in Sup!Gens : c # cur \/ h # g => thr'[c][h] = thr[c][h]
  BY <1>1, <1>2 DEF Sup!TypeOK, Sup!ThreadState
<1>7. Sup!TypeOK'
  <2>1. spc' \in Sup!SupPc /\ cur' \in Sup!Children
    BY <1>1, <1>2 DEF Sup!SupPc, Sup!Children
  <2> QED
    BY <1>1, <1>5, <1>6, <2>1 DEF Sup!TypeOK
<1>8. ThreadsInv'
  <2>1. ASSUME NEW c \in Sup!Children, c # cur
        PROVE  /\ \A h \in Sup!Gens : thr'[c][h] = thr[c][h]
               /\ supGen'[c] = supGen[c] /\ (join'[c] <=> join[c])
               /\ thr'[c][supGen[c]] = thr[c][supGen[c]] \/ ~(supGen[c] > 0)
    BY <1>5, <1>6, <2>1 DEF Sup!TypeOK
  <2>2. \A h \in Sup!Gens : /\ h < g => thr'[cur][h] = "exited"
                            /\ h = g => thr'[cur][h] # "none"
                            /\ h > g => thr'[cur][h] = "none"
    <3> TAKE h \in Sup!Gens
    <3>1. h \in Nat /\ g = supGen[cur] + 1
      BY <1>3 DEF g
    <3>2. CASE h < supGen[cur]
      BY <1>2, <1>3, <1>6, <3>1, <3>2 DEF ThreadsInv
    <3>3. CASE h = supGen[cur]
      <4>1. thr[cur][h] = "exited"
        BY <1>2, <1>3, <3>3 DEF ThreadsInv
      <4> QED
        BY <1>2, <1>3, <1>6, <3>1, <3>3, <4>1
    <3>4. CASE h = g
      BY <1>3, <1>6, <3>1, <3>4
    <3>5. CASE h > g
      BY <1>2, <1>3, <1>6, <3>1, <3>5 DEF ThreadsInv
    <3> QED
      BY <1>3, <3>1, <3>2, <3>3, <3>4, <3>5
  <2>3. g > 0
    BY <1>1, <1>3 DEF g
  <2> QED
    BY <1>2, <1>5, <2>1, <2>2, <2>3 DEF ThreadsInv
<1>9. Sup!StatusTruth'
  <2>1. \A c \in Sup!Children \ {cur} : supGen[c] > 0 => thr'[c][supGen[c]] = thr[c][supGen[c]]
    <3> TAKE c \in Sup!Children \ {cur}
    <3> HAVE supGen[c] > 0
    <3>1. supGen[c] \in Sup!Gens
      BY DEF Sup!TypeOK, Sup!Gens
    <3> QED
      BY <1>6, <3>1
  <2> QED
    BY <1>2, <1>5, <1>6, <2>1 DEF Sup!StatusTruth
<1>10. LoopInv'
  <2>1. g > 0
    BY <1>1, <1>3 DEF g
  <2>2. CASE cur = N /\ spc' = "recv" /\ cur' = cur
    <3>1. \A c \in Sup!Children : supGen'[c] > 0
      BY <1>2, <1>3, <1>5, <2>1, <2>2
    <3> QED
      BY <1>1, <1>3, <2>2, <3>1 DEF LoopInv, Sup!Running
  <2>3. CASE cur # N /\ spc' = "starting" /\ cur' = cur + 1
    <3>1. \A c \in Sup!Children : (c < cur' => supGen'[c] > 0) /\ (c >= cur' => ~join'[c])
      BY <1>2, <1>3, <1>5, <2>1, <2>3
    <3> QED
      BY <1>1, <1>3, <2>3, <3>1 DEF LoopInv, Sup!Running
  <2> QED
    BY <1>1, <2>2, <2>3
<1>11. QueueInv'
  <2> SUFFICES ASSUME NEW i \in 1..Len(supInbox), supInbox[i] # Sup!Shutdown
               PROVE  TellsTrue(i)' /\ ToldOnce(i)' /\ ToReap(i)'
    BY <1>1 DEF QueueInv
  <2>1. TellsTrue(i) /\ ToldOnce(i) /\ ToReap(i)
    BY DEF QueueInv
  <2>2. supInbox[i].id \in Sup!Children /\ supInbox[i].gen \in Sup!Gens
    BY DEF Sup!TypeOK, Sup!Exit
  <2>3. supInbox[i].id # cur \/ supInbox[i].gen # g
    BY <1>4, <2>1 DEF TellsTrue
  <2>4. TellsTrue(i)' /\ ToldOnce(i)'
    BY <1>1, <1>6, <2>1, <2>2, <2>3 DEF TellsTrue, ToldOnce
  <2>5. ToReap(i)'
    <3> DEFINE c == supInbox[i].id
    <3> SUFFICES ASSUME supInbox[i].gen = supGen'[c]
                 PROVE  join'[c] \/ (spc' = "starting" /\ c >= cur')
      BY <1>1 DEF ToReap
    <3>1. c # cur
      BY <1>5, <2>3
    <3>2. join[c] \/ c >= cur
      BY <1>1, <1>5, <2>1, <2>2, <3>1 DEF ToReap, Sup!Running
    <3> HIDE DEF c
    <3>3. c \in Sup!Children /\ c \in Nat /\ c <= N
      BY <1>2, <2>2 DEF c
    <3>4. CASE join[c]
      BY <1>5, <3>1, <3>3, <3>4
    <3>5. CASE c >= cur
      BY <1>1, <1>2, <3>1, <3>3, <3>5
    <3> QED
      BY <3>2, <3>4, <3>5
  <2> QED
    BY <2>4, <2>5
<1>12. Sup!NoExitLost'
  <2> SUFFICES ASSUME NEW c \in Sup!Children, join'[c], ~Sup!Alive(c, supGen[c])'
               PROVE  \E i \in 1..Len(supInbox) : supInbox[i].id = c /\ supInbox[i].gen = supGen'[c]
    BY <1>1 DEF Sup!NoExitLost
  <2>1. c # cur
    BY <1>5, <1>6 DEF Sup!Alive
  <2>2. join[c] /\ supGen'[c] = supGen[c] /\ supGen[c] \in Sup!Gens
    BY <1>5, <2>1 DEF ThreadsInv, Sup!TypeOK, Sup!Gens
  <2>3. ~Sup!Alive(c, supGen[c])
    BY <1>6, <2>1, <2>2 DEF Sup!Alive
  <2> QED
    BY <1>1, <2>2, <2>3 DEF Sup!NoExitLost
<1>13. ScopeInv'
  <2> SUFFICES ASSUME NEW c \in Sup!Children
               PROVE  restarts'[c] + (IF \/ spc' \in {"stopping", "joining"} /\ c >= from'
                                         \/ spc' = "starting" /\ c >= cur' /\ supGen'[c] > 0
                                      THEN 1 ELSE 0)
                        = Cardinality(Sup!Covering(c))
    BY <1>1 DEF ScopeInv, Sup!Covering
  <2>1. restarts[c] + (IF c >= cur /\ supGen[c] > 0 THEN 1 ELSE 0) = Cardinality(Sup!Covering(c))
    BY <1>1, <1>3 DEF ScopeInv
  <2>2. restarts[c] \in Nat
    BY DEF Sup!TypeOK
  <2>3. CASE c = cur
    BY <1>1, <1>2, <1>5, <2>1, <2>2, <2>3
  <2>4. CASE c # cur
    BY <1>1, <1>2, <1>5, <2>1, <2>2, <2>4
  <2> QED
    BY <2>3, <2>4
<1> QED
  BY <1>7, <1>8, <1>9, <1>10, <1>11, <1>12, <1>13

(***************************************************************************)
(* The clients, and the specification.                                     *)
(***************************************************************************)

\* A Stop from a client, or a tick, leaves everything else as it was.
LEMMA ClientKeeps ==
  ASSUME Sup!SupervisorConstants, SupervisorInv,
         stopq' \subseteq Sup!Children \X Sup!Gens, now' \in 0..MaxTime, exits' \in 0..MaxExits,
         UNCHANGED <<strategy, spc, cur, from, ending, supInbox, recent, supGen, join, restarts,
                     stat, thr, supShutdown, events>>
  PROVE  SupervisorInv'
<1> USE DEF SupervisorInv
<1>1. Sup!TypeOK'
  BY DEF Sup!TypeOK
<1>2. ThreadsInv' /\ Sup!StatusTruth' /\ LoopInv'
  BY DEF ThreadsInv, Sup!StatusTruth, LoopInv, Sup!Running
<1>3. QueueInv'
  BY DEF QueueInv, TellsTrue, ToldOnce, ToReap, Sup!Running
<1>4. Sup!NoExitLost' /\ ScopeInv'
  BY DEF Sup!NoExitLost, Sup!Alive, ScopeInv, Sup!Covering
<1> QED
  BY <1>1, <1>2, <1>3, <1>4

\* The shutdown command goes to the end of the queue.
LEMMA RequestShutdownKeeps ==
  ASSUME Sup!SupervisorConstants, SupervisorInv, Sup!RequestShutdown
  PROVE  SupervisorInv'
<1> USE DEF SupervisorInv
<1>1. /\ supShutdown' = TRUE /\ (supInbox' = supInbox \/ supInbox' = Append(supInbox, Sup!Shutdown))
      /\ UNCHANGED <<strategy, spc, cur, from, ending, recent, supGen, join, restarts, stat,
                     thr, stopq, now, exits, events>>
  BY DEF Sup!RequestShutdown, Sup!loop, Sup!child
<1>2. /\ supInbox' \in Seq(Sup!Exit \cup {Sup!Shutdown}) /\ Len(supInbox) \in Nat
      /\ Len(supInbox') \in {Len(supInbox), Len(supInbox) + 1}
      /\ \A i \in 1..Len(supInbox) : supInbox'[i] = supInbox[i]
      /\ \A i \in 1..Len(supInbox') : supInbox'[i] # Sup!Shutdown \/ supInbox'[i].id # 0 => i \in 1..Len(supInbox)
  <2>1. supInbox \in Seq(Sup!Exit \cup {Sup!Shutdown}) /\ Sup!Shutdown.id = 0
    BY DEF Sup!TypeOK, Sup!Shutdown
  <2> QED
    BY <1>1, <2>1
<1>3. Sup!TypeOK'
  BY <1>1, <1>2 DEF Sup!TypeOK
<1>4. ThreadsInv' /\ Sup!StatusTruth' /\ LoopInv'
  BY <1>1 DEF ThreadsInv, Sup!StatusTruth, LoopInv, Sup!Running
<1>5. QueueInv'
  <2> SUFFICES ASSUME NEW i \in 1..Len(supInbox'), supInbox'[i] # Sup!Shutdown
               PROVE  TellsTrue(i)' /\ ToldOnce(i)' /\ ToReap(i)'
    BY DEF QueueInv
  <2>1. i \in 1..Len(supInbox) /\ supInbox'[i] = supInbox[i]
    BY <1>2
  <2>2. TellsTrue(i) /\ ToldOnce(i) /\ ToReap(i)
    BY <2>1 DEF QueueInv
  <2>3. supInbox[i].id # 0
    BY <2>1 DEF Sup!TypeOK, Sup!Exit, Sup!Children, Sup!SupervisorConstants
  <2>4. ToldOnce(i)'
    BY <1>2, <2>1, <2>2, <2>3 DEF ToldOnce
  <2> QED
    BY <1>1, <2>1, <2>2, <2>4 DEF TellsTrue, ToReap, Sup!Running
<1>6. Sup!NoExitLost'
  <2> SUFFICES ASSUME NEW c \in Sup!Children, join[c], ~Sup!Alive(c, supGen[c])
               PROVE  \/ \E i \in 1..Len(supInbox') : supInbox'[i].id = c /\ supInbox'[i].gen = supGen[c]
                      \/ spc \in {"stopping", "joining"} /\ from <= c /\ c <= cur
    BY <1>1 DEF Sup!NoExitLost, Sup!Alive
  <2>1. \A i \in 1..Len(supInbox) : i \in 1..Len(supInbox')
    BY <1>2
  <2> QED
    BY <1>2, <2>1 DEF Sup!NoExitLost
<1>7. ScopeInv'
  BY <1>1 DEF ScopeInv, Sup!Covering
<1> QED
  BY <1>3, <1>4, <1>5, <1>6, <1>7

LEMMA SupervisorInit ==
  ASSUME Sup!SupervisorConstants, Sup!Init
  PROVE  SupervisorInv
<1> USE DEF Sup!Init
<1>1. Sup!Children \subseteq Nat \ {0} /\ 1 \in Sup!Children /\ Sup!Gens \subseteq Nat \ {0}
  BY DEF Sup!Children, Sup!Gens, Sup!SupervisorConstants
<1>2. Sup!TypeOK
  <2>1. now \in 0..MaxTime /\ exits \in 0..MaxExits
    BY DEF Sup!SupervisorConstants
  <2>2. /\ supGen \in [Sup!Children -> Sup!Gens \cup {0}] /\ restarts \in [Sup!Children -> Nat]
        /\ thr \in [Sup!Children -> [Sup!Gens -> Sup!ThreadState]]
    BY DEF Sup!ThreadState
  <2>3. supInbox \in Seq(Sup!Exit \cup {Sup!Shutdown}) /\ recent \in Seq(Nat) /\ events \in Seq(Sup!Children)
    OBVIOUS
  <2> QED
    BY <1>1, <2>1, <2>2, <2>3 DEF Sup!TypeOK, Sup!SupPc
<1>3. ThreadsInv /\ Sup!StatusTruth /\ LoopInv /\ QueueInv /\ Sup!NoExitLost
  BY <1>1 DEF ThreadsInv, Sup!StatusTruth, LoopInv, QueueInv, Sup!NoExitLost, Sup!Running
<1>4. ScopeInv
  <2>1. \A c \in Sup!Children : Sup!Covering(c) = {}
    BY DEF Sup!Covering
  <2>2. Cardinality({}) = 0
    BY FS_EmptySet
  <2>3. ASSUME NEW c \in Sup!Children
        PROVE  restarts[c] + (IF \/ spc \in {"stopping", "joining"} /\ c >= from
                                 \/ spc = "starting" /\ c >= cur /\ supGen[c] > 0
                              THEN 1 ELSE 0) = Cardinality(Sup!Covering(c))
    <3>1. restarts[c] = 0 /\ supGen[c] = 0 /\ spc = "starting" /\ Cardinality(Sup!Covering(c)) = 0
      BY <2>1, <2>2
    <3> QED
      BY <3>1
  <2> QED
    BY <2>3 DEF ScopeInv
<1> QED
  BY <1>2, <1>3, <1>4 DEF SupervisorInv

LEMMA SupervisorNext ==
  ASSUME Sup!SupervisorConstants, SupervisorInv, [Sup!Next]_(Sup!vars)
  PROVE  SupervisorInv'
<1>1. CASE Sup!SupervisorStep
  BY <1>1, StartChildKeeps, RecvShutdownKeeps, RecvStaleKeeps, RecvExitKeeps,
     StopSkipKeeps, StopSendKeeps, StopJoinKeeps DEF Sup!SupervisorStep
<1>2. ASSUME NEW c \in Sup!Children, NEW g \in Sup!Gens, Sup!ThreadStep(c, g) \/ Sup!ClientStop(c, g)
      PROVE  SupervisorInv'
  <2>1. exits \in 0..MaxExits /\ exits \in Nat /\ MaxExits \in Nat
    BY DEF SupervisorInv, Sup!TypeOK, Sup!SupervisorConstants
  <2>2. CASE Sup!Started(c, g)
    <3>1. Sup!Alive(c, g)
      BY <2>2 DEF Sup!Started, Sup!Alive
    <3> QED
      BY <2>1, <2>2, <3>1, LiveThreadKeeps DEF Sup!Started, Sup!loop, Sup!child
  <2>3. CASE Sup!Crash(c, g)
    <3>1. Sup!Alive(c, g) /\ exits' \in 0..MaxExits
      BY <2>1, <2>3 DEF Sup!Crash, Sup!Alive
    <3> QED
      BY <2>3, <3>1, LiveThreadKeeps DEF Sup!Crash, Sup!loop, Sup!child
  <2>4. CASE Sup!TakeStop(c, g)
    <3>1. Sup!Alive(c, g)
      BY <2>4 DEF Sup!TakeStop, Sup!Alive
    <3> QED
      BY <2>1, <2>4, <3>1, LiveThreadKeeps DEF Sup!TakeStop, Sup!loop, Sup!child
  <2>5. CASE Sup!Report(c, g)
    BY <2>5, ReportKeeps
  <2>6. CASE Sup!ClientStop(c, g)
    <3>1. stopq' \subseteq Sup!Children \X Sup!Gens /\ now \in 0..MaxTime /\ exits' \in 0..MaxExits
      BY <2>1, <2>6 DEF Sup!ClientStop, SupervisorInv, Sup!TypeOK
    <3> QED
      BY <2>6, <3>1, ClientKeeps DEF Sup!ClientStop, Sup!loop, Sup!child
  <2> QED
    BY <1>2, <2>2, <2>3, <2>4, <2>5, <2>6 DEF Sup!ThreadStep
<1>3. CASE Sup!RequestShutdown
  BY <1>3, RequestShutdownKeeps
<1>4. stopq \subseteq Sup!Children \X Sup!Gens /\ now \in 0..MaxTime /\ exits \in 0..MaxExits
  BY DEF SupervisorInv, Sup!TypeOK
<1>5. CASE Sup!Tick
  <2>1. now' \in 0..MaxTime
    BY <1>4, <1>5 DEF Sup!Tick, Sup!SupervisorConstants
  <2> QED
    BY <1>4, <1>5, <2>1, ClientKeeps DEF Sup!Tick, Sup!loop, Sup!child
<1>6. CASE UNCHANGED Sup!vars
  BY <1>4, <1>6, ClientKeeps DEF Sup!vars
<1> QED
  BY <1>1, <1>2, <1>3, <1>5, <1>6 DEF Sup!Next

\* What the invariant says of the supervisor: the properties, in each state.
LEMMA SupervisorSafe ==
  ASSUME Sup!SupervisorConstants, SupervisorInv
  PROVE  Sup!OneGeneration /\ Sup!ReapReady /\ Sup!RestartScope /\ Sup!AllDownAtEnd
<1> USE DEF SupervisorInv
<1>1. Sup!OneGeneration
  BY LiveIsCurrent DEF Sup!OneGeneration
<1>2. Sup!ReapReady
  <2> SUFFICES ASSUME NEW i \in 1..Len(supInbox), spc = "recv", supInbox[i] # Sup!Shutdown,
                      ~Sup!Stale(supInbox[i])
               PROVE  ~Sup!Alive(supInbox[i].id, supInbox[i].gen) /\ join[supInbox[i].id]
    BY DEF Sup!ReapReady
  <2>1. TellsTrue(i) /\ ToReap(i)
    BY DEF QueueInv
  <2> QED
    BY <2>1 DEF TellsTrue, ToReap, Sup!Stale, Sup!Running, Sup!Alive
<1>3. Sup!RestartScope
  <2> SUFFICES ASSUME spc = "recv", NEW c \in Sup!Children
               PROVE  restarts[c] = Cardinality(Sup!Covering(c))
    BY SameCounting DEF Sup!RestartScope
  <2>1. restarts[c] \in Nat /\ ending = "none"
    BY DEF LoopInv, Sup!TypeOK
  <2> QED
    BY <2>1 DEF ScopeInv
<1>4. Sup!AllDownAtEnd
  BY LiveIsCurrent DEF Sup!AllDownAtEnd, LoopInv
<1> QED
  BY <1>1, <1>2, <1>3, <1>4

LEMMA SupervisorInductive ==
  ASSUME Sup!SupervisorConstants
  PROVE  Sup!Spec => []SupervisorInv
<1>1. Sup!Init => SupervisorInv
  BY SupervisorInit
<1>2. SupervisorInv /\ [Sup!Next]_(Sup!vars) => SupervisorInv'
  BY SupervisorNext
<1> QED
  BY <1>1, <1>2, PTL DEF Sup!Spec

\* A restart never runs beside its predecessor: of all generations of a child
\* only the one the supervisor knows and can join has a live thread.
THEOREM OneLiveThread ==
  ASSUME Sup!SupervisorConstants
  PROVE  Sup!Spec => []Sup!OneGeneration
<1>1. SupervisorInv => Sup!OneGeneration
  BY SupervisorSafe
<1> QED
  BY <1>1, SupervisorInductive, PTL

\* The status word all generations of a child share tells of the current one.
THEOREM StatusIsTrue ==
  ASSUME Sup!SupervisorConstants
  PROVE  Sup!Spec => []Sup!StatusTruth
<1>1. SupervisorInv => Sup!StatusTruth
  BY DEF SupervisorInv
<1> QED
  BY <1>1, SupervisorInductive, PTL

\* The generation check drops no exit that counts, and the join of a reap never
\* waits for a child at work.
THEOREM ExitsCount ==
  ASSUME Sup!SupervisorConstants
  PROVE  Sup!Spec => [](Sup!NoExitLost /\ Sup!ReapReady)
<1>1. SupervisorInv => Sup!NoExitLost /\ Sup!ReapReady
  BY SupervisorSafe DEF SupervisorInv
<1> QED
  BY <1>1, SupervisorInductive, PTL

\* A restart restarts the group of its strategy, as the code has it: each of its
\* children once, and no other.
THEOREM GroupRestarts ==
  ASSUME Sup!SupervisorConstants
  PROVE  Sup!Spec => []Sup!RestartScope
<1>1. SupervisorInv => Sup!RestartScope
  BY SupervisorSafe
<1> QED
  BY <1>1, SupervisorInductive, PTL

\* Stopped and Failed are said when the thread of every child has ended.
THEOREM NobodyOutlives ==
  ASSUME Sup!SupervisorConstants
  PROVE  Sup!Spec => []Sup!AllDownAtEnd
<1>1. SupervisorInv => Sup!AllDownAtEnd
  BY SupervisorSafe
<1> QED
  BY <1>1, SupervisorInductive, PTL

(***************************************************************************)
(* The hub.  No lock is held over a whole call, so that every property     *)
(* depends on what each thread is in the middle of: the invariant says     *)
(* what a thread at a control point knows of its connection, and who else  *)
(* may be at work on it.                                                   *)
(***************************************************************************)

\* t has taken a membership of c out of the map and not yet reported it.
TakenOut(t, c) == th[t].conn = c /\ th[t].pc \in {"forget", "unsubscribe", "untrack"}

\* t goes on with a join or a close of its own connection.
OwnCall(t) == th[t].next # "idle" \/ th[t].pc \in {"callback", "admit", "reply", "close"}

\* The control points: whose connection a thread works on, and what it will do.
ControlInv ==
  /\ \A t \in Hub!Threads :
       /\ th[t].pc = "idle" => th[t] = Hub!Idle
       /\ th[t].pc \in {"remove", "forget", "unsubscribe", "untrack"} => th[t].conn \in Conns
       /\ th[t].next # "idle" => th[t].pc \in {"remove", "forget", "unsubscribe", "untrack"}
       /\ th[t].pc = "deliver" => th[t].conn = NONE
       /\ OwnCall(t) => t \in Conns /\ th[t].conn = t /\ conn[t] = "open"
  /\ \A c \in Conns : joins[c] # NONE => conn[c] = "open"

\* Each departing thread cancels a subscription nobody else will.
DepartInv ==
  \A t, u \in Hub!Departing : th[t].sub = th[u].sub => t = u

\* Memberships are numbered in order, and one that is being made is new.
NumberInv ==
  /\ \A m \in admitted : m[2] <= made
  /\ \A c \in Conns :
       (th[c].next = "callback" \/ th[c].pc = "callback") =>
         th[c].ref \in 1..made /\ <<c, th[c].ref>> \notin admitted

\* A call that is to write the map, or to close the connection, has emptied it.
EmptiedInv ==
  \A c \in Conns :
    \/ th[c].pc \in {"callback", "close"}
    \/ th[c].next # "idle" /\ th[c].pc # "remove"
    => joins[c] = NONE

\* A membership whose end was not reported is in the map or with one thread.
OwedInv ==
  /\ left \subseteq admitted
  /\ \A c \in Conns, r \in 1..MaxJoins :
       <<c, r>> \in admitted \ left <=>
         joins[c] = r \/ \E t \in Hub!Threads : TakenOut(t, c) /\ th[t].gone = r
  /\ \A t \in Hub!Threads, c \in Conns : TakenOut(t, c) => /\ th[t].gone \in 1..MaxJoins
                                                           /\ th[t].gone # joins[c]
  /\ \A t, u \in Hub!Threads, c \in Conns :
       TakenOut(t, c) /\ TakenOut(u, c) /\ th[t].gone = th[u].gone => t = u

\* A connection whose kicks and calls did not overlap: what the maps say of it
\* follows from what the one thread that works on it has done.
Agree(c) ==
  /\ OwnCall(c) => Hub!Kicking(c) = {}
  /\ \A t, u \in Hub!Threads : TakenOut(t, c) /\ TakenOut(u, c) => t = u
  /\ \A t \in Hub!Threads : TakenOut(t, c) =>
       joins[c] = NONE /\ (c \in Hub!Members <=> th[t].pc = "forget")
  /\ (\A t \in Hub!Threads : ~TakenOut(t, c)) =>
       /\ th[c].pc # "admit" => (joins[c] # NONE <=> c \in Hub!Members)
       /\ th[c].pc = "admit" => joins[c] # NONE /\ c \notin Hub!Members
       /\ th[c].pc = "reply" => joins[c] # NONE
       /\ c \in tracked => joins[c] # NONE

AgreeInv == \A c \in Conns \ contested : Agree(c)

\* A broadcast under way has reached the members that stayed, or will: they are
\* still members, and a listener of the snapshot has not been called.
HearInv ==
  \A t \in Hub!Threads : th[t].pc = "deliver" =>
    /\ th[t].steady \subseteq Hub!Members
    /\ th[t].todo = {} => th[t].steady \ {th[t].exclude} \subseteq th[t].heard

HubInv ==
  /\ Hub!TypeOK /\ ControlInv /\ Hub!SubscribedWhileMembers /\ DepartInv
  /\ NumberInv /\ EmptiedInv /\ OwedInv /\ AgreeInv /\ HearInv

(***************************************************************************)
(* The threads.                                                            *)
(***************************************************************************)

\* NONE is no connection, no number and no topic.
LEMMA NoneIsNone ==
  ASSUME Hub!HubConstants
  PROVE  /\ NONE \notin Hub!Threads /\ NONE \notin Conns /\ NONE \notin Nat
         /\ \A s \in Nat, m \in SUBSET Conns : [sub |-> s, members |-> m] # NONE
         /\ Conns \subseteq Hub!Threads
  BY DEF Hub!HubConstants, Hub!Threads

LEMMA IdleFields ==
  ASSUME Hub!HubConstants, Hub!TypeOK
  PROVE  /\ Hub!Idle \in Hub!Work /\ Hub!Idle.pc = "idle" /\ Hub!Idle.conn = NONE /\ Hub!Idle.next = "idle"
         /\ Hub!Idle.ref = 0 /\ Hub!Idle.gone = 0 /\ Hub!Idle.sub = 0 /\ Hub!Idle.todo = {}
         /\ Hub!Idle.exclude = NONE /\ Hub!Idle.heard = {} /\ Hub!Idle.steady = {}
  BY DEF Hub!Idle, Hub!Work, Hub!Pcs, Hub!HubConstants, Hub!TypeOK

\* A topic has members, its own subscription, and members that are connections.
LEMMA TopicFields ==
  ASSUME Hub!HubConstants, Hub!TypeOK
  PROVE  /\ Hub!Members \subseteq Conns
         /\ topic = NONE => Hub!Members = {}
         /\ topic # NONE => /\ Hub!Members # {} /\ Hub!Members = topic.members
                            /\ topic.sub \in 1..hubNextSub
                            /\ topic = [sub |-> topic.sub, members |-> topic.members]
<1>1. CASE topic = NONE
  BY <1>1 DEF Hub!Members
<1>2. CASE topic # NONE
  <2>1. topic \in [sub : 1..hubNextSub, members : (SUBSET Conns) \ {{}}]
    BY <1>2 DEF Hub!TypeOK
  <2>2. Hub!Members = topic.members
    BY <1>2 DEF Hub!Members
  <2>3. topic.sub \in 1..hubNextSub /\ topic.members \in (SUBSET Conns) \ {{}}
    BY <2>1
  <2>4. topic = [sub |-> topic.sub, members |-> topic.members]
    BY <2>1
  <2> QED
    BY <1>2, <2>2, <2>3, <2>4
<1> QED
  BY <1>1, <1>2

(***************************************************************************)
(* What a step keeps that it does not touch.                               *)
(***************************************************************************)

\* The same threads hold the same memberships, and no end was reported.
LEMMA OwedFrame ==
  ASSUME OwedInv, joins' = joins, admitted' = admitted, left' = left,
         \A u \in Hub!Threads, d \in Conns : TakenOut(u, d)' <=> TakenOut(u, d),
         \A u \in Hub!Threads, d \in Conns : TakenOut(u, d) => th'[u].gone = th[u].gone
  PROVE  OwedInv'
<1>1. \A u \in Hub!Threads, d \in Conns : TakenOut(u, d)' => TakenOut(u, d) /\ th'[u].gone = th[u].gone
  OBVIOUS
<1>2. \A d \in Conns, r \in 1..MaxJoins :
        (\E u \in Hub!Threads : TakenOut(u, d)' /\ th'[u].gone = r)
          <=> (\E u \in Hub!Threads : TakenOut(u, d) /\ th[u].gone = r)
  BY <1>1
<1>3. /\ left' \subseteq admitted'
      /\ \A d \in Conns, r \in 1..MaxJoins :
           <<d, r>> \in admitted' \ left' <=>
             joins'[d] = r \/ \E u \in Hub!Threads : TakenOut(u, d)' /\ th'[u].gone = r
  BY <1>2 DEF OwedInv
<1>4. ASSUME NEW u \in Hub!Threads, NEW d \in Conns, TakenOut(u, d)'
      PROVE  th'[u].gone \in 1..MaxJoins /\ th'[u].gone # joins'[d]
  BY <1>1, <1>4 DEF OwedInv
<1>5. ASSUME NEW u \in Hub!Threads, NEW v \in Hub!Threads, NEW d \in Conns,
             TakenOut(u, d)', TakenOut(v, d)', th'[u].gone = th'[v].gone
      PROVE  u = v
  <2>1. TakenOut(u, d) /\ TakenOut(v, d) /\ th[u].gone = th[v].gone
    BY <1>1, <1>5
  <2> QED
    BY <2>1 DEF OwedInv
<1> QED
  BY <1>3, <1>4, <1>5 DEF OwedInv

\* Neither the topic's entry nor the broker, nor who is to unsubscribe, changes.
LEMMA BrokerFrame ==
  ASSUME Hub!SubscribedWhileMembers, DepartInv, topic' = topic, subs' = subs,
         Hub!Departing' = Hub!Departing, \A u \in Hub!Departing : th'[u].sub = th[u].sub
  PROVE  Hub!SubscribedWhileMembers' /\ DepartInv'
<1>1. {th'[u].sub : u \in Hub!Departing'} = {th[u].sub : u \in Hub!Departing}
  OBVIOUS
<1>2. Hub!SubscribedWhileMembers'
  BY <1>1 DEF Hub!SubscribedWhileMembers
<1>3. ASSUME NEW u \in Hub!Departing', NEW v \in Hub!Departing', th'[u].sub = th'[v].sub
      PROVE  u = v
  BY <1>3 DEF DepartInv
<1> QED
  BY <1>2, <1>3 DEF DepartInv

\* What the maps say of d, and who works on it, changes at most in ways that keep
\* the two in step.
LEMMA AgreeFrame ==
  ASSUME NEW d \in Conns, Agree(d),
         OwnCall(d)' => Hub!Kicking(d)' = {},
         \A u \in Hub!Threads : TakenOut(u, d)' <=> TakenOut(u, d),
         \A u \in Hub!Threads : TakenOut(u, d) => (th'[u].pc = "forget" <=> th[u].pc = "forget"),
         th'[d].pc = "admit" <=> th[d].pc = "admit",
         th'[d].pc = "reply" => th[d].pc = "reply",
         joins'[d] = joins[d], d \in Hub!Members' <=> d \in Hub!Members,
         d \in tracked' => d \in tracked \/ th[d].pc = "reply"
  PROVE  Agree(d)'
<1>1. ASSUME NEW u \in Hub!Threads, NEW v \in Hub!Threads, TakenOut(u, d)', TakenOut(v, d)'
      PROVE  u = v
  BY <1>1 DEF Agree
<1>2. ASSUME NEW u \in Hub!Threads, TakenOut(u, d)'
      PROVE  joins'[d] = NONE /\ (d \in Hub!Members' <=> th'[u].pc = "forget")
  BY <1>2 DEF Agree
<1>3. ASSUME \A u \in Hub!Threads : ~TakenOut(u, d)'
      PROVE  /\ th'[d].pc # "admit" => (joins'[d] # NONE <=> d \in Hub!Members')
             /\ th'[d].pc = "admit" => joins'[d] # NONE /\ d \notin Hub!Members'
             /\ th'[d].pc = "reply" => joins'[d] # NONE
             /\ d \in tracked' => joins'[d] # NONE
  <2>1. \A u \in Hub!Threads : ~TakenOut(u, d)
    BY <1>3
  <2> QED
    BY <2>1 DEF Agree
<1> QED
  BY <1>1, <1>2, <1>3 DEF Agree

\* A thread that changes alone.
LEMMA OneMoves ==
  ASSUME Hub!HubConstants, Hub!TypeOK, NEW t \in Hub!Threads, th'[t] \in Hub!Work',
         th' = [th EXCEPT ![t] = th'[t]], hubNextSub' \in Nat, hubNextSub <= hubNextSub'
  PROVE  /\ th' \in [Hub!Threads -> Hub!Work']
         /\ \A u \in Hub!Threads : u # t => th'[u] = th[u]
<1>1. Hub!Work \subseteq Hub!Work'
  BY DEF Hub!Work, Hub!TypeOK
<1> QED
  BY <1>1 DEF Hub!TypeOK

(***************************************************************************)
(* The steps.                                                              *)
(***************************************************************************)

\* A thread at rest takes up a teardown: of its own connection for a join, a
\* leave or a close, of any for a kick.
LEMMA TearingKeeps ==
  ASSUME Hub!HubConstants, HubInv, NEW t \in Hub!Threads, NEW c \in Conns,
         NEW next \in {"idle", "callback", "close"}, NEW number \in 0..MaxJoins,
         th[t].pc = "idle",
         th' = [th EXCEPT ![t] = [Hub!Tearing(c, next) EXCEPT !.ref = number]],
         next # "idle" => t = c /\ conn[c] = "open",
         next = "callback" => number = made' /\ made' = made + 1,
         made' \in 0..MaxJoins, made' >= made, kicks' \in 0..MaxKicks,
         contested' = contested \/ contested' = contested \cup {c},
         c \notin contested' => /\ next # "idle" => Hub!Kicking(c) = {}
                                /\ t # c => th[c].pc = "idle",
         UNCHANGED <<conn, joins, topic, tracked, subs, hubNextSub, admitted, left, casts>>
  PROVE  HubInv'
<1> USE DEF HubInv
<1> DEFINE w == [Hub!Tearing(c, next) EXCEPT !.ref = number]
<1>1. /\ w \in Hub!Work /\ w.pc = "remove" /\ w.conn = c /\ w.next = next /\ w.ref = number
      /\ w.sub = 0 /\ w.steady = {}
  BY IdleFields DEF Hub!Tearing, Hub!Idle, Hub!Work, Hub!Pcs
<1>2. th[t] = Hub!Idle /\ th[t].next = "idle" /\ th[t].conn = NONE
  BY IdleFields DEF ControlInv
<1> HIDE DEF w
<1>3. /\ th' \in [Hub!Threads -> Hub!Work] /\ th'[t] = w
      /\ \A u \in Hub!Threads : u # t => th'[u] = th[u]
  <2>1. th' = [th EXCEPT ![t] = w] /\ th \in [Hub!Threads -> Hub!Work]
    BY DEF w, Hub!TypeOK
  <2> QED
    BY <1>1, <2>1
<1>4. Conns \subseteq Hub!Threads /\ NONE \notin Conns
  BY NoneIsNone
<1>5. /\ Hub!Work' = Hub!Work /\ Hub!Members' = Hub!Members
      /\ Hub!Departing' = Hub!Departing /\ \A u \in Hub!Departing : th'[u] = th[u] /\ u \in Hub!Threads
  BY <1>1, <1>3 DEF Hub!Work, Hub!Members, Hub!Departing
<1>6. \A u \in Hub!Threads, d \in Conns : TakenOut(u, d)' <=> TakenOut(u, d)
  BY <1>1, <1>2, <1>3 DEF TakenOut
<1>7. \A u \in Hub!Threads, d \in Conns : TakenOut(u, d) => th'[u] = th[u]
  BY <1>3 DEF TakenOut
<1>8. Hub!TypeOK'
  <2>1. contested' \subseteq Conns
    BY DEF Hub!TypeOK
  <2> QED
    BY <1>3, <1>5, <2>1 DEF Hub!TypeOK
<1>9. ControlInv'
  <2>1. \A d \in Conns : joins'[d] # NONE => conn'[d] = "open"
    BY DEF ControlInv
  <2> SUFFICES ASSUME NEW u \in Hub!Threads
               PROVE  /\ th'[u].pc = "idle" => th'[u] = Hub!Idle
                      /\ th'[u].pc \in {"remove", "forget", "unsubscribe", "untrack"} =>
                           th'[u].conn \in Conns
                      /\ th'[u].next # "idle" =>
                           th'[u].pc \in {"remove", "forget", "unsubscribe", "untrack"}
                      /\ th'[u].pc = "deliver" => th'[u].conn = NONE
                      /\ OwnCall(u)' => u \in Conns /\ th'[u].conn = u /\ conn'[u] = "open"
    BY <2>1 DEF ControlInv
  <2>2. CASE u = t
    BY <1>1, <1>3, <2>2 DEF OwnCall
  <2>3. CASE u # t
    BY <1>3, <2>3 DEF ControlInv, OwnCall
  <2> QED
    BY <2>2, <2>3
<1>10. Hub!SubscribedWhileMembers' /\ DepartInv'
  BY <1>5, BrokerFrame
<1>11. NumberInv'
  <2>1. made \in Nat /\ made' \in Nat /\ \A m \in admitted : m[2] \in Nat
    BY DEF Hub!TypeOK, Hub!HubConstants
  <2>2. next = "callback" => number \in 1..made' /\ <<c, number>> \notin admitted
    BY <2>1 DEF NumberInv
  <2>3. \A d \in Conns : d # t => th'[d] = th[d]
    BY <1>3, <1>4
  <2>4. t \in Conns /\ (th'[t].next = "callback" \/ th'[t].pc = "callback") =>
          th'[t].ref \in 1..made' /\ <<t, th'[t].ref>> \notin admitted
    BY <1>1, <1>3, <2>2
  <2> QED
    BY <2>1, <2>3, <2>4 DEF NumberInv
<1>12. EmptiedInv'
  <2> SUFFICES ASSUME NEW d \in Conns,
                      \/ th'[d].pc \in {"callback", "close"}
                      \/ (th'[d].next # "idle" /\ th'[d].pc # "remove")
               PROVE  joins'[d] = NONE
    BY DEF EmptiedInv
  <2>1. d # t /\ th'[d] = th[d]
    BY <1>1, <1>3, <1>4
  <2> QED
    BY <2>1 DEF EmptiedInv
<1>13. OwedInv'
  BY <1>6, <1>7, OwedFrame
<1>14. ASSUME NEW d \in Conns \ contested'
       PROVE  Agree(d)'
  <2>1. d \in Conns \ contested /\ d \in Hub!Threads /\ Agree(d)
    BY <1>4 DEF AgreeInv
  <2>2. OwnCall(d)' => Hub!Kicking(d)' = {}
    <3>1. CASE d = c
      <4>1. CASE t = c
        <5>1. OwnCall(d)' => Hub!Kicking(d) = {}
          BY <1>1, <1>3, <3>1, <4>1 DEF OwnCall
        <5> QED
          BY <1>3, <3>1, <4>1, <5>1 DEF Hub!Kicking
      <4>2. CASE t # c
        BY <1>3, <2>1, <3>1, <4>2, IdleFields DEF OwnCall, ControlInv
      <4> QED
        BY <4>1, <4>2
    <3>2. CASE d # c
      <4>1. Hub!Kicking(d)' = Hub!Kicking(d)
        BY <1>1, <1>2, <1>3, <3>2 DEF Hub!Kicking
      <4>2. CASE d = t
        BY <1>1, <1>3, <3>2, <4>2 DEF OwnCall
      <4>3. CASE d # t
        BY <1>3, <2>1, <4>1, <4>3 DEF OwnCall, Agree
      <4> QED
        BY <4>2, <4>3
    <3> QED
      BY <3>1, <3>2
  <2>3. th'[d].pc \in {"admit", "reply"} \/ th[d].pc \in {"admit", "reply"} => th'[d] = th[d]
    BY <1>1, <1>3, <2>1
  <2> QED
    BY <1>5, <1>6, <1>7, <2>1, <2>2, <2>3, AgreeFrame
<1>15. HearInv'
  BY <1>1, <1>3, <1>5 DEF HearInv
<1> QED
  BY <1>8, <1>9, <1>10, <1>11, <1>12, <1>13, <1>14, <1>15 DEF AgreeInv

\* A call ends: a refused or completed join, a close, a broadcast.
LEMMA EndsKeeps ==
  ASSUME Hub!HubConstants, HubInv, NEW t \in Hub!Threads,
         th[t].pc \in {"callback", "reply", "close", "deliver"},
         th' = [th EXCEPT ![t] = Hub!Idle],
         \/ conn' = conn
         \/ th[t].pc = "close" /\ conn' = [conn EXCEPT ![t] = "closed"],
         \/ tracked' = tracked
         \/ th[t].pc = "reply" /\ tracked' = tracked \cup {t},
         UNCHANGED <<joins, topic, subs, hubNextSub, Hub!counts>>
  PROVE  HubInv'
<1> USE DEF HubInv, Hub!counts
<1>1. th' \in [Hub!Threads -> Hub!Work] /\ th'[t] = Hub!Idle /\ \A u \in Hub!Threads : u # t => th'[u] = th[u]
  BY IdleFields DEF Hub!TypeOK
<1>2. Conns \subseteq Hub!Threads /\ NONE \notin Conns
  BY NoneIsNone
<1>3. Hub!Work' = Hub!Work /\ Hub!Members' = Hub!Members
  BY DEF Hub!Work, Hub!Members
<1>4. \A u \in Hub!Threads, d \in Conns : TakenOut(u, d) => th'[u] = th[u]
  BY <1>1 DEF TakenOut
<1>5. \A u \in Hub!Threads, d \in Conns : TakenOut(u, d)' <=> TakenOut(u, d)
  BY <1>1, IdleFields DEF TakenOut
<1>6. th[t].pc # "deliver" => t \in Conns /\ th[t].conn = t /\ conn[t] = "open"
  BY DEF ControlInv, OwnCall
<1>7. th[t].next = "idle"
  BY DEF ControlInv
<1>8. Hub!TypeOK'
  <2>1. tracked' \subseteq Conns /\ conn' \in [Conns -> {"new", "open", "closed"}]
    BY <1>6 DEF Hub!TypeOK
  <2> QED
    BY <1>1, <1>3, <2>1 DEF Hub!TypeOK
<1>9. ControlInv'
  <2>1. \A d \in Conns : conn'[d] = conn[d] \/ (d = t /\ th[t].pc = "close")
    BY <1>6 DEF Hub!TypeOK
  <2>2. \A d \in Conns : joins'[d] # NONE => conn'[d] = "open"
    BY <2>1 DEF ControlInv, EmptiedInv
  <2>3. ASSUME NEW u \in Hub!Threads
        PROVE  /\ th'[u].pc = "idle" => th'[u] = Hub!Idle
               /\ th'[u].pc \in {"remove", "forget", "unsubscribe", "untrack"} =>
                    th'[u].conn \in Conns
               /\ th'[u].next # "idle" =>
                    th'[u].pc \in {"remove", "forget", "unsubscribe", "untrack"}
               /\ th'[u].pc = "deliver" => th'[u].conn = NONE
               /\ OwnCall(u)' => u \in Conns /\ th'[u].conn = u /\ conn'[u] = "open"
    <3>1. CASE u = t
      BY <1>1, <3>1, IdleFields DEF OwnCall
    <3>2. CASE u # t
      <4>1. OwnCall(u)' => OwnCall(u)
        BY <1>1, <3>2 DEF OwnCall
      <4> QED
        BY <1>1, <2>1, <3>2, <4>1 DEF ControlInv
    <3> QED
      BY <3>1, <3>2
  <2> QED
    BY <2>2, <2>3 DEF ControlInv
<1>10. Hub!SubscribedWhileMembers' /\ DepartInv'
  <2>1. Hub!Departing' = Hub!Departing /\ \A u \in Hub!Departing : th'[u] = th[u]
    BY <1>1, IdleFields DEF Hub!Departing
  <2> QED
    BY <2>1, BrokerFrame
<1>11. NumberInv'
  BY <1>1, <1>2, IdleFields DEF NumberInv
<1>12. EmptiedInv'
  BY <1>1, <1>2, IdleFields DEF EmptiedInv
<1>13. OwedInv'
  BY <1>4, <1>5, OwedFrame
<1>14. ASSUME NEW d \in Conns \ contested'
       PROVE  Agree(d)'
  <2>1. d \in Conns /\ d \in Hub!Threads /\ Agree(d)
    BY <1>2 DEF AgreeInv
  <2>2. Hub!Kicking(d)' \subseteq Hub!Kicking(d)
    BY <1>1, IdleFields DEF Hub!Kicking
  <2>3. OwnCall(d)' => OwnCall(d)
    BY <1>1, <2>1, IdleFields DEF OwnCall
  <2>4. OwnCall(d)' => Hub!Kicking(d)' = {}
    BY <2>1, <2>2, <2>3 DEF Agree
  <2>5. th'[d] = th[d] \/ (th'[d].pc = "idle" /\ th[d].pc # "admit")
    BY <1>1, <2>1, IdleFields
  <2> QED
    BY <1>3, <1>4, <1>5, <2>1, <2>4, <2>5, AgreeFrame
<1>15. HearInv'
  BY <1>1, <1>3, IdleFields DEF HearInv
<1> QED
  BY <1>8, <1>9, <1>10, <1>11, <1>12, <1>13, <1>14, <1>15 DEF AgreeInv

\* A connection opens: no thread is at work for it yet.
LEMMA OnOpenKeeps ==
  ASSUME Hub!HubConstants, HubInv, NEW c \in Conns, Hub!OnOpen(c)
  PROVE  HubInv'
<1> USE DEF HubInv, Hub!OnOpen, Hub!broker, Hub!counts
<1>1. \A d \in Conns : conn[d] = "open" => conn'[d] = "open"
  BY DEF Hub!TypeOK
<1>2. Hub!Work' = Hub!Work /\ Hub!Members' = Hub!Members /\ Hub!Departing' = Hub!Departing
  BY DEF Hub!Work, Hub!Members, Hub!Departing
<1>3. Hub!TypeOK'
  BY <1>2 DEF Hub!TypeOK
<1>4. ControlInv'
  BY <1>1 DEF ControlInv, OwnCall
<1>5. Hub!SubscribedWhileMembers' /\ DepartInv'
  BY <1>2, BrokerFrame
<1>6. NumberInv' /\ EmptiedInv'
  BY DEF NumberInv, EmptiedInv
<1>7. OwedInv'
  BY OwedFrame DEF TakenOut
<1>8. AgreeInv'
  BY <1>2 DEF AgreeInv, Agree, OwnCall, Hub!Kicking, TakenOut
<1>9. HearInv'
  BY <1>2 DEF HearInv
<1> QED
  BY <1>3, <1>4, <1>5, <1>6, <1>7, <1>8, <1>9

\* The join callback accepts, and the membership enters the map of the
\* connections, which the teardown before it has emptied.
LEMMA AdmitConnKeeps ==
  ASSUME Hub!HubConstants, HubInv, NEW c \in Conns, Hub!AdmitConn(c)
  PROVE  HubInv'
<1> USE DEF HubInv, Hub!AdmitConn, Hub!Goes, Hub!broker
<1> DEFINE r == th[c].ref
<1>1. Conns \subseteq Hub!Threads /\ NONE \notin Conns /\ NONE \notin Nat
  BY NoneIsNone
<1>2. conn[c] = "open" /\ th[c].conn = c /\ th[c].next = "idle" /\ joins[c] = NONE
  <2>1. OwnCall(c) /\ c \in Hub!Threads
    BY <1>1 DEF OwnCall
  <2> QED
    BY <2>1 DEF ControlInv, EmptiedInv
<1>3. r \in 1..made /\ made \in 0..MaxJoins /\ r \in 1..MaxJoins /\ <<c, r>> \notin admitted
      /\ <<c, r>> \notin left
  <2>1. r \in 1..made /\ made \in 0..MaxJoins /\ <<c, r>> \notin admitted
    BY DEF NumberInv, Hub!TypeOK
  <2> QED
    BY <2>1 DEF OwedInv, Hub!HubConstants
<1>4. /\ th' \in [Hub!Threads -> Hub!Work] /\ th'[c] = [th[c] EXCEPT !.pc = "admit"]
      /\ \A u \in Hub!Threads : u # c => th'[u] = th[u]
  <2>1. [th[c] EXCEPT !.pc = "admit"] \in Hub!Work
    BY <1>1 DEF Hub!TypeOK, Hub!Work, Hub!Pcs
  <2> QED
    BY <1>1, <2>1 DEF Hub!TypeOK
<1>5. /\ th'[c].pc = "admit" /\ th'[c].conn = c /\ th'[c].next = "idle"
  <2>1. th[c] \in Hub!Work
    BY <1>1 DEF Hub!TypeOK
  <2> QED
    BY <1>2, <1>4, <2>1 DEF Hub!Work
<1>6. /\ joins' = [joins EXCEPT ![c] = r] /\ joins'[c] = r
      /\ \A d \in Conns : d # c => joins'[d] = joins[d]
  BY <1>2 DEF Hub!TypeOK
<1>7. /\ Hub!Work' = Hub!Work /\ Hub!Members' = Hub!Members
      /\ Hub!Departing' = Hub!Departing /\ \A u \in Hub!Departing : th'[u] = th[u]
  BY <1>4, <1>5 DEF Hub!Work, Hub!Members, Hub!Departing
<1>8. /\ \A u \in Hub!Threads, d \in Conns : TakenOut(u, d)' <=> TakenOut(u, d)
      /\ \A u \in Hub!Threads, d \in Conns : TakenOut(u, d) => th'[u] = th[u] /\ u # c
  BY <1>4, <1>5 DEF TakenOut
<1>9. Hub!TypeOK'
  BY <1>3, <1>4, <1>6, <1>7 DEF Hub!TypeOK
<1>10. ControlInv'
  <2>1. ASSUME NEW u \in Hub!Threads
        PROVE  /\ th'[u].pc = "idle" => th'[u] = Hub!Idle
               /\ th'[u].pc \in {"remove", "forget", "unsubscribe", "untrack"} =>
                    th'[u].conn \in Conns
               /\ th'[u].next # "idle" =>
                    th'[u].pc \in {"remove", "forget", "unsubscribe", "untrack"}
               /\ th'[u].pc = "deliver" => th'[u].conn = NONE
               /\ OwnCall(u)' => u \in Conns /\ th'[u].conn = u /\ conn'[u] = "open"
    <3>1. CASE u = c
      BY <1>2, <1>5, <3>1
    <3>2. CASE u # c
      BY <1>4, <3>2 DEF ControlInv, OwnCall
    <3> QED
      BY <3>1, <3>2
  <2>2. \A d \in Conns : joins'[d] # NONE => conn'[d] = "open"
    BY <1>2, <1>6 DEF ControlInv
  <2> QED
    BY <2>1, <2>2 DEF ControlInv
<1>11. Hub!SubscribedWhileMembers' /\ DepartInv'
  BY <1>7, BrokerFrame
<1>12. NumberInv'
  <2>1. \A m \in admitted' : m[2] <= made
    BY <1>3 DEF NumberInv
  <2>2. ASSUME NEW d \in Conns, th'[d].next = "callback" \/ th'[d].pc = "callback"
        PROVE  th'[d].ref \in 1..made' /\ <<d, th'[d].ref>> \notin admitted'
    <3>1. d # c /\ th'[d] = th[d]
      BY <1>1, <1>4, <1>5, <2>2
    <3> QED
      BY <2>2, <3>1 DEF NumberInv
  <2> QED
    BY <2>1, <2>2 DEF NumberInv
<1>13. EmptiedInv'
  BY <1>1, <1>4, <1>5, <1>6 DEF EmptiedInv
<1>14. OwedInv'
  <2>1. \A u \in Hub!Threads, d \in Conns :
          TakenOut(u, d)' => TakenOut(u, d) /\ th'[u] = th[u] /\ u # c
    BY <1>8
  <2>2. \A u \in Hub!Threads : TakenOut(u, c) => th[u].gone # r
    <3> SUFFICES ASSUME NEW u \in Hub!Threads, TakenOut(u, c), th[u].gone = r
                 PROVE  FALSE
      OBVIOUS
    <3>1. <<c, r>> \in admitted \ left
      BY <1>3 DEF OwedInv
    <3> QED
      BY <1>3, <3>1
  <2>3. ASSUME NEW d \in Conns, NEW x \in 1..MaxJoins
        PROVE  <<d, x>> \in admitted' \ left' <=>
                 joins'[d] = x \/ \E u \in Hub!Threads : TakenOut(u, d)' /\ th'[u].gone = x
    <3>1. (\E u \in Hub!Threads : TakenOut(u, d)' /\ th'[u].gone = x)
            <=> (\E u \in Hub!Threads : TakenOut(u, d) /\ th[u].gone = x)
      BY <1>8, <2>1
    <3>2. <<d, x>> \in admitted \ left <=>
            joins[d] = x \/ \E u \in Hub!Threads : TakenOut(u, d) /\ th[u].gone = x
      BY DEF OwedInv
    <3>3. CASE d = c /\ x = r
      BY <1>3, <1>6, <3>3
    <3>4. CASE d = c /\ x # r
      <4>1. <<d, x>> \in admitted' \ left' <=> <<d, x>> \in admitted \ left
        BY <3>4
      <4>2. joins'[d] # x /\ joins[d] # x
        BY <1>1, <1>2, <1>6, <3>4
      <4> QED
        BY <3>1, <3>2, <4>1, <4>2
    <3>5. CASE d # c
      <4>1. <<d, x>> \in admitted' \ left' <=> <<d, x>> \in admitted \ left
        BY <3>5
      <4> QED
        BY <1>6, <3>1, <3>2, <3>5, <4>1
    <3> QED
      BY <3>3, <3>4, <3>5
  <2>4. ASSUME NEW u \in Hub!Threads, NEW d \in Conns, TakenOut(u, d)'
        PROVE  th'[u].gone \in 1..MaxJoins /\ th'[u].gone # joins'[d]
    <3>1. th'[u].gone = th[u].gone /\ TakenOut(u, d)
      BY <2>1, <2>4
    <3> QED
      BY <1>6, <2>2, <3>1 DEF OwedInv
  <2>5. ASSUME NEW u \in Hub!Threads, NEW v \in Hub!Threads, NEW d \in Conns,
               TakenOut(u, d)', TakenOut(v, d)', th'[u].gone = th'[v].gone
        PROVE  u = v
    <3>1. TakenOut(u, d) /\ TakenOut(v, d) /\ th[u].gone = th[v].gone
      BY <2>1, <2>5
    <3> QED
      BY <3>1 DEF OwedInv
  <2>6. left' \subseteq admitted'
    BY DEF OwedInv
  <2> QED
    BY <2>3, <2>4, <2>5, <2>6 DEF OwedInv
<1>15. ASSUME NEW d \in Conns \ contested'
       PROVE  Agree(d)'
  <2>1. d \in Conns /\ d \in Hub!Threads /\ Agree(d)
    BY <1>1 DEF AgreeInv
  <2>2. Hub!Kicking(d)' \subseteq Hub!Kicking(d)
    BY <1>2, <1>4, <1>5 DEF Hub!Kicking
  <2>3. OwnCall(d)' => Hub!Kicking(d)' = {}
    <3>1. OwnCall(d)' => OwnCall(d)
      BY <1>4, <2>1 DEF OwnCall
    <3> QED
      BY <2>1, <2>2, <3>1 DEF Agree
  <2>4. CASE d = c
    <3>1. Hub!Kicking(c) = {}
      BY <2>1, <2>4 DEF Agree, OwnCall
    <3>2. \A u \in Hub!Threads : ~TakenOut(u, c)
      BY <3>1 DEF Hub!Kicking, TakenOut
    <3>3. c \notin Hub!Members
      BY <1>2, <2>1, <2>4, <3>2 DEF Agree
    <3>4. joins'[c] # NONE
      BY <1>1, <1>3, <1>6
    <3> QED
      BY <1>5, <1>7, <1>8, <2>3, <2>4, <3>2, <3>3, <3>4 DEF Agree
  <2>5. CASE d # c
    <3>1. th'[d] = th[d] /\ joins'[d] = joins[d]
      BY <1>4, <1>6, <2>1, <2>5
    <3> QED
      BY <1>7, <1>8, <2>1, <2>3, <3>1, AgreeFrame
  <2> QED
    BY <2>4, <2>5
<1>16. HearInv'
  BY <1>4, <1>5, <1>7 DEF HearInv
<1> QED
  BY <1>9, <1>10, <1>11, <1>12, <1>13, <1>14, <1>15, <1>16 DEF AgreeInv

\* The membership enters the topic's members, the first of them with a
\* subscription that no departing thread is about to cancel.
LEMMA AdmitTopicKeeps ==
  ASSUME Hub!HubConstants, HubInv, NEW c \in Conns, Hub!AdmitTopic(c)
  PROVE  HubInv'
<1> USE DEF HubInv, Hub!AdmitTopic, Hub!Goes, Hub!broker, Hub!counts
<1>1. Conns \subseteq Hub!Threads /\ NONE \notin Conns
  BY NoneIsNone
<1>2. th[c].pc = "admit" /\ conn[c] = "open" /\ th[c].conn = c /\ th[c].next = "idle"
  <2>1. OwnCall(c) /\ c \in Hub!Threads
    BY <1>1 DEF OwnCall
  <2> QED
    BY <2>1 DEF ControlInv
<1>3. /\ hubNextSub \in Nat /\ hubNextSub' \in Nat /\ hubNextSub <= hubNextSub' /\ Hub!Members' = Hub!Members \cup {c}
      /\ topic' # NONE /\ topic' \in [sub : 1..hubNextSub', members : (SUBSET Conns) \ {{}}]
      /\ subs' \subseteq 1..hubNextSub'
  <2>1. CASE topic = NONE
    <3>1. hubNextSub \in Nat /\ hubNextSub' = hubNextSub + 1 /\ subs' = subs \cup {hubNextSub + 1}
          /\ topic' = [sub |-> hubNextSub + 1, members |-> {c}]
      BY <2>1 DEF Hub!Subscribe, Hub!FreshSub, Hub!TypeOK
    <3>2. topic' # NONE /\ Hub!Members = {}
      BY <2>1, <3>1, NoneIsNone DEF Hub!Members
    <3>3. Hub!Members' = {c}
      BY <3>1, <3>2 DEF Hub!Members
    <3>4. subs' \subseteq 1..hubNextSub'
      BY <3>1 DEF Hub!TypeOK
    <3>5. topic' \in [sub : 1..hubNextSub', members : (SUBSET Conns) \ {{}}]
      BY <3>1
    <3> QED
      BY <3>1, <3>2, <3>3, <3>4, <3>5
  <2>2. CASE topic # NONE
    <3>1. topic = [sub |-> topic.sub, members |-> topic.members] /\ topic.sub \in 1..hubNextSub
          /\ Hub!Members = topic.members /\ Hub!Members \subseteq Conns
      BY <2>2, TopicFields
    <3>2. topic' = [sub |-> topic.sub, members |-> Hub!Members \cup {c}]
          /\ hubNextSub' = hubNextSub /\ subs' = subs
      BY <2>2, <3>1
    <3>3. topic' # NONE /\ hubNextSub \in Nat
      BY <3>1, <3>2, NoneIsNone DEF Hub!TypeOK
    <3>4. Hub!Members' = Hub!Members \cup {c}
      BY <3>2, <3>3 DEF Hub!Members
    <3> QED
      BY <3>1, <3>2, <3>3, <3>4 DEF Hub!TypeOK
  <2> QED
    BY <2>1, <2>2
<1>4. /\ th' = [th EXCEPT ![c] = th'[c]] /\ th'[c] = [th[c] EXCEPT !.pc = "reply"]
      /\ th[c] \in Hub!Work
  BY <1>1 DEF Hub!TypeOK
<1>5. /\ th'[c].pc = "reply" /\ th'[c].conn = c /\ th'[c].next = "idle"
  BY <1>2, <1>4 DEF Hub!Work
<1>6. th'[c] \in Hub!Work'
  BY <1>3, <1>4 DEF Hub!Work, Hub!Pcs
<1>7. th' \in [Hub!Threads -> Hub!Work'] /\ \A u \in Hub!Threads : u # c => th'[u] = th[u]
  BY <1>1, <1>3, <1>4, <1>6, OneMoves
<1>8. /\ \A u \in Hub!Threads, d \in Conns : TakenOut(u, d)' <=> TakenOut(u, d)
      /\ \A u \in Hub!Threads, d \in Conns : TakenOut(u, d) => th'[u] = th[u] /\ u # c
  BY <1>2, <1>5, <1>7 DEF TakenOut
<1>9. Hub!TypeOK'
  BY <1>3, <1>7 DEF Hub!TypeOK
<1>10. ControlInv'
  <2>1. ASSUME NEW u \in Hub!Threads
        PROVE  /\ th'[u].pc = "idle" => th'[u] = Hub!Idle
               /\ th'[u].pc \in {"remove", "forget", "unsubscribe", "untrack"} =>
                    th'[u].conn \in Conns
               /\ th'[u].next # "idle" =>
                    th'[u].pc \in {"remove", "forget", "unsubscribe", "untrack"}
               /\ th'[u].pc = "deliver" => th'[u].conn = NONE
               /\ OwnCall(u)' => u \in Conns /\ th'[u].conn = u /\ conn'[u] = "open"
    <3>1. CASE u = c
      BY <1>2, <1>5, <3>1
    <3>2. CASE u # c
      BY <1>7, <3>2 DEF ControlInv, OwnCall
    <3> QED
      BY <3>1, <3>2
  <2> QED
    BY <2>1 DEF ControlInv
<1>11. Hub!SubscribedWhileMembers' /\ DepartInv'
  <2>1. Hub!Departing' = Hub!Departing /\ \A u \in Hub!Departing : th'[u] = th[u] /\ th[u].sub \in 0..hubNextSub
    <3>1. Hub!Departing' = Hub!Departing
      BY <1>2, <1>5, <1>7 DEF Hub!Departing
    <3>2. \A u \in Hub!Threads : th[u] \in Hub!Work
      BY DEF Hub!TypeOK
    <3> QED
      BY <1>2, <1>7, <3>1, <3>2 DEF Hub!Departing, Hub!Work
  <2>2. {th'[u].sub : u \in Hub!Departing'} = {th[u].sub : u \in Hub!Departing}
    BY <2>1
  <2>3. CASE topic = NONE
    <3>1. hubNextSub \in Nat /\ subs' = subs \cup {hubNextSub + 1} /\ topic'.sub = hubNextSub + 1
      BY <2>3 DEF Hub!Subscribe, Hub!FreshSub, Hub!TypeOK
    <3>2. subs' = {th'[u].sub : u \in Hub!Departing'} \cup {topic'.sub}
      BY <2>2, <2>3, <3>1 DEF Hub!SubscribedWhileMembers
    <3>3. \A u \in Hub!Departing' : th'[u].sub # topic'.sub
      BY <2>1, <3>1
    <3> QED
      BY <1>3, <2>1, <3>2, <3>3 DEF Hub!SubscribedWhileMembers, DepartInv
  <2>4. CASE topic # NONE
    <3>1. topic'.sub = topic.sub /\ subs' = subs
      BY <2>4, TopicFields
    <3>2. subs' = {th'[u].sub : u \in Hub!Departing'} \cup {topic'.sub}
      BY <2>2, <2>4, <3>1 DEF Hub!SubscribedWhileMembers
    <3>3. \A u \in Hub!Departing' : th'[u].sub # topic'.sub
      BY <2>1, <2>4, <3>1 DEF Hub!SubscribedWhileMembers
    <3> QED
      BY <1>3, <2>1, <3>2, <3>3 DEF Hub!SubscribedWhileMembers, DepartInv
  <2> QED
    BY <2>3, <2>4
<1>12. NumberInv'
  BY <1>1, <1>5, <1>7 DEF NumberInv
<1>13. EmptiedInv'
  BY <1>1, <1>5, <1>7 DEF EmptiedInv
<1>14. OwedInv'
  BY <1>8, OwedFrame
<1>15. ASSUME NEW d \in Conns \ contested'
       PROVE  Agree(d)'
  <2>1. d \in Conns /\ d \in Hub!Threads /\ Agree(d)
    BY <1>1 DEF AgreeInv
  <2>2. Hub!Kicking(d)' \subseteq Hub!Kicking(d)
    BY <1>2, <1>5, <1>7 DEF Hub!Kicking
  <2>3. OwnCall(d)' => Hub!Kicking(d)' = {}
    <3>1. OwnCall(d)' => OwnCall(d)
      BY <1>2, <1>7, <2>1 DEF OwnCall
    <3> QED
      BY <2>1, <2>2, <3>1 DEF Agree
  <2>4. CASE d = c
    <3>1. Hub!Kicking(c) = {}
      BY <1>2, <2>1, <2>4 DEF Agree, OwnCall
    <3>2. \A u \in Hub!Threads : ~TakenOut(u, c)
      BY <1>2, <3>1 DEF Hub!Kicking, TakenOut
    <3>3. joins'[c] # NONE
      BY <1>2, <2>1, <2>4, <3>2 DEF Agree
    <3> QED
      BY <1>3, <1>5, <1>8, <2>3, <2>4, <3>2, <3>3 DEF Agree
  <2>5. CASE d # c
    <3>1. th'[d] = th[d] /\ (d \in Hub!Members' <=> d \in Hub!Members)
      BY <1>3, <1>7, <2>1, <2>5
    <3> QED
      BY <1>8, <2>1, <2>3, <3>1, AgreeFrame
  <2> QED
    BY <2>4, <2>5
<1>16. HearInv'
  BY <1>3, <1>5, <1>7 DEF HearInv
<1> QED
  BY <1>9, <1>10, <1>11, <1>12, <1>13, <1>14, <1>15, <1>16 DEF AgreeInv

\* Where a thread goes after its teardown.
LEMMA ResumeFields ==
  ASSUME Hub!HubConstants, HubInv, NEW t \in Hub!Threads,
         th[t].pc \in {"remove", "untrack"}, th'[t] = Hub!Resume(t)
  PROVE  /\ th'[t] \in Hub!Work /\ th'[t].next = "idle" /\ th'[t].steady \subseteq th[t].steady
         /\ th'[t].pc = th[t].next /\ th'[t].pc \in {"idle", "callback", "close"}
         /\ th'[t].pc = "idle" => th'[t] = Hub!Idle
         /\ th'[t].pc # "idle" => th'[t].conn = th[t].conn /\ th'[t].ref = th[t].ref
<1>1. th[t] \in Hub!Work
  BY DEF HubInv, Hub!TypeOK
<1>2. CASE th[t].next = "idle"
  <2>1. th'[t] = Hub!Idle
    BY <1>2 DEF Hub!Resume
  <2> QED
    BY <1>2, <2>1, IdleFields DEF HubInv
<1>3. CASE th[t].next # "idle"
  <2>1. th'[t] = [th[t] EXCEPT !.pc = th[t].next, !.next = "idle", !.gone = 0, !.sub = 0]
    BY <1>3 DEF Hub!Resume
  <2>2. th[t].next \in {"callback", "close"} /\ 0 \in 0..MaxJoins /\ 0 \in 0..hubNextSub
    BY <1>1, <1>3 DEF Hub!Work, Hub!HubConstants, HubInv, Hub!TypeOK
  <2>3. th'[t] \in Hub!Work
    BY <1>1, <2>1, <2>2 DEF Hub!Work, Hub!Pcs
  <2> QED
    BY <1>1, <2>1, <2>2, <2>3 DEF Hub!Work
<1> QED
  BY <1>2, <1>3

\* A teardown finds no membership to take out.
LEMMA NothingToRemove ==
  ASSUME Hub!HubConstants, HubInv, NEW t \in Hub!Threads, Hub!Remove(t), joins[th[t].conn] = NONE
  PROVE  HubInv'
<1> USE DEF HubInv, Hub!broker, Hub!counts
<1> DEFINE c == th[t].conn
<1>1. Conns \subseteq Hub!Threads /\ NONE \notin Conns
  BY NoneIsNone
<1>2. th[t].pc = "remove" /\ c \in Conns /\ joins' = joins
      /\ UNCHANGED <<conn, topic, tracked, subs, hubNextSub, made, admitted, left, contested,
                     casts, kicks>>
  BY DEF Hub!Remove, ControlInv, Hub!TypeOK
<1>3. th'[t] = Hub!Resume(t) /\ \A u \in Hub!Threads : u # t => th'[u] = th[u]
  BY DEF Hub!Remove, Hub!TypeOK
<1>4. /\ th'[t] \in Hub!Work /\ th'[t].next = "idle"
      /\ th'[t].pc = th[t].next /\ th'[t].pc \in {"idle", "callback", "close"}
      /\ th'[t].pc = "idle" => th'[t] = Hub!Idle
      /\ th'[t].pc # "idle" => th'[t].conn = c /\ th'[t].ref = th[t].ref
  BY <1>2, <1>3, ResumeFields
<1>5. /\ Hub!Work' = Hub!Work /\ Hub!Members' = Hub!Members
      /\ Hub!Departing' = Hub!Departing /\ \A u \in Hub!Departing : th'[u] = th[u]
  BY <1>2, <1>3, <1>4 DEF Hub!Work, Hub!Members, Hub!Departing
<1>6. /\ \A u \in Hub!Threads, d \in Conns : TakenOut(u, d)' <=> TakenOut(u, d)
      /\ \A u \in Hub!Threads, d \in Conns : TakenOut(u, d) => th'[u] = th[u]
  BY <1>2, <1>3, <1>4 DEF TakenOut
<1>7. \A u \in Hub!Threads : OwnCall(u)' => OwnCall(u) /\ th'[u].conn = th[u].conn
  BY <1>2, <1>3, <1>4 DEF OwnCall
<1>8. Hub!TypeOK'
  <2>1. th' \in [Hub!Threads -> Hub!Work]
    BY <1>3, <1>4 DEF Hub!Remove, Hub!TypeOK
  <2> QED
    BY <1>2, <1>5, <2>1 DEF Hub!TypeOK
<1>9. ControlInv'
  <2>1. ASSUME NEW u \in Hub!Threads
        PROVE  /\ th'[u].pc = "idle" => th'[u] = Hub!Idle
               /\ th'[u].pc \in {"remove", "forget", "unsubscribe", "untrack"} =>
                    th'[u].conn \in Conns
               /\ th'[u].next # "idle" =>
                    th'[u].pc \in {"remove", "forget", "unsubscribe", "untrack"}
               /\ th'[u].pc = "deliver" => th'[u].conn = NONE
               /\ OwnCall(u)' => u \in Conns /\ th'[u].conn = u /\ conn'[u] = "open"
    <3>1. OwnCall(u)' => u \in Conns /\ th'[u].conn = u /\ conn'[u] = "open"
      BY <1>2, <1>7 DEF ControlInv
    <3>2. CASE u = t
      BY <1>4, <3>1, <3>2
    <3>3. CASE u # t
      BY <1>3, <3>1, <3>3 DEF ControlInv
    <3> QED
      BY <3>2, <3>3
  <2>2. \A d \in Conns : joins'[d] # NONE => conn'[d] = "open"
    BY <1>2 DEF ControlInv
  <2> QED
    BY <2>1, <2>2 DEF ControlInv
<1>10. Hub!SubscribedWhileMembers' /\ DepartInv'
  BY <1>2, <1>5, BrokerFrame
<1>11. NumberInv'
  <2>1. ASSUME NEW d \in Conns, th'[d].next = "callback" \/ th'[d].pc = "callback"
        PROVE  th'[d].ref \in 1..made /\ <<d, th'[d].ref>> \notin admitted
    <3>1. CASE d = t
      BY <1>4, <2>1, <3>1 DEF NumberInv
    <3>2. CASE d # t
      BY <1>1, <1>3, <2>1, <3>2 DEF NumberInv
    <3> QED
      BY <3>1, <3>2
  <2> QED
    BY <1>2, <2>1 DEF NumberInv
<1>12. EmptiedInv'
  <2> SUFFICES ASSUME NEW d \in Conns,
                      \/ th'[d].pc \in {"callback", "close"}
                      \/ (th'[d].next # "idle" /\ th'[d].pc # "remove")
               PROVE  joins'[d] = NONE
    BY DEF EmptiedInv
  <2>1. CASE d = t
    <3>1. OwnCall(t)
      BY <1>4, <2>1 DEF OwnCall
    <3> QED
      BY <1>2, <2>1, <3>1 DEF ControlInv
  <2>2. CASE d # t
    BY <1>1, <1>2, <1>3, <2>2 DEF EmptiedInv
  <2> QED
    BY <2>1, <2>2
<1>13. OwedInv'
  BY <1>2, <1>6, OwedFrame
<1>14. ASSUME NEW d \in Conns \ contested'
       PROVE  Agree(d)'
  <2>1. d \in Conns /\ d \in Hub!Threads /\ Agree(d)
    BY <1>1, <1>2 DEF AgreeInv
  <2>2. Hub!Kicking(d)' \subseteq Hub!Kicking(d)
    BY <1>2, <1>3, <1>4 DEF Hub!Kicking
  <2>3. OwnCall(d)' => Hub!Kicking(d)' = {}
    BY <1>7, <2>1, <2>2 DEF Agree
  <2>4. th'[d].pc \in {"admit", "reply"} \/ th[d].pc \in {"admit", "reply"} => th'[d] = th[d]
    BY <1>2, <1>3, <1>4, <2>1
  <2> QED
    BY <1>2, <1>5, <1>6, <2>1, <2>3, <2>4, AgreeFrame
<1>15. HearInv'
  BY <1>2, <1>3, <1>4, <1>5 DEF HearInv
<1> QED
  BY <1>8, <1>9, <1>10, <1>11, <1>12, <1>13, <1>14, <1>15 DEF AgreeInv

\* A teardown takes the membership out of the map, and from then on it alone
\* holds it.
LEMMA RemoveKeeps ==
  ASSUME Hub!HubConstants, HubInv, NEW t \in Hub!Threads, Hub!Remove(t)
  PROVE  HubInv'
<1> USE DEF HubInv, Hub!broker, Hub!counts
<1> SUFFICES ASSUME joins[th[t].conn] # NONE
             PROVE  HubInv'
  BY NothingToRemove
<1>0. PICK c \in Conns : th[t].conn = c
  BY DEF Hub!Remove, ControlInv
<1>1. Conns \subseteq Hub!Threads /\ NONE \notin Conns /\ NONE \notin Nat
  BY NoneIsNone
<1>2. /\ th[t].pc = "remove" /\ th[t].conn = c /\ th[t] \in Hub!Work /\ joins[c] # NONE
      /\ joins[c] \in 1..MaxJoins /\ joins[c] \in Nat /\ joins[c] \in 0..MaxJoins
      /\ UNCHANGED <<conn, topic, tracked, subs, hubNextSub, made, admitted, left, contested,
                     casts, kicks>>
  BY <1>0 DEF Hub!Remove, ControlInv, Hub!TypeOK
<1>3. /\ joins'[c] = NONE /\ joins' \in [Conns -> (1..MaxJoins) \cup {NONE}]
      /\ \A d \in Conns : d # c => joins'[d] = joins[d]
  BY <1>2 DEF Hub!Remove, Hub!TypeOK
<1>4. /\ th'[t] = [th[t] EXCEPT !.pc = "forget", !.gone = joins[c]]
      /\ \A u \in Hub!Threads : u # t => th'[u] = th[u]
      /\ th' = [th EXCEPT ![t] = th'[t]]
  BY <1>2 DEF Hub!Remove, Hub!TypeOK
<1>5. /\ th'[t] \in Hub!Work /\ th'[t].next = th[t].next /\ th'[t].pc = "forget"
      /\ th'[t].conn = c /\ th'[t].ref = th[t].ref /\ th'[t].gone = joins[c]
  BY <1>2, <1>4 DEF Hub!Work, Hub!Pcs
<1>6. /\ Hub!Work' = Hub!Work /\ Hub!Members' = Hub!Members
      /\ Hub!Departing' = Hub!Departing /\ \A u \in Hub!Departing : th'[u] = th[u]
  <2>1. Hub!Work' = Hub!Work /\ Hub!Members' = Hub!Members
    BY <1>2 DEF Hub!Work, Hub!Members
  <2> QED
    BY <1>2, <1>4, <1>5, <2>1 DEF Hub!Departing
<1>7. /\ \A u \in Hub!Threads, d \in Conns :
           TakenOut(u, d)' <=> TakenOut(u, d) \/ (u = t /\ d = c)
      /\ \A d \in Conns : ~TakenOut(t, d)
      /\ \A u \in Hub!Threads, d \in Conns : TakenOut(u, d) => th'[u] = th[u] /\ u # t
  BY <1>2, <1>4, <1>5 DEF TakenOut
<1>8. \A u \in Hub!Threads : OwnCall(u)' <=> OwnCall(u)
  BY <1>2, <1>4, <1>5 DEF OwnCall
<1>9. Hub!TypeOK'
  <2>1. th' \in [Hub!Threads -> Hub!Work]
    BY <1>4, <1>5 DEF Hub!TypeOK
  <2> QED
    BY <1>2, <1>3, <1>6, <2>1 DEF Hub!TypeOK
<1>10. ControlInv'
  <2>1. ASSUME NEW u \in Hub!Threads
        PROVE  /\ th'[u].pc = "idle" => th'[u] = Hub!Idle
               /\ th'[u].pc \in {"remove", "forget", "unsubscribe", "untrack"} =>
                    th'[u].conn \in Conns
               /\ th'[u].next # "idle" =>
                    th'[u].pc \in {"remove", "forget", "unsubscribe", "untrack"}
               /\ th'[u].pc = "deliver" => th'[u].conn = NONE
               /\ OwnCall(u)' => u \in Conns /\ th'[u].conn = u /\ conn'[u] = "open"
    <3>1. th'[u].conn = th[u].conn
      BY <1>2, <1>4, <1>5
    <3>2. OwnCall(u)' => u \in Conns /\ th'[u].conn = u /\ conn'[u] = "open"
      BY <1>2, <1>8, <3>1 DEF ControlInv
    <3>3. CASE u = t
      BY <1>2, <1>5, <3>2, <3>3
    <3>4. CASE u # t
      BY <1>4, <3>2, <3>4 DEF ControlInv
    <3> QED
      BY <3>3, <3>4
  <2>2. \A d \in Conns : joins'[d] # NONE => conn'[d] = "open"
    BY <1>2, <1>3 DEF ControlInv
  <2> QED
    BY <2>1, <2>2 DEF ControlInv
<1>11. Hub!SubscribedWhileMembers' /\ DepartInv'
  BY <1>2, <1>6, BrokerFrame
<1>12. NumberInv'
  <2>1. ASSUME NEW d \in Conns, th'[d].next = "callback" \/ th'[d].pc = "callback"
        PROVE  th'[d].ref \in 1..made /\ <<d, th'[d].ref>> \notin admitted
    <3>1. CASE d = t
      BY <1>5, <2>1, <3>1 DEF NumberInv
    <3>2. CASE d # t
      BY <1>1, <1>4, <2>1, <3>2 DEF NumberInv
    <3> QED
      BY <3>1, <3>2
  <2> QED
    BY <1>2, <2>1 DEF NumberInv
<1>13. EmptiedInv'
  <2> SUFFICES ASSUME NEW d \in Conns,
                      \/ th'[d].pc \in {"callback", "close"}
                      \/ (th'[d].next # "idle" /\ th'[d].pc # "remove")
               PROVE  joins'[d] = NONE
    BY DEF EmptiedInv
  <2>1. CASE d = t
    <3>1. OwnCall(t)
      BY <1>5, <2>1 DEF OwnCall
    <3>2. t = c
      BY <1>2, <3>1 DEF ControlInv
    <3> QED
      BY <1>3, <2>1, <3>2
  <2>2. CASE d # t
    BY <1>1, <1>3, <1>4, <2>2 DEF EmptiedInv
  <2> QED
    BY <2>1, <2>2
<1>14. OwedInv'
  <2>1. ASSUME NEW d \in Conns, NEW x \in 1..MaxJoins
        PROVE  <<d, x>> \in admitted' \ left' <=>
                 joins'[d] = x \/ \E u \in Hub!Threads : TakenOut(u, d)' /\ th'[u].gone = x
    <3>1. <<d, x>> \in admitted \ left <=>
            joins[d] = x \/ \E u \in Hub!Threads : TakenOut(u, d) /\ th[u].gone = x
      BY DEF OwedInv
    <3>2. (\E u \in Hub!Threads : TakenOut(u, d)' /\ th'[u].gone = x)
            <=> \/ \E u \in Hub!Threads : TakenOut(u, d) /\ th[u].gone = x
                \/ (d = c /\ x = joins[c])
      BY <1>5, <1>7
    <3>3. joins'[d] = x \/ (d = c /\ x = joins[c]) <=> joins[d] = x
      BY <1>1, <1>3
    <3> QED
      BY <1>2, <3>1, <3>2, <3>3
  <2>2. \A d \in Conns : joins'[d] = joins[d] \/ (d = c /\ joins'[d] = NONE)
    BY <1>3
  <2>3. ASSUME NEW u \in Hub!Threads, NEW d \in Conns, TakenOut(u, d)'
        PROVE  th'[u].gone \in 1..MaxJoins /\ th'[u].gone # joins'[d]
    <3>1. CASE u = t
      BY <1>1, <1>2, <1>3, <1>5, <1>7, <2>3, <3>1
    <3>2. CASE u # t
      <4>1. TakenOut(u, d) /\ th'[u].gone = th[u].gone
        BY <1>7, <2>3, <3>2
      <4>2. th'[u].gone \in 1..MaxJoins /\ th'[u].gone # joins[d]
        BY <4>1 DEF OwedInv
      <4> QED
        BY <1>1, <2>2, <4>2
    <3> QED
      BY <3>1, <3>2
  <2>4. ASSUME NEW u \in Hub!Threads, u # t, TakenOut(u, c)'
        PROVE  th'[u].gone # joins[c]
    <3>1. TakenOut(u, c) /\ th'[u].gone = th[u].gone
      BY <1>2, <1>7, <2>4
    <3> QED
      BY <1>2, <3>1 DEF OwedInv
  <2>5. ASSUME NEW u \in Hub!Threads, NEW v \in Hub!Threads, NEW d \in Conns,
               TakenOut(u, d)', TakenOut(v, d)', th'[u].gone = th'[v].gone
        PROVE  u = v
    <3>1. CASE u = t \/ v = t
      <4>1. d = c
        BY <1>7, <2>5, <3>1
      <4> QED
        BY <1>5, <2>4, <2>5, <3>1, <4>1
    <3>2. CASE u # t /\ v # t
      <4>1. TakenOut(u, d) /\ TakenOut(v, d) /\ th[u].gone = th[v].gone
        BY <1>7, <2>5, <3>2
      <4> QED
        BY <4>1 DEF OwedInv
    <3> QED
      BY <3>1, <3>2
  <2>6. left' \subseteq admitted'
    BY <1>2 DEF OwedInv
  <2> QED
    BY <2>1, <2>3, <2>5, <2>6 DEF OwedInv
<1>15. ASSUME NEW d \in Conns \ contested'
       PROVE  Agree(d)'
  <2>1. d \in Conns /\ d \in Hub!Threads /\ Agree(d)
    BY <1>1, <1>2 DEF AgreeInv
  <2>2. Hub!Kicking(d)' \subseteq Hub!Kicking(d)
    <3>1. \A u \in Hub!Threads : th'[u].conn = th[u].conn /\ (th[u].pc = "idle" => th'[u].pc = "idle")
      BY <1>2, <1>4, <1>5
    <3> QED
      BY <3>1 DEF Hub!Kicking
  <2>3. OwnCall(d)' => Hub!Kicking(d)' = {}
    BY <1>8, <2>1, <2>2 DEF Agree
  <2>4. CASE d = c
    <3>1. \A u \in Hub!Threads : ~TakenOut(u, c)
      BY <1>2, <2>1, <2>4 DEF Agree
    <3>2. th[c].pc # "admit"
      <4>1. th[c].pc = "admit" => t \in Hub!Kicking(c) /\ OwnCall(c)
        BY <1>2 DEF Hub!Kicking, OwnCall
      <4> QED
        BY <2>1, <2>4, <4>1 DEF Agree
    <3>3. c \in Hub!Members
      BY <1>2, <2>1, <2>4, <3>1, <3>2 DEF Agree
    <3>4. \A u \in Hub!Threads : TakenOut(u, c)' <=> u = t
      BY <1>2, <1>7, <3>1
    <3> QED
      BY <1>3, <1>5, <1>6, <2>3, <2>4, <3>3, <3>4 DEF Agree
  <2>5. CASE d # c
    <3>1. \A u \in Hub!Threads : TakenOut(u, d)' <=> TakenOut(u, d)
      BY <1>7, <2>1, <2>5
    <3>2. th'[d].pc \in {"admit", "reply"} \/ th[d].pc \in {"admit", "reply"} => th'[d] = th[d]
      BY <1>2, <1>4, <1>5, <2>1
    <3> QED
      BY <1>2, <1>3, <1>6, <1>7, <2>1, <2>3, <2>5, <3>1, <3>2, AgreeFrame
  <2> QED
    BY <2>4, <2>5
<1>16. HearInv'
  BY <1>2, <1>4, <1>5, <1>6 DEF HearInv
<1> QED
  BY <1>9, <1>10, <1>11, <1>12, <1>13, <1>14, <1>15, <1>16 DEF AgreeInv

\* What a broadcast that the membership of c survived means to it: forget_member
\* changes nothing else of a thread at rest.
LEMMA HeirsAtRest ==
  ASSUME Hub!HubConstants, Hub!TypeOK, NEW c \in Conns
  PROVE  [Hub!Idle EXCEPT !.steady = Hub!Idle.steady \ {c}] = Hub!Idle
<1>1. Hub!Idle.steady \ {c} = Hub!Idle.steady
  BY IdleFields
<1>2. [Hub!Idle EXCEPT !.steady = Hub!Idle.steady] = Hub!Idle
  BY DEF Hub!Idle
<1> QED
  BY <1>1, <1>2

\* The topic's members lose the connection, and the last of them takes the entry
\* and its subscription along.
LEMMA ForgetKeeps ==
  ASSUME Hub!HubConstants, HubInv, NEW t \in Hub!Threads, Hub!Forget(t)
  PROVE  HubInv'
<1> USE DEF HubInv, Hub!broker, Hub!counts
<1>0. PICK c \in Conns : th[t].conn = c
  BY DEF Hub!Forget, ControlInv
<1> DEFINE last == topic # NONE /\ Hub!Members \ {c} = {}
           heir(u) == [th[u] EXCEPT !.steady = @ \ {c}]
<1>1. Conns \subseteq Hub!Threads /\ NONE \notin Conns
  BY NoneIsNone
<1>2. /\ th[t].pc = "forget" /\ th[t].conn = c /\ th \in [Hub!Threads -> Hub!Work]
      /\ \A u \in Hub!Threads : th[u] \in Hub!Work
      /\ UNCHANGED <<conn, joins, tracked, subs, hubNextSub, made, admitted, left, contested,
                     casts, kicks>>
  BY <1>0 DEF Hub!Forget, Hub!TypeOK
<1>3. /\ Hub!Members' = Hub!Members \ {c}
      /\ last => topic' = NONE
      /\ ~last => \/ topic' = NONE /\ topic = NONE
                  \/ topic' # NONE /\ topic # NONE /\ topic'.sub = topic.sub
      /\ topic' = NONE \/ topic' \in [sub : 1..hubNextSub, members : (SUBSET Conns) \ {{}}]
  <2>1. CASE topic = NONE
    BY <1>0, <2>1 DEF Hub!Forget, Hub!Members
  <2>2. CASE topic # NONE /\ Hub!Members \ {c} = {}
    <3>1. topic' = NONE
      BY <1>0, <2>2 DEF Hub!Forget
    <3> QED
      BY <2>2, <3>1 DEF Hub!Members
  <2>3. CASE topic # NONE /\ Hub!Members \ {c} # {}
    <3>1. topic = [sub |-> topic.sub, members |-> topic.members] /\ topic.sub \in 1..hubNextSub
          /\ Hub!Members \subseteq Conns /\ hubNextSub \in Nat
      BY <2>3, TopicFields DEF Hub!TypeOK
    <3>2. topic' = [sub |-> topic.sub, members |-> Hub!Members \ {c}]
      BY <1>0, <2>3, <3>1 DEF Hub!Forget
    <3>3. topic' # NONE
      BY <3>1, <3>2, NoneIsNone
    <3>4. Hub!Members' = Hub!Members \ {c}
      BY <3>2, <3>3 DEF Hub!Members
    <3> QED
      BY <2>3, <3>1, <3>2, <3>3, <3>4
  <2> QED
    BY <2>1, <2>2, <2>3
<1>4. /\ \A u \in Hub!Threads : u # t => th'[u] = heir(u)
      /\ th'[t] = [heir(t) EXCEPT !.pc = IF last THEN "unsubscribe" ELSE "untrack",
                                  !.sub = IF last THEN topic.sub ELSE @]
      /\ th' \in [Hub!Threads -> {th'[u] : u \in Hub!Threads}]
  <2>1. th' = [[u \in Hub!Threads |-> heir(u)]
                 EXCEPT ![t].pc = IF last THEN "unsubscribe" ELSE "untrack",
                        ![t].sub = IF last THEN topic.sub ELSE @]
    BY <1>0 DEF Hub!Forget
  <2> HIDE DEF last, heir
  <2> QED
    BY <2>1
<1>5. last => topic.sub \in 0..hubNextSub
  BY TopicFields DEF Hub!TypeOK
<1>6. \A u \in Hub!Threads : /\ heir(u) \in Hub!Work
                             /\ heir(u).pc = th[u].pc /\ heir(u).conn = th[u].conn
                             /\ heir(u).next = th[u].next /\ heir(u).ref = th[u].ref
                             /\ heir(u).gone = th[u].gone /\ heir(u).sub = th[u].sub
                             /\ heir(u).todo = th[u].todo /\ heir(u).exclude = th[u].exclude
                             /\ heir(u).heard = th[u].heard
                             /\ heir(u).steady = th[u].steady \ {c}
  BY <1>2 DEF Hub!Work
<1>7. /\ th'[t] \in Hub!Work /\ th'[t].conn = c /\ th'[t].next = th[t].next
      /\ th'[t].ref = th[t].ref /\ th'[t].gone = th[t].gone
      /\ last => th'[t].pc = "unsubscribe" /\ th'[t].sub = topic.sub
      /\ ~last => th'[t].pc = "untrack" /\ th'[t].sub = th[t].sub
  <2>1. heir(t) \in Hub!Work /\ heir(t).conn = c /\ heir(t).next = th[t].next
        /\ heir(t).ref = th[t].ref /\ heir(t).gone = th[t].gone /\ heir(t).sub = th[t].sub
    BY <1>2, <1>6
  <2> HIDE DEF heir, last
  <2>2. CASE last
    <3>1. th'[t] = [heir(t) EXCEPT !.pc = "unsubscribe", !.sub = topic.sub]
      BY <1>4, <2>2
    <3> QED
      BY <1>5, <2>1, <2>2, <3>1 DEF Hub!Work, Hub!Pcs
  <2>3. CASE ~last
    <3>1. th'[t] = [heir(t) EXCEPT !.pc = "untrack", !.sub = heir(t).sub]
      BY <1>4, <2>3
    <3> QED
      BY <2>1, <2>3, <3>1 DEF Hub!Work, Hub!Pcs
  <2> QED
    BY <2>2, <2>3
<1>8. \A u \in Hub!Threads : u # t =>
        /\ th'[u] \in Hub!Work /\ th'[u].pc = th[u].pc /\ th'[u].conn = th[u].conn
        /\ th'[u].next = th[u].next /\ th'[u].ref = th[u].ref
        /\ th'[u].gone = th[u].gone /\ th'[u].sub = th[u].sub
        /\ th'[u].todo = th[u].todo /\ th'[u].exclude = th[u].exclude
        /\ th'[u].heard = th[u].heard /\ th'[u].steady = th[u].steady \ {c}
        /\ th[u] = Hub!Idle => th'[u] = Hub!Idle
  <2>1. \A u \in Hub!Threads : th[u] = Hub!Idle => heir(u) = Hub!Idle
    BY HeirsAtRest
  <2> HIDE DEF heir, last
  <2> QED
    BY <1>4, <1>6, <2>1
<1> HIDE DEF last, heir
<1>9. /\ \A u \in Hub!Threads, d \in Conns : TakenOut(u, d)' <=> TakenOut(u, d)
      /\ \A u \in Hub!Threads : th'[u].gone = th[u].gone
      /\ \A u \in Hub!Threads : OwnCall(u)' <=> OwnCall(u)
      /\ \A u \in Hub!Threads : th'[u].conn = th[u].conn /\ th'[u].next = th[u].next
      /\ th'[t].pc \in {"unsubscribe", "untrack"}
  BY <1>2, <1>7, <1>8 DEF TakenOut, OwnCall
<1>10. Hub!TypeOK'
  <2>1. Hub!Work' = Hub!Work
    BY <1>2 DEF Hub!Work
  <2>2. \A u \in Hub!Threads : th'[u] \in Hub!Work
    BY <1>7, <1>8
  <2>3. th' \in [Hub!Threads -> Hub!Work]
    BY <1>4, <2>2
  <2> QED
    BY <1>2, <1>3, <2>1, <2>3 DEF Hub!TypeOK
<1>11. ControlInv'
  <2>1. ASSUME NEW u \in Hub!Threads
        PROVE  /\ th'[u].pc = "idle" => th'[u] = Hub!Idle
               /\ th'[u].pc \in {"remove", "forget", "unsubscribe", "untrack"} =>
                    th'[u].conn \in Conns
               /\ th'[u].next # "idle" =>
                    th'[u].pc \in {"remove", "forget", "unsubscribe", "untrack"}
               /\ th'[u].pc = "deliver" => th'[u].conn = NONE
               /\ OwnCall(u)' => u \in Conns /\ th'[u].conn = u /\ conn'[u] = "open"
    <3>1. OwnCall(u)' => u \in Conns /\ th'[u].conn = u /\ conn'[u] = "open"
      BY <1>2, <1>9 DEF ControlInv
    <3>2. CASE u = t
      BY <1>2, <1>9, <3>1, <3>2
    <3>3. CASE u # t
      BY <1>8, <3>1, <3>3 DEF ControlInv
    <3> QED
      BY <3>2, <3>3
  <2>2. \A d \in Conns : joins'[d] # NONE => conn'[d] = "open"
    BY <1>2 DEF ControlInv
  <2> QED
    BY <2>1, <2>2 DEF ControlInv
<1>12. Hub!SubscribedWhileMembers' /\ DepartInv'
  <2>1. \A u \in Hub!Departing : u \in Hub!Threads /\ u # t /\ th'[u].sub = th[u].sub
    BY <1>2, <1>8 DEF Hub!Departing
  <2>2. CASE last
    <3>1. Hub!Departing' = Hub!Departing \cup {t} /\ th'[t].sub = topic.sub /\ topic' = NONE
          /\ topic # NONE
      BY <1>2, <1>3, <1>7, <1>8, <2>2 DEF Hub!Departing, last
    <3>2. {th'[u].sub : u \in Hub!Departing'} = {th[u].sub : u \in Hub!Departing} \cup {topic.sub}
      BY <2>1, <3>1
    <3>3. Hub!SubscribedWhileMembers'
      BY <1>2, <3>1, <3>2 DEF Hub!SubscribedWhileMembers
    <3>4. ASSUME NEW u \in Hub!Departing', NEW v \in Hub!Departing', th'[u].sub = th'[v].sub
          PROVE  u = v
      BY <2>1, <3>1, <3>4 DEF Hub!SubscribedWhileMembers, DepartInv
    <3> QED
      BY <3>3, <3>4 DEF DepartInv
  <2>3. CASE ~last
    <3>1. Hub!Departing' = Hub!Departing
      BY <1>2, <1>7, <1>8, <2>3 DEF Hub!Departing
    <3>2. {th'[u].sub : u \in Hub!Departing'} = {th[u].sub : u \in Hub!Departing}
      BY <2>1, <3>1
    <3>3. Hub!SubscribedWhileMembers'
      <4>1. CASE topic = NONE
        BY <1>2, <1>3, <2>3, <3>2, <4>1 DEF Hub!SubscribedWhileMembers
      <4>2. CASE topic # NONE
        <5>1. topic' # NONE /\ topic'.sub = topic.sub
          BY <1>3, <2>3, <4>2
        <5>2. \A u \in Hub!Departing' : th'[u].sub # topic'.sub
          BY <2>1, <3>1, <4>2, <5>1 DEF Hub!SubscribedWhileMembers
        <5> QED
          BY <1>2, <3>2, <4>2, <5>1, <5>2 DEF Hub!SubscribedWhileMembers
      <4> QED
        BY <4>1, <4>2
    <3>4. ASSUME NEW u \in Hub!Departing', NEW v \in Hub!Departing', th'[u].sub = th'[v].sub
          PROVE  u = v
      BY <2>1, <3>1, <3>4 DEF DepartInv
    <3> QED
      BY <3>3, <3>4 DEF DepartInv
  <2> QED
    BY <2>2, <2>3
<1>13. NumberInv'
  <2>1. ASSUME NEW d \in Conns, th'[d].next = "callback" \/ th'[d].pc = "callback"
        PROVE  th'[d].ref \in 1..made /\ <<d, th'[d].ref>> \notin admitted
    <3>1. CASE d = t
      BY <1>7, <1>9, <2>1, <3>1 DEF NumberInv
    <3>2. CASE d # t
      BY <1>1, <1>8, <2>1, <3>2 DEF NumberInv
    <3> QED
      BY <3>1, <3>2
  <2> QED
    BY <1>2, <2>1 DEF NumberInv
<1>14. EmptiedInv'
  <2> SUFFICES ASSUME NEW d \in Conns,
                      \/ th'[d].pc \in {"callback", "close"}
                      \/ (th'[d].next # "idle" /\ th'[d].pc # "remove")
               PROVE  joins'[d] = NONE
    BY DEF EmptiedInv
  <2>1. CASE d = t
    BY <1>2, <1>9, <2>1 DEF EmptiedInv
  <2>2. CASE d # t
    BY <1>1, <1>2, <1>8, <2>2 DEF EmptiedInv
  <2> QED
    BY <2>1, <2>2
<1>15. OwedInv'
  BY <1>2, <1>9, OwedFrame
<1>16. ASSUME NEW d \in Conns \ contested'
       PROVE  Agree(d)'
  <2>1. d \in Conns /\ d \in Hub!Threads /\ Agree(d)
    BY <1>1, <1>2 DEF AgreeInv
  <2>2. Hub!Kicking(d)' \subseteq Hub!Kicking(d)
    <3>1. \A u \in Hub!Threads : th'[u].conn = th[u].conn /\ (th[u].pc = "idle" => th'[u].pc = "idle")
      BY <1>2, <1>8, <1>9
    <3> QED
      BY <3>1 DEF Hub!Kicking
  <2>3. OwnCall(d)' => Hub!Kicking(d)' = {}
    BY <1>9, <2>1, <2>2 DEF Agree
  <2>4. CASE d = c
    <3>1. TakenOut(t, d) /\ TakenOut(t, d)'
      BY <1>2, <1>9, <2>4 DEF TakenOut
    <3>2. \A u \in Hub!Threads : TakenOut(u, d)' => u = t
      BY <1>9, <2>1, <3>1 DEF Agree
    <3>3. joins'[d] = NONE /\ d \notin Hub!Members'
      BY <1>2, <1>3, <2>1, <2>4, <3>1 DEF Agree
    <3>4. \A u, v \in Hub!Threads : TakenOut(u, d)' /\ TakenOut(v, d)' => u = v
      BY <3>2
    <3>5. \A u \in Hub!Threads : TakenOut(u, d)' => th'[u].pc # "forget"
      BY <1>9, <3>2
    <3> QED
      BY <2>3, <3>1, <3>3, <3>4, <3>5 DEF Agree
  <2>5. CASE d # c
    <3>1. \A u \in Hub!Threads : TakenOut(u, d) => u # t /\ th'[u].pc = th[u].pc
      BY <1>2, <1>8, <2>5 DEF TakenOut
    <3>2. d \in Hub!Members' <=> d \in Hub!Members
      BY <1>3, <2>5
    <3>3. th'[d].pc \in {"admit", "reply"} \/ th[d].pc \in {"admit", "reply"} =>
            th'[d].pc = th[d].pc
      BY <1>2, <1>8, <1>9, <2>1
    <3> QED
      BY <1>2, <1>9, <2>1, <2>3, <3>1, <3>2, <3>3, AgreeFrame
  <2> QED
    BY <2>4, <2>5
<1>17. HearInv'
  <2> SUFFICES ASSUME NEW u \in Hub!Threads, th'[u].pc = "deliver"
               PROVE  /\ th'[u].steady \subseteq Hub!Members'
                      /\ th'[u].todo = {} =>
                           th'[u].steady \ {th'[u].exclude} \subseteq th'[u].heard
    BY DEF HearInv
  <2>1. u # t
    BY <1>9
  <2> QED
    BY <1>3, <1>8, <2>1 DEF HearInv
<1> QED
  BY <1>10, <1>11, <1>12, <1>13, <1>14, <1>15, <1>16, <1>17 DEF AgreeInv

\* The unsubscription cancels the departing thread's own subscription and no other.
LEMMA BrokerUnsubscribeKeeps ==
  ASSUME Hub!HubConstants, HubInv, NEW t \in Hub!Threads, Hub!BrokerUnsubscribe(t)
  PROVE  HubInv'
<1> USE DEF HubInv, Hub!broker, Hub!counts
<1>1. Conns \subseteq Hub!Threads
  BY NoneIsNone
<1>2. /\ th[t].pc = "unsubscribe" /\ th[t] \in Hub!Work /\ subs' = subs \ {th[t].sub}
      /\ th'[t] = [th[t] EXCEPT !.pc = "untrack"]
      /\ \A u \in Hub!Threads : u # t => th'[u] = th[u]
      /\ UNCHANGED <<conn, joins, topic, tracked, hubNextSub, made, admitted, left, contested,
                     casts, kicks>>
  BY DEF Hub!BrokerUnsubscribe, Hub!Unsubscribe, Hub!Goes, Hub!TypeOK
<1>3. /\ th'[t] \in Hub!Work /\ th'[t].pc = "untrack" /\ th'[t].conn = th[t].conn
      /\ th'[t].next = th[t].next /\ th'[t].ref = th[t].ref /\ th'[t].gone = th[t].gone
  BY <1>2 DEF Hub!Work, Hub!Pcs
<1>4. /\ \A u \in Hub!Threads, d \in Conns : TakenOut(u, d)' <=> TakenOut(u, d)
      /\ \A u \in Hub!Threads, d \in Conns : TakenOut(u, d) => th'[u].gone = th[u].gone
      /\ \A u \in Hub!Threads : OwnCall(u)' <=> OwnCall(u)
      /\ \A u \in Hub!Threads : th'[u].conn = th[u].conn /\ th'[u].next = th[u].next
  BY <1>2, <1>3 DEF TakenOut, OwnCall
<1>5. Hub!Work' = Hub!Work /\ Hub!Members' = Hub!Members
  BY <1>2 DEF Hub!Work, Hub!Members
<1>6. Hub!TypeOK'
  <2>1. th' \in [Hub!Threads -> Hub!Work]
    BY <1>2, <1>3 DEF Hub!BrokerUnsubscribe, Hub!Goes, Hub!TypeOK
  <2> QED
    BY <1>2, <1>5, <2>1 DEF Hub!TypeOK
<1>7. ControlInv'
  <2>1. ASSUME NEW u \in Hub!Threads
        PROVE  /\ th'[u].pc = "idle" => th'[u] = Hub!Idle
               /\ th'[u].pc \in {"remove", "forget", "unsubscribe", "untrack"} =>
                    th'[u].conn \in Conns
               /\ th'[u].next # "idle" =>
                    th'[u].pc \in {"remove", "forget", "unsubscribe", "untrack"}
               /\ th'[u].pc = "deliver" => th'[u].conn = NONE
               /\ OwnCall(u)' => u \in Conns /\ th'[u].conn = u /\ conn'[u] = "open"
    <3>1. OwnCall(u)' => u \in Conns /\ th'[u].conn = u /\ conn'[u] = "open"
      BY <1>2, <1>4 DEF ControlInv
    <3>2. CASE u = t
      BY <1>2, <1>3, <3>1, <3>2 DEF ControlInv
    <3>3. CASE u # t
      BY <1>2, <3>1, <3>3 DEF ControlInv
    <3> QED
      BY <3>2, <3>3
  <2>2. \A d \in Conns : joins'[d] # NONE => conn'[d] = "open"
    BY <1>2 DEF ControlInv
  <2> QED
    BY <2>1, <2>2 DEF ControlInv
<1>8. Hub!SubscribedWhileMembers' /\ DepartInv'
  <2>1. Hub!Departing' = Hub!Departing \ {t} /\ t \in Hub!Departing /\ \A u \in Hub!Departing' : th'[u] = th[u]
    BY <1>2, <1>3 DEF Hub!Departing
  <2>2. \A u \in Hub!Departing' : th[u].sub # th[t].sub
    BY <2>1 DEF DepartInv
  <2>3. {th'[u].sub : u \in Hub!Departing'} = {th[u].sub : u \in Hub!Departing} \ {th[t].sub}
    BY <2>1, <2>2
  <2>4. topic # NONE => topic.sub # th[t].sub
    BY <2>1 DEF Hub!SubscribedWhileMembers
  <2>5. Hub!SubscribedWhileMembers'
    BY <1>2, <2>1, <2>3, <2>4 DEF Hub!SubscribedWhileMembers
  <2>6. ASSUME NEW u \in Hub!Departing', NEW v \in Hub!Departing', th'[u].sub = th'[v].sub
        PROVE  u = v
    BY <2>1, <2>6 DEF DepartInv
  <2> QED
    BY <2>5, <2>6 DEF DepartInv
<1>9. NumberInv'
  <2>1. ASSUME NEW d \in Conns, th'[d].next = "callback" \/ th'[d].pc = "callback"
        PROVE  th'[d].ref \in 1..made /\ <<d, th'[d].ref>> \notin admitted
    <3>1. CASE d = t
      BY <1>3, <2>1, <3>1 DEF NumberInv
    <3>2. CASE d # t
      BY <1>1, <1>2, <2>1, <3>2 DEF NumberInv
    <3> QED
      BY <3>1, <3>2
  <2> QED
    BY <1>2, <2>1 DEF NumberInv
<1>10. EmptiedInv'
  <2> SUFFICES ASSUME NEW d \in Conns,
                      \/ th'[d].pc \in {"callback", "close"}
                      \/ (th'[d].next # "idle" /\ th'[d].pc # "remove")
               PROVE  joins'[d] = NONE
    BY DEF EmptiedInv
  <2>1. CASE d = t
    BY <1>2, <1>3, <2>1 DEF EmptiedInv
  <2>2. CASE d # t
    BY <1>1, <1>2, <2>2 DEF EmptiedInv
  <2> QED
    BY <2>1, <2>2
<1>11. OwedInv'
  BY <1>2, <1>4, OwedFrame
<1>12. ASSUME NEW d \in Conns \ contested'
       PROVE  Agree(d)'
  <2>1. d \in Conns /\ d \in Hub!Threads /\ Agree(d)
    BY <1>1, <1>2 DEF AgreeInv
  <2>2. Hub!Kicking(d)' \subseteq Hub!Kicking(d)
    <3>1. \A u \in Hub!Threads : th'[u].conn = th[u].conn /\ (th[u].pc = "idle" => th'[u].pc = "idle")
      BY <1>2, <1>4
    <3> QED
      BY <3>1 DEF Hub!Kicking
  <2>3. OwnCall(d)' => Hub!Kicking(d)' = {}
    BY <1>4, <2>1, <2>2 DEF Agree
  <2>4. \A u \in Hub!Threads : th'[u].pc = th[u].pc
                           \/ (th[u].pc = "unsubscribe" /\ th'[u].pc = "untrack")
    BY <1>2, <1>3
  <2> QED
    BY <1>2, <1>4, <1>5, <2>1, <2>3, <2>4, AgreeFrame
<1>13. HearInv'
  BY <1>2, <1>3, <1>5 DEF HearInv
<1> QED
  BY <1>6, <1>7, <1>8, <1>9, <1>10, <1>11, <1>12, <1>13 DEF AgreeInv

\* The thread that took the membership out reports its end, and nobody else can.
LEMMA LeftKeeps ==
  ASSUME Hub!HubConstants, HubInv, NEW t \in Hub!Threads, Hub!Left(t)
  PROVE  HubInv'
<1> USE DEF HubInv, Hub!broker, Hub!counts
<1>0. PICK c \in Conns : th[t].conn = c
  BY DEF Hub!Left, ControlInv
<1>1. Conns \subseteq Hub!Threads /\ NONE \notin Conns
  BY NoneIsNone
<1>2. /\ th[t].pc = "untrack" /\ th[t].conn = c
      /\ tracked' = tracked \ {c} /\ left' = left \cup {<<c, th[t].gone>>}
      /\ UNCHANGED <<conn, joins, topic, subs, hubNextSub, made, admitted, contested, casts, kicks>>
  BY <1>0 DEF Hub!Left
<1>3. th'[t] = Hub!Resume(t) /\ \A u \in Hub!Threads : u # t => th'[u] = th[u]
  BY DEF Hub!Left, Hub!TypeOK
<1>4. /\ th'[t] \in Hub!Work /\ th'[t].next = "idle"
      /\ th'[t].pc = th[t].next /\ th'[t].pc \in {"idle", "callback", "close"}
      /\ th'[t].pc = "idle" => th'[t] = Hub!Idle
      /\ th'[t].pc # "idle" => th'[t].conn = c /\ th'[t].ref = th[t].ref
  BY <1>2, <1>3, ResumeFields
<1>5. /\ Hub!Work' = Hub!Work /\ Hub!Members' = Hub!Members
      /\ Hub!Departing' = Hub!Departing /\ \A u \in Hub!Departing : th'[u] = th[u]
  BY <1>2, <1>3, <1>4 DEF Hub!Work, Hub!Members, Hub!Departing
<1>6. /\ TakenOut(t, c)
      /\ \A u \in Hub!Threads, d \in Conns :
           TakenOut(u, d)' <=> TakenOut(u, d) /\ ~(u = t /\ d = c)
      /\ \A u \in Hub!Threads, d \in Conns : TakenOut(u, d)' => th'[u] = th[u] /\ u # t
  BY <1>2, <1>3, <1>4 DEF TakenOut
<1>7. \A u \in Hub!Threads : OwnCall(u)' => OwnCall(u) /\ th'[u].conn = th[u].conn
  BY <1>2, <1>3, <1>4 DEF OwnCall
<1>8. /\ th[t].gone \in 1..MaxJoins /\ <<c, th[t].gone>> \in admitted \ left
      /\ joins[c] # th[t].gone
  BY <1>6 DEF OwedInv
<1>9. Hub!TypeOK'
  <2>1. th' \in [Hub!Threads -> Hub!Work]
    BY <1>3, <1>4 DEF Hub!Left, Hub!TypeOK
  <2>2. left' \cup admitted' \subseteq Conns \X (1..MaxJoins)
    BY <1>2, <1>8 DEF Hub!TypeOK
  <2>3. tracked' \subseteq Conns
    BY <1>2 DEF Hub!TypeOK
  <2> QED
    BY <1>2, <1>5, <2>1, <2>2, <2>3 DEF Hub!TypeOK
<1>10. ControlInv'
  <2>1. ASSUME NEW u \in Hub!Threads
        PROVE  /\ th'[u].pc = "idle" => th'[u] = Hub!Idle
               /\ th'[u].pc \in {"remove", "forget", "unsubscribe", "untrack"} =>
                    th'[u].conn \in Conns
               /\ th'[u].next # "idle" =>
                    th'[u].pc \in {"remove", "forget", "unsubscribe", "untrack"}
               /\ th'[u].pc = "deliver" => th'[u].conn = NONE
               /\ OwnCall(u)' => u \in Conns /\ th'[u].conn = u /\ conn'[u] = "open"
    <3>1. OwnCall(u)' => u \in Conns /\ th'[u].conn = u /\ conn'[u] = "open"
      BY <1>2, <1>7 DEF ControlInv
    <3>2. CASE u = t
      BY <1>4, <3>1, <3>2
    <3>3. CASE u # t
      BY <1>3, <3>1, <3>3 DEF ControlInv
    <3> QED
      BY <3>2, <3>3
  <2>2. \A d \in Conns : joins'[d] # NONE => conn'[d] = "open"
    BY <1>2 DEF ControlInv
  <2> QED
    BY <2>1, <2>2 DEF ControlInv
<1>11. Hub!SubscribedWhileMembers' /\ DepartInv'
  BY <1>2, <1>5, BrokerFrame
<1>12. NumberInv'
  <2>1. ASSUME NEW d \in Conns, th'[d].next = "callback" \/ th'[d].pc = "callback"
        PROVE  th'[d].ref \in 1..made /\ <<d, th'[d].ref>> \notin admitted
    <3>1. CASE d = t
      BY <1>4, <2>1, <3>1 DEF NumberInv
    <3>2. CASE d # t
      BY <1>1, <1>3, <2>1, <3>2 DEF NumberInv
    <3> QED
      BY <3>1, <3>2
  <2> QED
    BY <1>2, <2>1 DEF NumberInv
<1>13. EmptiedInv'
  <2> SUFFICES ASSUME NEW d \in Conns,
                      \/ th'[d].pc \in {"callback", "close"}
                      \/ (th'[d].next # "idle" /\ th'[d].pc # "remove")
               PROVE  joins'[d] = NONE
    BY DEF EmptiedInv
  <2>1. CASE d = t
    BY <1>2, <1>4, <2>1 DEF EmptiedInv
  <2>2. CASE d # t
    BY <1>1, <1>2, <1>3, <2>2 DEF EmptiedInv
  <2> QED
    BY <2>1, <2>2
<1>14. OwedInv'
  <2>1. ASSUME NEW d \in Conns, NEW x \in 1..MaxJoins
        PROVE  <<d, x>> \in admitted' \ left' <=>
                 joins'[d] = x \/ \E u \in Hub!Threads : TakenOut(u, d)' /\ th'[u].gone = x
    <3>1. <<d, x>> \in admitted \ left <=>
            joins[d] = x \/ \E u \in Hub!Threads : TakenOut(u, d) /\ th[u].gone = x
      BY DEF OwedInv
    <3>2. CASE d = c /\ x = th[t].gone
      <4>1. \A u \in Hub!Threads : TakenOut(u, c) /\ th[u].gone = x => u = t
        BY <1>6, <3>2 DEF OwedInv
      <4>2. ~\E u \in Hub!Threads : TakenOut(u, d)' /\ th'[u].gone = x
        BY <1>6, <3>2, <4>1
      <4>3. <<d, x>> \in left'
        BY <1>2, <3>2
      <4> QED
        BY <1>2, <1>8, <3>2, <4>2, <4>3
    <3>3. CASE ~(d = c /\ x = th[t].gone)
      <4>1. (\E u \in Hub!Threads : TakenOut(u, d)' /\ th'[u].gone = x)
              <=> (\E u \in Hub!Threads : TakenOut(u, d) /\ th[u].gone = x)
        BY <1>6, <3>3
      <4>2. <<d, x>> \in left' <=> <<d, x>> \in left
        BY <1>2, <3>3
      <4> QED
        BY <1>2, <3>1, <4>1, <4>2
    <3> QED
      BY <3>2, <3>3
  <2>2. ASSUME NEW u \in Hub!Threads, NEW d \in Conns, TakenOut(u, d)'
        PROVE  th'[u].gone \in 1..MaxJoins /\ th'[u].gone # joins'[d]
    <3>1. TakenOut(u, d) /\ th'[u].gone = th[u].gone
      BY <1>6, <2>2
    <3> QED
      BY <1>2, <3>1 DEF OwedInv
  <2>3. ASSUME NEW u \in Hub!Threads, NEW v \in Hub!Threads, NEW d \in Conns,
               TakenOut(u, d)', TakenOut(v, d)', th'[u].gone = th'[v].gone
        PROVE  u = v
    <3>1. TakenOut(u, d) /\ TakenOut(v, d) /\ th[u].gone = th[v].gone
      BY <1>6, <2>3
    <3> QED
      BY <3>1 DEF OwedInv
  <2>4. left' \subseteq admitted'
    BY <1>2, <1>8 DEF OwedInv
  <2> QED
    BY <2>1, <2>2, <2>3, <2>4 DEF OwedInv
<1>15. ASSUME NEW d \in Conns \ contested'
       PROVE  Agree(d)'
  <2>1. d \in Conns /\ d \in Hub!Threads /\ Agree(d)
    BY <1>1, <1>2 DEF AgreeInv
  <2>2. Hub!Kicking(d)' \subseteq Hub!Kicking(d)
    BY <1>2, <1>3, <1>4 DEF Hub!Kicking
  <2>3. OwnCall(d)' => Hub!Kicking(d)' = {}
    BY <1>7, <2>1, <2>2 DEF Agree
  <2>4. th'[d].pc \in {"admit", "reply"} \/ th[d].pc \in {"admit", "reply"} => th'[d] = th[d]
    BY <1>2, <1>3, <1>4, <2>1
  <2>5. CASE d = c
    <3>1. joins[d] = NONE /\ d \notin Hub!Members
      BY <1>2, <1>6, <2>1, <2>5 DEF Agree
    <3>2. \A u \in Hub!Threads : TakenOut(u, d) => u = t
      BY <1>6, <2>1, <2>5 DEF Agree
    <3>3. \A u \in Hub!Threads : ~TakenOut(u, d)'
      BY <1>6, <2>5, <3>2
    <3>4. th[d].pc \notin {"admit", "reply"}
      <4>1. CASE d = t
        BY <1>2, <4>1
      <4>2. CASE d # t
        <5>1. t \in Hub!Kicking(d)
          BY <1>2, <2>5, <4>2 DEF Hub!Kicking
        <5> QED
          BY <2>1, <5>1 DEF Agree, OwnCall
      <4> QED
        BY <4>1, <4>2
    <3> QED
      BY <1>2, <1>5, <2>3, <2>4, <2>5, <3>1, <3>3, <3>4 DEF Agree
  <2>6. CASE d # c
    <3>1. \A u \in Hub!Threads : TakenOut(u, d)' <=> TakenOut(u, d)
      BY <1>6, <2>1, <2>6
    <3> QED
      BY <1>2, <1>5, <1>6, <2>1, <2>3, <2>4, <2>6, <3>1, AgreeFrame
  <2> QED
    BY <2>5, <2>6
<1>16. HearInv'
  BY <1>2, <1>3, <1>4, <1>5 DEF HearInv
<1> QED
  BY <1>9, <1>10, <1>11, <1>12, <1>13, <1>14, <1>15, <1>16 DEF AgreeInv

\* A thread at rest publishes, or goes on publishing: the members that stay are
\* in the topic, which is therefore subscribed to.
LEMMA CastKeeps ==
  ASSUME Hub!HubConstants, HubInv, NEW t \in Hub!Threads, th[t].pc \in {"idle", "deliver"},
         th' = [th EXCEPT ![t] = th'[t]], th'[t] \in Hub!Work, th'[t].pc = "deliver",
         th'[t].conn = NONE, th'[t].next = "idle",
         th'[t].steady \subseteq Hub!Members,
         th'[t].todo = {} => th'[t].steady \ {th'[t].exclude} \subseteq th'[t].heard,
         casts' \in 0..MaxCasts,
         UNCHANGED <<conn, joins, topic, tracked, subs, hubNextSub, made, admitted, left,
                     contested, kicks>>
  PROVE  HubInv'
<1> USE DEF HubInv
<1>1. Conns \subseteq Hub!Threads /\ NONE \notin Conns
  BY NoneIsNone
<1>2. Hub!Work' = Hub!Work /\ Hub!Members' = Hub!Members
  BY DEF Hub!Work, Hub!Members
<1>3. th' \in [Hub!Threads -> Hub!Work] /\ \A u \in Hub!Threads : u # t => th'[u] = th[u]
  BY DEF Hub!TypeOK
<1>4. th[t].conn = NONE /\ th[t].next = "idle"
  BY IdleFields DEF ControlInv
<1>5. /\ \A u \in Hub!Threads, d \in Conns : TakenOut(u, d)' <=> TakenOut(u, d)
      /\ \A u \in Hub!Threads, d \in Conns : TakenOut(u, d) => th'[u] = th[u]
      /\ \A u \in Hub!Threads : OwnCall(u)' <=> OwnCall(u)
      /\ \A u \in Hub!Threads : th'[u].conn = th[u].conn
  BY <1>3, <1>4 DEF TakenOut, OwnCall
<1>6. Hub!TypeOK'
  BY <1>2, <1>3 DEF Hub!TypeOK
<1>7. ControlInv'
  <2>1. ASSUME NEW u \in Hub!Threads
        PROVE  /\ th'[u].pc = "idle" => th'[u] = Hub!Idle
               /\ th'[u].pc \in {"remove", "forget", "unsubscribe", "untrack"} =>
                    th'[u].conn \in Conns
               /\ th'[u].next # "idle" =>
                    th'[u].pc \in {"remove", "forget", "unsubscribe", "untrack"}
               /\ th'[u].pc = "deliver" => th'[u].conn = NONE
               /\ OwnCall(u)' => u \in Conns /\ th'[u].conn = u /\ conn'[u] = "open"
    <3>1. OwnCall(u)' => u \in Conns /\ th'[u].conn = u /\ conn'[u] = "open"
      BY <1>5 DEF ControlInv
    <3>2. CASE u = t
      BY <1>4, <3>1, <3>2
    <3>3. CASE u # t
      BY <1>3, <3>1, <3>3 DEF ControlInv
    <3> QED
      BY <3>2, <3>3
  <2>2. \A d \in Conns : joins'[d] # NONE => conn'[d] = "open"
    BY DEF ControlInv
  <2> QED
    BY <2>1, <2>2 DEF ControlInv
<1>8. Hub!SubscribedWhileMembers' /\ DepartInv'
  <2>1. Hub!Departing' = Hub!Departing /\ \A u \in Hub!Departing : th'[u] = th[u]
    BY <1>3 DEF Hub!Departing
  <2> QED
    BY <2>1, BrokerFrame
<1>9. NumberInv' /\ EmptiedInv'
  <2>1. \A d \in Conns : th'[d] = th[d] \/ (th'[d].pc = "deliver" /\ th'[d].next = "idle")
    BY <1>1, <1>3
  <2>2. NumberInv'
    BY <2>1 DEF NumberInv
  <2>3. EmptiedInv'
    BY <2>1 DEF EmptiedInv
  <2> QED
    BY <2>2, <2>3
<1>10. OwedInv'
  BY <1>5, OwedFrame
<1>11. ASSUME NEW d \in Conns \ contested'
       PROVE  Agree(d)'
  <2>1. d \in Conns /\ d \in Hub!Threads /\ Agree(d)
    BY <1>1 DEF AgreeInv
  <2>2. Hub!Kicking(d)' \subseteq Hub!Kicking(d)
    BY <1>1, <1>3, <2>1 DEF Hub!Kicking
  <2>3. OwnCall(d)' => Hub!Kicking(d)' = {}
    BY <1>5, <2>1, <2>2 DEF Agree
  <2>4. th'[d].pc \in {"admit", "reply"} \/ th[d].pc \in {"admit", "reply"} => th'[d] = th[d]
    BY <1>3, <2>1
  <2> QED
    BY <1>2, <1>5, <2>1, <2>3, <2>4, AgreeFrame
<1>12. HearInv'
  BY <1>2, <1>3 DEF HearInv
<1> QED
  BY <1>6, <1>7, <1>8, <1>9, <1>10, <1>11, <1>12 DEF AgreeInv

LEMMA BroadcastKeeps ==
  ASSUME Hub!HubConstants, HubInv, NEW t \in Hub!Threads, NEW e \in Conns \cup {NONE},
         Hub!Publish(t, e)
  PROVE  HubInv'
<1> USE DEF HubInv
<1> DEFINE w == [Hub!Idle EXCEPT !.pc = "deliver", !.todo = subs, !.exclude = e, !.steady = Hub!Members]
<1>1. /\ th[t].pc = "idle" /\ casts' \in 0..MaxCasts /\ e \in Hub!Threads \cup {NONE}
      /\ th' = [th EXCEPT ![t] = w] /\ subs \subseteq 1..hubNextSub
      /\ UNCHANGED <<conn, joins, topic, tracked, subs, hubNextSub, made, admitted, left,
                     contested, kicks>>
  BY DEF Hub!Publish, Hub!Snapshot, Hub!broker, Hub!TypeOK, Hub!Threads, Hub!HubConstants
<1>2. /\ w \in Hub!Work /\ w.pc = "deliver" /\ w.conn = NONE /\ w.next = "idle"
      /\ w.steady = Hub!Members /\ w.todo = subs /\ w.heard = {}
  BY <1>1, IdleFields, TopicFields DEF Hub!Idle, Hub!Work, Hub!Pcs
<1>3. subs = {} => Hub!Members = {}
  <2>1. subs = {} => topic = NONE
    BY DEF Hub!SubscribedWhileMembers
  <2> QED
    BY <2>1, TopicFields
<1> HIDE DEF w
<1>4. th'[t] = w /\ th' = [th EXCEPT ![t] = th'[t]]
  BY <1>1 DEF Hub!TypeOK
<1> QED
  BY <1>1, <1>2, <1>3, <1>4, CastKeeps

LEMMA DeliverKeeps ==
  ASSUME Hub!HubConstants, HubInv, NEW t \in Hub!Threads, Hub!Deliver(t)
  PROVE  HubInv'
<1> USE DEF HubInv, Hub!broker, Hub!counts
<1>1. PICK s \in th[t].todo :
        th' = [th EXCEPT ![t].todo = @ \ {s}, ![t].heard = @ \cup (Hub!Members \ {th[t].exclude})]
  BY DEF Hub!Deliver
<1>2. /\ th[t] \in Hub!Work /\ th[t].pc = "deliver" /\ Hub!Members \subseteq Conns
      /\ th'[t] = [th[t] EXCEPT !.todo = @ \ {s}, !.heard = @ \cup (Hub!Members \ {th[t].exclude})]
      /\ th' = [th EXCEPT ![t] = th'[t]]
  BY <1>1, TopicFields DEF Hub!Deliver, Hub!TypeOK
<1>3. /\ th'[t] \in Hub!Work /\ th'[t].pc = "deliver" /\ th'[t].conn = th[t].conn
      /\ th'[t].next = th[t].next /\ th'[t].steady = th[t].steady
      /\ th'[t].exclude = th[t].exclude
      /\ th'[t].heard = th[t].heard \cup (Hub!Members \ {th[t].exclude})
  BY <1>2 DEF Hub!Work
<1>4. th[t].conn = NONE /\ th[t].next = "idle" /\ th[t].steady \subseteq Hub!Members
  BY <1>2 DEF ControlInv, HearInv
<1> QED
  BY <1>2, <1>3, <1>4, CastKeeps DEF Hub!Deliver, Hub!TypeOK

(***************************************************************************)
(* The hub.                                                                *)
(***************************************************************************)

LEMMA HubInit ==
  ASSUME Hub!HubConstants, Hub!Init
  PROVE  HubInv
<1> USE DEF Hub!Init, Hub!PubSubInit
<1>1. \A t \in Hub!Threads : th[t] = Hub!Idle
  OBVIOUS
<1>2. Hub!Members = {} /\ Hub!Departing = {}
  <2>1. Hub!Idle.pc = "idle"
    BY DEF Hub!Idle
  <2> QED
    BY <1>1, <2>1 DEF Hub!Members, Hub!Departing
<1>3. Hub!TypeOK
  <2>1. Hub!Idle \in Hub!Work
    BY DEF Hub!Idle, Hub!Work, Hub!Pcs, Hub!HubConstants
  <2> QED
    BY <2>1 DEF Hub!TypeOK, Hub!HubConstants
<1>4. /\ Hub!Idle.pc = "idle" /\ Hub!Idle.next = "idle"
  BY <1>3, IdleFields
<1>5. \A t \in Hub!Threads : ~OwnCall(t) /\ \A c \in Conns : ~TakenOut(t, c)
  BY <1>1, <1>4 DEF OwnCall, TakenOut
<1>6. ControlInv
  BY <1>1, <1>4, <1>5 DEF ControlInv
<1>7. Hub!SubscribedWhileMembers /\ DepartInv
  BY <1>2 DEF Hub!SubscribedWhileMembers, DepartInv
<1>8. NumberInv /\ EmptiedInv
  BY <1>1, <1>4, NoneIsNone DEF NumberInv, EmptiedInv
<1>9. OwedInv
  <2>1. \A c \in Conns, r \in 1..MaxJoins : joins[c] # r
    BY NoneIsNone
  <2> QED
    BY <1>5, <2>1 DEF OwedInv
<1>10. AgreeInv
  BY <1>1, <1>2, <1>4, <1>5, NoneIsNone DEF AgreeInv, Agree
<1>11. HearInv
  BY <1>1, <1>4 DEF HearInv
<1> QED
  BY <1>3, <1>6, <1>7, <1>8, <1>9, <1>10, <1>11 DEF HubInv

\* A leave, a close and a kick are teardowns without a membership to make.
LEMMA NoReference ==
  ASSUME Hub!HubConstants, Hub!TypeOK, NEW c \in Conns, NEW next \in {"idle", "callback", "close"}
  PROVE  Hub!Tearing(c, next) = [Hub!Tearing(c, next) EXCEPT !.ref = 0]
<1> DEFINE w == Hub!Tearing(c, next)
<1>1. w \in Hub!Work /\ w.ref = 0
  BY IdleFields DEF Hub!Tearing, Hub!Idle, Hub!Work, Hub!Pcs
<1> HIDE DEF w
<1>2. w = [w EXCEPT !.ref = 0]
  BY <1>1 DEF Hub!Work
<1> QED
  BY <1>2 DEF w

LEMMA HubNext ==
  ASSUME Hub!HubConstants, HubInv, [Hub!Next]_(Hub!vars)
  PROVE  HubInv'
<1> USE DEF Hub!counts, Hub!broker
<1>1. ASSUME NEW c \in Conns, Hub!Join(c)
      PROVE  HubInv'
  <2>1. /\ c \in Hub!Threads /\ made \in Nat /\ made' \in 0..MaxJoins /\ made' >= made
        /\ made' \in Nat /\ kicks \in 0..MaxKicks
    BY <1>1, NoneIsNone DEF Hub!Join, HubInv, Hub!TypeOK, Hub!HubConstants
  <2>2. c \notin contested' => Hub!Kicking(c) = {}
    BY <1>1 DEF Hub!Join, Hub!Contest
  <2>3. contested' = contested \/ contested' = contested \cup {c}
    BY <1>1 DEF Hub!Join, Hub!Contest
  <2> QED
    BY <1>1, <2>1, <2>2, <2>3, TearingKeeps DEF Hub!Join
<1>2. ASSUME NEW c \in Conns, Hub!Leave(c)
      PROVE  HubInv'
  <2>1. c \in Hub!Threads /\ made \in 0..MaxJoins /\ kicks \in 0..MaxKicks /\ 0 \in 0..MaxJoins
        /\ made >= made
    BY NoneIsNone DEF HubInv, Hub!TypeOK, Hub!HubConstants
  <2>2. contested' = contested \/ contested' = contested \cup {c}
    BY <1>2 DEF Hub!Leave, Hub!Contest
  <2>3. Hub!Tearing(c, "idle") = [Hub!Tearing(c, "idle") EXCEPT !.ref = 0]
    BY NoReference DEF HubInv
  <2> QED
    BY <1>2, <2>1, <2>2, <2>3, TearingKeeps DEF Hub!Leave
<1>3. ASSUME NEW c \in Conns, Hub!OnClose(c)
      PROVE  HubInv'
  <2>1. c \in Hub!Threads /\ made \in 0..MaxJoins /\ kicks \in 0..MaxKicks /\ 0 \in 0..MaxJoins
        /\ made >= made
    BY NoneIsNone DEF HubInv, Hub!TypeOK, Hub!HubConstants
  <2>2. contested' = contested \/ contested' = contested \cup {c}
    BY <1>3 DEF Hub!OnClose, Hub!Contest
  <2>3. c \notin contested' => Hub!Kicking(c) = {}
    BY <1>3 DEF Hub!OnClose, Hub!Contest
  <2>4. Hub!Tearing(c, "close") = [Hub!Tearing(c, "close") EXCEPT !.ref = 0]
    BY NoReference DEF HubInv
  <2> QED
    BY <1>3, <2>1, <2>2, <2>3, <2>4, TearingKeeps DEF Hub!OnClose
<1>4. ASSUME NEW t \in Hub!Threads, NEW c \in Conns, Hub!Kick(t, c)
      PROVE  HubInv'
  <2>1. made \in 0..MaxJoins /\ kicks' \in 0..MaxKicks /\ 0 \in 0..MaxJoins /\ made >= made
    BY <1>4 DEF Hub!Kick, HubInv, Hub!TypeOK, Hub!HubConstants
  <2>2. contested' = contested \/ contested' = contested \cup {c}
    BY <1>4 DEF Hub!Kick
  <2>3. c \notin contested' => (t # c => th[c].pc = "idle")
    BY <1>4 DEF Hub!Kick
  <2>4. Hub!Tearing(c, "idle") = [Hub!Tearing(c, "idle") EXCEPT !.ref = 0]
    BY NoReference DEF HubInv
  <2> QED
    BY <1>4, <2>1, <2>2, <2>3, <2>4, TearingKeeps DEF Hub!Kick
<1>5. ASSUME NEW c \in Conns, Hub!JoinRefused(c) \/ Hub!AfterJoin(c) \/ Hub!CloseConn(c)
      PROVE  HubInv'
  <2>1. c \in Hub!Threads
    BY NoneIsNone
  <2>2. CASE Hub!JoinRefused(c)
    BY <2>1, <2>2, EndsKeeps DEF Hub!JoinRefused
  <2>3. CASE Hub!AfterJoin(c)
    BY <2>1, <2>3, EndsKeeps DEF Hub!AfterJoin
  <2>4. CASE Hub!CloseConn(c)
    <3>1. joins[c] = NONE /\ joins \in [Conns -> (1..MaxJoins) \cup {NONE}]
      BY <2>4 DEF Hub!CloseConn, HubInv, EmptiedInv, Hub!TypeOK
    <3>2. joins' = joins
      BY <2>4, <3>1 DEF Hub!CloseConn
    <3> QED
      BY <2>1, <2>4, <3>2, EndsKeeps DEF Hub!CloseConn
  <2> QED
    BY <1>5, <2>2, <2>3, <2>4
<1>6. ASSUME NEW t \in Hub!Threads, Hub!Published(t)
      PROVE  HubInv'
  BY <1>6, EndsKeeps DEF Hub!Published
<1>7. ASSUME UNCHANGED Hub!vars
      PROVE  HubInv'
  BY <1>7, SMTT(30) DEF Hub!vars, HubInv, Hub!TypeOK, ControlInv, OwnCall, Hub!SubscribedWhileMembers,
     Hub!Departing,
             DepartInv, NumberInv, EmptiedInv, OwedInv, TakenOut, AgreeInv, Agree, Hub!Kicking,
             Hub!Members, HearInv, Hub!Work
<1> QED
  BY <1>1, <1>2, <1>3, <1>4, <1>5, <1>6, <1>7, OnOpenKeeps, AdmitConnKeeps, AdmitTopicKeeps,
     RemoveKeeps, ForgetKeeps, BrokerUnsubscribeKeeps, LeftKeeps, BroadcastKeeps, DeliverKeeps
     DEF Hub!Next

\* What the invariant says of the properties.
LEMMA HubSafe ==
  ASSUME Hub!HubConstants, HubInv
  PROVE  Hub!SubscribedWhileMembers /\ Hub!LeftOnce /\ Hub!MapsAgree /\ Hub!SteadyMembersHear
<1> USE DEF HubInv
<1>1. Hub!LeftOnce
  <2>1. ASSUME NEW c \in Conns
        PROVE  LET owed == {m \in admitted \ left : m[1] = c}
                   held == (IF joins[c] = NONE THEN {} ELSE {joins[c]})
                     \cup {th[t].gone : t \in {u \in Hub!Threads :
                              th[u].conn = c /\ th[u].pc \in {"forget", "unsubscribe", "untrack"}}}
               IN owed = {<<c, r>> : r \in held} /\ \A r \in held : <<c, r>> \notin left
    <3> DEFINE owed == {m \in admitted \ left : m[1] = c}
               held == (IF joins[c] = NONE THEN {} ELSE {joins[c]})
                     \cup {th[t].gone : t \in {u \in Hub!Threads :
                              th[u].conn = c /\ th[u].pc \in {"forget", "unsubscribe", "untrack"}}}
    <3>1. \A r : r \in held <=> \/ r = joins[c] /\ joins[c] # NONE
                                \/ \E t \in Hub!Threads : TakenOut(t, c) /\ th[t].gone = r
      BY DEF TakenOut
    <3>2. held \subseteq 1..MaxJoins
      BY <3>1 DEF OwedInv, Hub!TypeOK
    <3>3. \A r \in 1..MaxJoins : r \in held <=> <<c, r>> \in admitted \ left
      <4>1. NONE \notin 1..MaxJoins
        BY NoneIsNone DEF Hub!HubConstants
      <4> QED
        BY <3>1, <4>1 DEF OwedInv
    <3> HIDE DEF held
    <3>4. \A m \in admitted : m = <<m[1], m[2]>> /\ m[2] \in 1..MaxJoins
      BY DEF Hub!TypeOK
    <3>5. owed = {<<c, r>> : r \in held}
      <4>1. ASSUME NEW m \in owed
            PROVE  m \in {<<c, r>> : r \in held}
        BY <3>3, <3>4, <4>1
      <4>2. ASSUME NEW r \in held
            PROVE  <<c, r>> \in owed
        BY <3>2, <3>3, <4>2
      <4> QED
        BY <4>1, <4>2
    <3>6. \A r \in held : <<c, r>> \notin left
      BY <3>2, <3>3
    <3> QED
      BY <3>5, <3>6 DEF held
  <2> QED
    BY <2>1 DEF Hub!LeftOnce, OwedInv
<1>2. Hub!MapsAgree
  <2> SUFFICES ASSUME NEW c \in Conns \ contested,
                      th[c].pc \in {"idle", "deliver"}, Hub!Kicking(c) = {}
               PROVE  /\ joins[c] # NONE <=> c \in Hub!Members
                      /\ c \in tracked => joins[c] # NONE
                      /\ joins[c] # NONE => conn[c] = "open"
    BY DEF Hub!MapsAgree
  <2>1. \A t \in Hub!Threads : ~TakenOut(t, c)
    BY DEF TakenOut, Hub!Kicking
  <2> QED
    BY <2>1 DEF AgreeInv, Agree, ControlInv
<1>3. Hub!SteadyMembersHear
  BY DEF HearInv, Hub!SteadyMembersHear
<1> QED
  BY <1>1, <1>2, <1>3

LEMMA HubInductive ==
  ASSUME Hub!HubConstants
  PROVE  Hub!Spec => []HubInv
<1>1. Hub!Init => HubInv
  BY HubInit
<1>2. HubInv /\ [Hub!Next]_(Hub!vars) => HubInv'
  BY HubNext
<1> QED
  BY <1>1, <1>2, PTL DEF Hub!Spec

\* The broker holds the subscription of the topic exactly while it has members,
\* apart from those that a departing last member is about to cancel: an old
\* unsubscription and a new subscription never meet (admit, forget_member).
THEOREM Subscriptions ==
  ASSUME Hub!HubConstants
  PROVE  Hub!Spec => []Hub!SubscribedWhileMembers
<1>1. HubInv => Hub!SubscribedWhileMembers
  BY DEF HubInv
<1> QED
  BY <1>1, HubInductive, PTL

\* A membership that was admitted is held by exactly one party until its leave
\* callback has run, and that runs once: the two maps have separate locks, and
\* only the removal from conns decides who tears down (teardown).
THEOREM LeaveCallbacks ==
  ASSUME Hub!HubConstants
  PROVE  Hub!Spec => []Hub!LeftOnce
<1>1. HubInv => Hub!LeftOnce
  BY HubSafe
<1> QED
  BY <1>1, HubInductive, PTL

\* The two maps and the presence agree about a connection nobody works on, as long
\* as no kick has overlapped its own calls (admit, teardown).
THEOREM MapsInStep ==
  ASSUME Hub!HubConstants
  PROVE  Hub!Spec => []Hub!MapsAgree
<1>1. HubInv => Hub!MapsAgree
  BY HubSafe
<1> QED
  BY <1>1, HubInductive, PTL

\* A broadcast reaches every member that stays, while members come and go and the
\* subscription changes hands (publish, deliver).
THEOREM Broadcasts ==
  ASSUME Hub!HubConstants
  PROVE  Hub!Spec => []Hub!SteadyMembersHear
<1>1. HubInv => Hub!SteadyMembersHear
  BY HubSafe
<1> QED
  BY <1>1, HubInductive, PTL

(***************************************************************************)
(* Presence.  A subscription of a pod's topic belongs to its entry, or to  *)
(* the one thread that has taken the entry away and has still to cancel    *)
(* it; what a late message brings back has no subscription.                *)
(***************************************************************************)

Actions == {"join", "leave", "req", "state"}
Message == [act : Actions \cup {"unsub"}, from : Pods, key : Keys \cup {NONE} \cup Nat,
            entries : [Keys -> Nat]]
Belief == [age : 0..Presence!ExpiryCertain, entries : [Keys -> Nat]]

PresenceTypes ==
  /\ up \subseteq Pods
  /\ local \in [Conns -> Keys \cup {NONE}]
  /\ nextSub \in Nat
  /\ entry \in [Pods -> {NONE} \cup 0..nextSub]
  /\ live \in [Pods -> SUBSET (1..nextSub)]
  /\ remote \in [Pods -> [Pods -> Belief \cup {NONE}]]
  /\ \A p \in Pods : remote[p][p] = NONE
  /\ pend \in [Presence!Threads -> Seq(Message)]
  /\ inbox \in [Pods -> Seq(Message)]

\* What is on its way has the sender's name, and nothing is to be cancelled
\* behind something else.
MessagesInv ==
  /\ \A t \in Presence!Threads : \A i \in DOMAIN pend[t] :
       pend[t][i].from = Presence!PodOf(t) /\ (i > 1 => pend[t][i].act # "unsub")
  /\ \A p \in Pods : \A i \in DOMAIN inbox[p] :
       inbox[p][i].from # p /\ inbox[p][i].act # "unsub"

\* Threads with a subscription of the pod to cancel, and which.
Leaves(t) == pend[t] # <<>> /\ pend[t][1].act = "unsub"
Leaving(p) == {t \in Presence!Threads : Presence!PodOf(t) = p /\ Leaves(t)}

\* A subscription of a running pod is its entry's or one thread's to cancel.
SubsInv ==
  \A p \in up :
    /\ Presence!Tracked(p, local) # {} => entry[p] \in live[p]
    /\ entry[p] \in live[p] \cup {NONE, 0}
    /\ \A t \in Leaving(p) : pend[t][1].key \in live[p] /\ pend[t][1].key # entry[p]
    /\ \A t, u \in Leaving(p) : pend[t][1].key = pend[u][1].key => t = u
    /\ \A s \in live[p] : s = entry[p] \/ \E t \in Leaving(p) : pend[t][1].key = s

PresenceInv == PresenceTypes /\ MessagesInv /\ SubsInv

-----------------------------------------------------------------------------

\* What the invariant says is what the two properties say.
LEMMA PresenceSafe ==
  ASSUME Presence!PresenceConstants, PresenceInv
  PROVE  Presence!TypeOK /\ Presence!ListensWhileTracking
<1>1. Presence!TypeOK
  BY DEF PresenceInv, PresenceTypes, Presence!TypeOK, Belief
<1>2. Presence!ListensWhileTracking
  <2> SUFFICES ASSUME NEW p \in up
               PROVE  LET going == {m.key : m \in {Head(pend[t]) : t \in {u \in Presence!Threads :
                            /\ Presence!PodOf(u) = p
                            /\ pend[u] # <<>> /\ Head(pend[u]).act = "unsub"}}}
                      IN /\ Presence!Tracked(p, local) # {} => entry[p] \in live[p]
                         /\ live[p] = going \cup ({entry[p]} \ {NONE, 0})
    BY DEF Presence!ListensWhileTracking
  <2> DEFINE heads == {Head(pend[t]) : t \in {u \in Presence!Threads :
                          Presence!PodOf(u) = p /\ pend[u] # <<>> /\ Head(pend[u]).act = "unsub"}}
             going == {m.key : m \in heads}
  <2>1. \A t \in Presence!Threads : pend[t] # <<>> => Head(pend[t]) = pend[t][1]
    BY DEF PresenceInv, PresenceTypes
  <2>2. going = {pend[t][1].key : t \in Leaving(p)}
    BY <2>1 DEF Leaving, Leaves
  <2>3. p \in Pods /\ live[p] \subseteq 1..nextSub /\ NONE \notin live[p] /\ 0 \notin live[p]
    BY DEF PresenceInv, PresenceTypes, Presence!PresenceConstants
  <2>4. live[p] = going \cup ({entry[p]} \ {NONE, 0})
    <3> HIDE DEF going
    <3>1. going = {pend[t][1].key : t \in Leaving(p)}
      BY <2>2
    <3> QED
      BY <2>3, <3>1 DEF PresenceInv, SubsInv
  <2> QED
    BY <2>4 DEF PresenceInv, SubsInv
<1> QED
  BY <1>1, <1>2

\* A pod's own presences, counted by key.
LEMMA StateIsABag ==
  ASSUME Presence!PresenceConstants, NEW p
  PROVE  Presence!LocalState(p) \in [Keys -> Nat] /\ Presence!Nothing \in [Keys -> Nat]
<1>1. \A k \in Keys : Cardinality({c \in Presence!Tracked(p, local) : local[c] = k}) \in Nat
  <2> SUFFICES ASSUME NEW k \in Keys
               PROVE  Cardinality({c \in Presence!Tracked(p, local) : local[c] = k}) \in Nat
    OBVIOUS
  <2>1. {c \in Presence!Tracked(p, local) : local[c] = k} \subseteq Conns
    BY DEF Presence!Tracked
  <2>2. IsFiniteSet({c \in Presence!Tracked(p, local) : local[c] = k})
    BY <2>1, FS_Subset, SameCounting DEF Presence!PresenceConstants
  <2> QED
    BY <2>2, FS_CardinalityType
<1> QED
  BY <1>1, SameCounting DEF Presence!LocalState, Presence!Nothing

\* A thread with nothing to do is given messages that are its own.
LEMMA ThreadsOf ==
  /\ \A c \in Conns : <<"conn", c>> \in Presence!Threads /\ Presence!PodOf(<<"conn", c>>) = Home[c]
  /\ \A p \in Pods : /\ Presence!Listener(p) \in Presence!Threads
                     /\ Presence!PodOf(Presence!Listener(p)) = p
                     /\ Presence!Keeper(p) \in Presence!Threads
                     /\ Presence!PodOf(Presence!Keeper(p)) = p
BY DEF Presence!Threads, Presence!PodOf, Presence!Listener, Presence!Keeper

\* Messages of a pod with nothing to cancel among them.
Clean(s, p) == s \in Seq(Message) /\ \A i \in DOMAIN s : s[i].from = p /\ s[i].act # "unsub"

LEMMA CleanPieces ==
  /\ \A p : Clean(<<>>, p)
  /\ \A m \in Message : m.act # "unsub" => Clean(<<m>>, m.from)
  /\ \A p, r, s : Clean(r, p) /\ Clean(s, p) => Clean(r \o s, p)
BY DEF Clean

\* Steps that leave the subscriptions and who is to cancel them alone.
LEMMA SubsRest ==
  ASSUME Presence!PresenceConstants, PresenceInv, up' \subseteq up,
         \A p \in up' :
           /\ live'[p] = live[p]
           /\ entry'[p] = entry[p] \/ (entry[p] = NONE /\ entry'[p] = 0)
           /\ Presence!Tracked(p, local') # {} =>
                Presence!Tracked(p, local) # {} \/ entry[p] \in live[p],
         \A t \in Presence!Threads : Presence!PodOf(t) \in up' =>
           (Leaves(t)' <=> Leaves(t)) /\ (Leaves(t) => pend'[t][1] = pend[t][1])
  PROVE  SubsInv'
<1> SUFFICES ASSUME NEW p \in up'
             PROVE  /\ Presence!Tracked(p, local') # {} => entry'[p] \in live'[p]
                    /\ entry'[p] \in live'[p] \cup {NONE, 0}
                    /\ \A t \in Leaving(p)' :
                         pend'[t][1].key \in live'[p] /\ pend'[t][1].key # entry'[p]
                    /\ \A t, u \in Leaving(p)' : pend'[t][1].key = pend'[u][1].key => t = u
                    /\ \A s \in live'[p] :
                         s = entry'[p] \/ \E t \in Leaving(p)' : pend'[t][1].key = s
  BY DEF SubsInv, Presence!Tracked
<1>1. Leaving(p)' = Leaving(p) /\ \A t \in Leaving(p) : pend'[t][1] = pend[t][1]
  BY DEF Leaving
<1>2. p \in up /\ NONE \notin live[p] /\ 0 \notin live[p]
  BY DEF PresenceInv, PresenceTypes, Presence!PresenceConstants
<1> QED
  BY <1>1, <1>2 DEF PresenceInv, SubsInv

\* What a thread is given to do after its critical section.
LEMMA Handed ==
  ASSUME PresenceInv, NEW t \in Presence!Threads, pend[t] = <<>>, NEW s \in Seq(Message),
         \A i \in DOMAIN s : s[i].from = Presence!PodOf(t) /\ (i > 1 => s[i].act # "unsub"),
         Presence!Do(t, s)
  PROVE  /\ pend' \in [Presence!Threads -> Seq(Message)]
         /\ \A u \in Presence!Threads : pend'[u] = IF u = t THEN s ELSE pend[u]
         /\ \A u \in Presence!Threads : \A i \in DOMAIN pend'[u] :
              pend'[u][i].from = Presence!PodOf(u) /\ (i > 1 => pend'[u][i].act # "unsub")
<1>1. <<>> \o s = s
  OBVIOUS
<1>2. \A u \in Presence!Threads : pend'[u] = IF u = t THEN s ELSE pend[u]
  BY <1>1 DEF Presence!Do, PresenceInv, PresenceTypes
<1>3. pend' \in [Presence!Threads -> Seq(Message)]
  BY <1>1 DEF Presence!Do, PresenceInv, PresenceTypes
<1> QED
  BY <1>2, <1>3 DEF PresenceInv, MessagesInv

LEMMA TrackKeeps ==
  ASSUME Presence!PresenceConstants, PresenceInv, NEW c \in Conns, NEW k \in Keys,
         Presence!Track(c, k)
  PROVE  PresenceInv'
<1> DEFINE p == Home[c]
           t == <<"conn", c>>
           first == Presence!Tracked(p, local) = {} /\ entry[p] \in {NONE, 0}
           old == IF local[c] = NONE THEN <<>>
                    ELSE <<Presence!Msg("leave", p, local[c], Presence!Nothing)>>
           req == IF first THEN <<Presence!Msg("req", p, NONE, Presence!Nothing)>> ELSE <<>>
           joined == <<Presence!Msg("join", p, k, Presence!Nothing)>>
           seq == old \o req \o joined
<1>1. /\ p \in up /\ pend[t] = <<>> /\ Presence!Do(t, seq) /\ local' = [local EXCEPT ![c] = k]
      /\ entry' = IF first THEN [entry EXCEPT ![p] = nextSub + 1] ELSE entry
      /\ live' = IF first THEN [live EXCEPT ![p] = @ \cup {nextSub + 1}] ELSE live
      /\ nextSub' = IF first THEN nextSub + 1 ELSE nextSub
      /\ UNCHANGED <<up, remote, inbox>>
  BY DEF Presence!Track
<1>2. t \in Presence!Threads /\ Presence!PodOf(t) = p /\ p \in Pods
  BY ThreadsOf DEF Presence!PresenceConstants
<1>3. Clean(seq, p)
  <2>1. /\ local[c] # NONE => Presence!Msg("leave", p, local[c], Presence!Nothing) \in Message
        /\ Presence!Msg("req", p, NONE, Presence!Nothing) \in Message
        /\ Presence!Msg("join", p, k, Presence!Nothing) \in Message
    BY <1>2, StateIsABag DEF Presence!Msg, Message, Actions, PresenceInv, PresenceTypes
  <2>2. Clean(old, p)
    BY <2>1, CleanPieces DEF Presence!Msg
  <2>3. Clean(req, p)
    BY <2>1, CleanPieces DEF Presence!Msg
  <2>4. Clean(joined, p)
    BY <2>1, CleanPieces DEF Presence!Msg
  <2> QED
    BY <2>2, <2>3, <2>4, CleanPieces
<1> HIDE DEF seq
<1>4. /\ pend' \in [Presence!Threads -> Seq(Message)]
      /\ \A u \in Presence!Threads : pend'[u] = IF u = t THEN seq ELSE pend[u]
      /\ MessagesInv'
  BY <1>1, <1>2, <1>3, Handed DEF Clean, PresenceInv, MessagesInv
<1>5. PresenceTypes'
  <2>1. /\ entry' \in [Pods -> {NONE} \cup 0..nextSub'] /\ nextSub' \in Nat
        /\ live' \in [Pods -> SUBSET (1..nextSub')]
    BY <1>1, <1>2 DEF PresenceInv, PresenceTypes
  <2> QED
    BY <1>1, <1>4, <2>1 DEF PresenceInv, PresenceTypes
<1>6. \A u \in Presence!Threads :
        (Leaves(u)' <=> Leaves(u)) /\ (Leaves(u) => pend'[u][1] = pend[u][1])
  <2>1. ~Leaves(t)
    BY <1>1 DEF Leaves
  <2>2. ~(pend'[t] # <<>> /\ pend'[t][1].act = "unsub")
    BY <1>2, <1>3, <1>4 DEF Clean
  <2> QED
    BY <1>4, <2>1, <2>2 DEF Leaves
<1>7. SubsInv'
  <2>1. \A q \in up : q # p => Presence!Tracked(q, local') = Presence!Tracked(q, local)
    BY <1>1 DEF Presence!Tracked, PresenceInv, PresenceTypes
  <2>2. CASE ~first
    <3>1. entry[p] \in live[p]
      BY <1>1, <2>2 DEF PresenceInv, SubsInv
    <3>2. \A q \in up' : /\ live'[q] = live[q] /\ entry'[q] = entry[q]
                         /\ Presence!Tracked(q, local') # {} =>
                              Presence!Tracked(q, local) # {} \/ entry[q] \in live[q]
      BY <1>1, <2>1, <2>2, <3>1
    <3> QED
      BY <1>1, <1>6, <3>2, SubsRest
  <2>3. CASE first
    <3> SUFFICES ASSUME NEW q \in up
                 PROVE  /\ Presence!Tracked(q, local') # {} => entry'[q] \in live'[q]
                        /\ entry'[q] \in live'[q] \cup {NONE, 0}
                        /\ \A u \in Leaving(q)' :
                             pend'[u][1].key \in live'[q] /\ pend'[u][1].key # entry'[q]
                        /\ \A u, v \in Leaving(q)' : pend'[u][1].key = pend'[v][1].key => u = v
                        /\ \A s \in live'[q] :
                             s = entry'[q] \/ \E u \in Leaving(q)' : pend'[u][1].key = s
      BY <1>1 DEF SubsInv, Presence!Tracked
    <3>1. Leaving(q)' = Leaving(q) /\ \A u \in Leaving(q) : pend'[u][1] = pend[u][1]
      BY <1>6 DEF Leaving
    <3>2. CASE q # p
      <4>1. live'[q] = live[q] /\ entry'[q] = entry[q]
        BY <1>1, <2>3, <3>2 DEF PresenceInv, PresenceTypes
      <4> QED
        BY <2>1, <3>1, <3>2, <4>1 DEF PresenceInv, SubsInv
    <3>3. CASE q = p
      <4>1. live'[p] = live[p] \cup {nextSub + 1} /\ entry'[p] = nextSub + 1
        BY <1>1, <1>2, <2>3 DEF PresenceInv, PresenceTypes
      <4>2. nextSub + 1 \notin live[p] /\ NONE \notin live[p] /\ 0 \notin live[p]
        BY <1>2 DEF PresenceInv, PresenceTypes, Presence!PresenceConstants
      <4> QED
        BY <1>1, <2>3, <3>1, <3>3, <4>1, <4>2 DEF PresenceInv, SubsInv
    <3> QED
      BY <3>2, <3>3
  <2> QED
    BY <2>2, <2>3
<1> QED
  BY <1>4, <1>5, <1>7 DEF PresenceInv

LEMMA UntrackKeeps ==
  ASSUME Presence!PresenceConstants, PresenceInv, NEW c \in Conns, Presence!Untrack(c)
  PROVE  PresenceInv'
<1> DEFINE p == Home[c]
           t == <<"conn", c>>
           last == Presence!Tracked(p, local) = {c}
           leave == <<Presence!Msg("leave", p, local[c], Presence!Nothing)>>
           unsub == <<Presence!Msg("unsub", p, entry[p], Presence!Nothing)>>
           seq == IF last THEN unsub \o leave ELSE leave
<1>1. /\ p \in up /\ pend[t] = <<>> /\ Presence!Do(t, seq) /\ local' = [local EXCEPT ![c] = NONE]
      /\ local[c] # NONE
      /\ entry' = IF last THEN [entry EXCEPT ![p] = NONE] ELSE entry
      /\ remote' = IF last THEN [remote EXCEPT ![p] = [q \in Pods |-> NONE]] ELSE remote
      /\ UNCHANGED <<up, live, nextSub, inbox>>
  BY DEF Presence!Untrack
<1>2. t \in Presence!Threads /\ Presence!PodOf(t) = p /\ p \in Pods
  BY ThreadsOf DEF Presence!PresenceConstants
<1>3. entry[p] \in live[p] /\ entry[p] \in Nat
  <2>1. Presence!Tracked(p, local) # {}
    BY <1>1 DEF Presence!Tracked
  <2> QED
    BY <1>1, <1>2, <2>1 DEF PresenceInv, SubsInv, PresenceTypes
<1>4. /\ seq \in Seq(Message)
      /\ \A i \in DOMAIN seq : seq[i].from = p /\ (i > 1 => seq[i].act # "unsub")
      /\ seq # <<>> /\ (seq[1].act = "unsub" <=> last) /\ (last => seq[1].key = entry[p])
  <2>1. /\ Presence!Msg("leave", p, local[c], Presence!Nothing) \in Message
        /\ Presence!Msg("unsub", p, entry[p], Presence!Nothing) \in Message
    BY <1>1, <1>2, <1>3, StateIsABag DEF Presence!Msg, Message, Actions, PresenceInv, PresenceTypes
  <2>2. /\ unsub \o leave \in Seq(Message) /\ Len(unsub \o leave) = 2
        /\ (unsub \o leave)[1] = Presence!Msg("unsub", p, entry[p], Presence!Nothing)
        /\ (unsub \o leave)[2] = Presence!Msg("leave", p, local[c], Presence!Nothing)
    BY <2>1
  <2> QED
    BY <2>1, <2>2 DEF Presence!Msg
<1> HIDE DEF seq
<1>5. /\ pend' \in [Presence!Threads -> Seq(Message)]
      /\ \A u \in Presence!Threads : pend'[u] = IF u = t THEN seq ELSE pend[u]
      /\ MessagesInv'
  <2>1. \A i \in DOMAIN seq : seq[i].from = Presence!PodOf(t) /\ (i > 1 => seq[i].act # "unsub")
    BY <1>2, <1>4
  <2>2. seq \in Seq(Message)
    BY <1>4
  <2> QED
    BY <1>1, <1>2, <2>1, <2>2, Handed DEF PresenceInv, MessagesInv
<1>6. PresenceTypes'
  <2>1. /\ remote' \in [Pods -> [Pods -> Belief \cup {NONE}]]
        /\ \A q \in Pods : remote'[q][q] = NONE
    BY <1>1, <1>2 DEF PresenceInv, PresenceTypes
  <2> QED
    BY <1>1, <1>5, <2>1 DEF PresenceInv, PresenceTypes
<1>7. SubsInv'
  <2>1. \A q \in up : q # p => Presence!Tracked(q, local') = Presence!Tracked(q, local)
    BY <1>1 DEF Presence!Tracked, PresenceInv, PresenceTypes
  <2>2. \A u \in Presence!Threads : u # t =>
          (Leaves(u)' <=> Leaves(u)) /\ pend'[u] = pend[u]
    BY <1>5 DEF Leaves
  <2>3. ~Leaves(t) /\ (Leaves(t)' <=> last)
    BY <1>1, <1>2, <1>4, <1>5 DEF Leaves
  <2>4. CASE ~last
    <3>1. Presence!Tracked(p, local') # {} => Presence!Tracked(p, local) # {}
      BY <1>1 DEF Presence!Tracked, PresenceInv, PresenceTypes
    <3> QED
      BY <1>1, <2>1, <2>2, <2>3, <2>4, <3>1, SubsRest
  <2>5. CASE last
    <3> SUFFICES ASSUME NEW q \in up
                 PROVE  /\ Presence!Tracked(q, local') # {} => entry'[q] \in live'[q]
                        /\ entry'[q] \in live'[q] \cup {NONE, 0}
                        /\ \A u \in Leaving(q)' :
                             pend'[u][1].key \in live'[q] /\ pend'[u][1].key # entry'[q]
                        /\ \A u, v \in Leaving(q)' : pend'[u][1].key = pend'[v][1].key => u = v
                        /\ \A s \in live'[q] :
                             s = entry'[q] \/ \E u \in Leaving(q)' : pend'[u][1].key = s
      BY <1>1 DEF SubsInv, Presence!Tracked
    <3>1. CASE q # p
      <4>1. Leaving(q)' = Leaving(q) /\ \A u \in Leaving(q) : pend'[u] = pend[u]
        BY <1>2, <2>2, <3>1 DEF Leaving
      <4>2. live'[q] = live[q] /\ entry'[q] = entry[q]
        BY <1>1, <3>1 DEF PresenceInv, PresenceTypes
      <4> QED
        BY <2>1, <3>1, <4>1, <4>2 DEF PresenceInv, SubsInv
    <3>2. CASE q = p
      <4>1. Leaving(p)' = Leaving(p) \cup {t} /\ t \notin Leaving(p)
            /\ (\A u \in Leaving(p) : pend'[u] = pend[u]) /\ pend'[t][1].key = entry[p]
        BY <1>2, <1>4, <1>5, <2>2, <2>3, <2>5 DEF Leaving
      <4>2. live'[p] = live[p] /\ entry'[p] = NONE
        BY <1>1, <1>2, <2>5 DEF PresenceInv, PresenceTypes
      <4>3. Presence!Tracked(p, local') = {}
        BY <1>1, <2>5 DEF Presence!Tracked, PresenceInv, PresenceTypes
      <4>4. NONE \notin live[p]
        BY <1>2 DEF PresenceInv, PresenceTypes, Presence!PresenceConstants
      <4>5. \A u \in Leaving(p) : pend[u][1].key \in live[p] /\ pend[u][1].key # entry[p]
        BY <1>1 DEF PresenceInv, SubsInv
      <4>6. \A u \in Leaving(p)' : pend'[u][1].key \in live[p]
        BY <1>3, <4>1, <4>5
      <4>7. \A u, v \in Leaving(p)' : pend'[u][1].key = pend'[v][1].key => u = v
        BY <1>1, <4>1, <4>5 DEF PresenceInv, SubsInv
      <4>8. \A s \in live[p] : \E u \in Leaving(p)' : pend'[u][1].key = s
        BY <1>1, <4>1 DEF PresenceInv, SubsInv
      <4> QED
        BY <3>2, <4>2, <4>3, <4>4, <4>6, <4>7, <4>8
    <3> QED
      BY <3>1, <3>2
  <2> QED
    BY <2>4, <2>5
<1> QED
  BY <1>5, <1>6, <1>7 DEF PresenceInv

\* What is left of a thread's list once its head is done.
LEMMA HeadDone ==
  ASSUME PresenceInv, NEW t \in Presence!Threads, pend[t] # <<>>,
         pend' = [pend EXCEPT ![t] = Tail(@)]
  PROVE  /\ pend' \in [Presence!Threads -> Seq(Message)]
         /\ Head(pend[t]) = pend[t][1] /\ pend[t][1] \in Message /\ 1 \in DOMAIN pend[t]
         /\ \A u \in Presence!Threads : u # t => pend'[u] = pend[u]
         /\ \A u \in Presence!Threads : \A i \in DOMAIN pend'[u] :
              pend'[u][i].from = Presence!PodOf(u) /\ (i > 1 => pend'[u][i].act # "unsub")
         /\ ~Leaves(t)'
<1>1. /\ Tail(pend[t]) \in Seq(Message) /\ DOMAIN pend[t] = 1..Len(pend[t])
      /\ Len(pend[t]) \in Nat /\ Len(pend[t]) > 0
      /\ Len(Tail(pend[t])) = Len(pend[t]) - 1
      /\ \A i \in DOMAIN Tail(pend[t]) : Tail(pend[t])[i] = pend[t][i + 1]
                                         /\ i + 1 \in DOMAIN pend[t] /\ i + 1 > 1
      /\ Head(pend[t]) = pend[t][1] /\ pend[t][1] \in Message
  BY DEF PresenceInv, PresenceTypes
<1>2. \A u \in Presence!Threads : pend'[u] = IF u = t THEN Tail(pend[t]) ELSE pend[u]
  BY DEF PresenceInv, PresenceTypes
<1>3. \A i \in DOMAIN Tail(pend[t]) : Tail(pend[t])[i].from = Presence!PodOf(t)
                                      /\ Tail(pend[t])[i].act # "unsub"
  BY <1>1 DEF PresenceInv, MessagesInv
<1>4. ~Leaves(t)'
  <2>1. Tail(pend[t]) # <<>> => 1 \in DOMAIN Tail(pend[t])
    BY <1>1
  <2> QED
    BY <1>2, <1>3, <2>1 DEF Leaves
<1>5. pend' \in [Presence!Threads -> Seq(Message)]
  BY <1>1 DEF PresenceInv, PresenceTypes
<1> QED
  BY <1>1, <1>2, <1>3, <1>4, <1>5 DEF PresenceInv, MessagesInv

LEMMA UnsubscribeKeeps ==
  ASSUME Presence!PresenceConstants, PresenceInv, NEW t \in Presence!Threads,
         Presence!Unsubscribe(t)
  PROVE  PresenceInv'
<1> DEFINE p == Presence!PodOf(t)
           gone == pend[t][1].key
<1>1. /\ pend[t] # <<>> /\ Head(pend[t]).act = "unsub"
      /\ live' = [live EXCEPT ![p] = @ \ {Head(pend[t]).key}]
      /\ pend' = [pend EXCEPT ![t] = Tail(@)]
      /\ UNCHANGED <<up, local, entry, remote, nextSub, inbox>>
  BY DEF Presence!Unsubscribe
<1>2. /\ pend' \in [Presence!Threads -> Seq(Message)] /\ MessagesInv'
      /\ \A u \in Presence!Threads : u # t => pend'[u] = pend[u]
      /\ Leaves(t) /\ ~Leaves(t)' /\ Head(pend[t]) = pend[t][1]
  BY <1>1, HeadDone DEF PresenceInv, MessagesInv, Leaves
<1>3. \A q \in Pods : live'[q] = IF q = p THEN live[p] \ {gone} ELSE live[q]
  BY <1>1, <1>2 DEF PresenceInv, PresenceTypes
<1>4. PresenceTypes'
  <2>1. live' \in [Pods -> SUBSET (1..nextSub)]
    BY <1>1, <1>3 DEF PresenceInv, PresenceTypes
  <2> QED
    BY <1>1, <1>2, <2>1 DEF PresenceInv, PresenceTypes
<1>5. SubsInv'
  <2> SUFFICES ASSUME NEW q \in up
               PROVE  /\ Presence!Tracked(q, local') # {} => entry'[q] \in live'[q]
                      /\ entry'[q] \in live'[q] \cup {NONE, 0}
                      /\ \A u \in Leaving(q)' :
                           pend'[u][1].key \in live'[q] /\ pend'[u][1].key # entry'[q]
                      /\ \A u, v \in Leaving(q)' : pend'[u][1].key = pend'[v][1].key => u = v
                      /\ \A s \in live'[q] :
                           s = entry'[q] \/ \E u \in Leaving(q)' : pend'[u][1].key = s
    BY <1>1 DEF SubsInv, Presence!Tracked
  <2>1. Leaving(q)' = Leaving(q) \ {t} /\ \A u \in Leaving(q)' : pend'[u] = pend[u]
    BY <1>2 DEF Leaving, Leaves
  <2>2. CASE q # p
    <3>1. t \notin Leaving(q) /\ live'[q] = live[q]
      BY <1>3, <2>2 DEF Leaving, PresenceInv, PresenceTypes
    <3> QED
      BY <1>1, <2>1, <3>1 DEF PresenceInv, SubsInv
  <2>3. CASE q = p
    <3>1. t \in Leaving(p) /\ live'[p] = live[p] \ {gone} /\ gone # entry[p]
      BY <1>2, <1>3, <2>3 DEF Leaving, PresenceInv, PresenceTypes, SubsInv
    <3> HIDE DEF gone
    <3>2. \A u \in Leaving(p) : u # t => pend[u][1].key # gone
      BY <2>3, <3>1 DEF PresenceInv, SubsInv, gone
    <3> QED
      BY <1>1, <2>1, <2>3, <3>1, <3>2 DEF PresenceInv, SubsInv, gone
  <2> QED
    BY <2>2, <2>3
<1> QED
  BY <1>2, <1>4, <1>5 DEF PresenceInv

LEMMA PublishActionKeeps ==
  ASSUME Presence!PresenceConstants, PresenceInv, NEW t \in Presence!Threads,
         Presence!PublishAction(t)
  PROVE  PresenceInv'
<1> DEFINE m == Head(pend[t])
<1>1. /\ pend[t] # <<>> /\ m.act # "unsub"
      /\ inbox' = [p \in Pods |-> IF p = Presence!PodOf(t) \/ p \notin up THEN inbox[p]
                                  ELSE Append(inbox[p], m)]
      /\ pend' = [pend EXCEPT ![t] = Tail(@)]
      /\ UNCHANGED <<up, local, entry, remote, live, nextSub>>
  BY DEF Presence!PublishAction
<1>2. /\ pend' \in [Presence!Threads -> Seq(Message)]
      /\ m = pend[t][1] /\ m \in Message /\ m.from = Presence!PodOf(t)
      /\ \A u \in Presence!Threads : u # t => pend'[u] = pend[u]
      /\ \A u \in Presence!Threads : \A i \in DOMAIN pend'[u] :
           pend'[u][i].from = Presence!PodOf(u) /\ (i > 1 => pend'[u][i].act # "unsub")
      /\ ~Leaves(t) /\ ~Leaves(t)'
  <2>1. m = pend[t][1] /\ pend[t][1] \in Message /\ 1 \in DOMAIN pend[t]
    BY <1>1, HeadDone
  <2>2. pend[t][1].from = Presence!PodOf(t)
    BY <2>1 DEF PresenceInv, MessagesInv
  <2>3. ~Leaves(t)
    BY <1>1, <2>1 DEF Leaves
  <2> QED
    BY <1>1, <2>1, <2>2, <2>3, HeadDone
<1>3. inbox' \in [Pods -> Seq(Message)]
  BY <1>1, <1>2 DEF PresenceInv, PresenceTypes
<1>4. \A p \in Pods : \A i \in DOMAIN inbox'[p] :
        inbox'[p][i].from # p /\ inbox'[p][i].act # "unsub"
  <2> SUFFICES ASSUME NEW p \in Pods, NEW i \in DOMAIN inbox'[p]
               PROVE  inbox'[p][i].from # p /\ inbox'[p][i].act # "unsub"
    OBVIOUS
  <2>1. CASE p = Presence!PodOf(t) \/ p \notin up
    BY <1>1, <2>1 DEF PresenceInv, MessagesInv
  <2>2. CASE ~(p = Presence!PodOf(t) \/ p \notin up)
    <3>1. inbox'[p] = Append(inbox[p], m) /\ inbox[p] \in Seq(Message)
      BY <1>1, <2>2 DEF PresenceInv, PresenceTypes
    <3>2. (i \in DOMAIN inbox[p] /\ inbox'[p][i] = inbox[p][i]) \/ inbox'[p][i] = m
      BY <1>2, <3>1
    <3> QED
      BY <1>1, <1>2, <2>2, <3>2 DEF PresenceInv, MessagesInv
  <2> QED
    BY <2>1, <2>2
<1>5. SubsInv'
  BY <1>1, <1>2, SubsRest DEF Leaves
<1> QED
  BY <1>1, <1>2, <1>3, <1>4, <1>5 DEF PresenceInv, PresenceTypes, MessagesInv

\* What a pod takes from its inbox.
LEMMA InboxTaken ==
  ASSUME PresenceInv, NEW p \in Pods, inbox[p] # <<>>,
         inbox' = [inbox EXCEPT ![p] = Tail(@)]
  PROVE  /\ inbox' \in [Pods -> Seq(Message)]
         /\ Head(inbox[p]) \in Message /\ Head(inbox[p]).from # p
         /\ Head(inbox[p]).act \in Actions
         /\ \A q \in Pods : \A i \in DOMAIN inbox'[q] :
              inbox'[q][i].from # q /\ inbox'[q][i].act # "unsub"
<1>1. /\ Tail(inbox[p]) \in Seq(Message) /\ 1 \in DOMAIN inbox[p]
      /\ Head(inbox[p]) = inbox[p][1] /\ inbox[p][1] \in Message
      /\ \A i \in DOMAIN Tail(inbox[p]) : Tail(inbox[p])[i] = inbox[p][i + 1]
                                          /\ i + 1 \in DOMAIN inbox[p]
  BY DEF PresenceInv, PresenceTypes
<1>2. inbox[p][1].from # p /\ inbox[p][1].act # "unsub"
  BY <1>1 DEF PresenceInv, MessagesInv
<1>3. \A i \in DOMAIN Tail(inbox[p]) : Tail(inbox[p])[i].from # p
                                       /\ Tail(inbox[p])[i].act # "unsub"
  BY <1>1 DEF PresenceInv, MessagesInv
<1>4. inbox' \in [Pods -> Seq(Message)]
  BY <1>1 DEF PresenceInv, PresenceTypes
<1>5. \A q \in Pods : inbox'[q] = IF q = p THEN Tail(inbox[p]) ELSE inbox[q]
  BY DEF PresenceInv, PresenceTypes
<1> QED
  BY <1>1, <1>2, <1>3, <1>4, <1>5 DEF PresenceInv, MessagesInv, Message, Actions

LEMMA AppliedTyped ==
  ASSUME NEW e \in [Keys -> Nat], NEW m \in Message, m.act \in {"join", "leave", "state"}
  PROVE  Presence!Applied(e, m) \in [Keys -> Nat]
<1>1. CASE m.act = "join"
  <2>1. e[m.key] + 1 \in Nat \/ m.key \notin Keys
    OBVIOUS
  <2>2. Presence!Applied(e, m) = [e EXCEPT ![m.key] = @ + 1]
    BY <1>1 DEF Presence!Applied
  <2> QED
    BY <2>1, <2>2
<1>2. CASE m.act = "leave"
  <2>1. (IF e[m.key] = 0 THEN 0 ELSE e[m.key] - 1) \in Nat \/ m.key \notin Keys
    OBVIOUS
  <2>2. Presence!Applied(e, m) = [e EXCEPT ![m.key] = IF @ = 0 THEN 0 ELSE @ - 1]
    BY <1>2 DEF Presence!Applied
  <2> QED
    BY <2>1, <2>2
<1>3. CASE m.act = "state"
  BY <1>3 DEF Presence!Applied, Message
<1> QED
  BY <1>1, <1>2, <1>3

LEMMA BelieveTyped ==
  ASSUME Presence!PresenceConstants, PresenceInv, NEW p \in Pods, NEW m \in Message, NEW n,
         m.act \in {"join", "leave", "state"}, m.from # p
  PROVE  /\ Presence!Believe(p, m, n) \in [Pods -> [Pods -> Belief \cup {NONE}]]
         /\ \A q \in Pods : Presence!Believe(p, m, n)[q][q] = NONE
<1> DEFINE e == Presence!Seen(p, m.from)
           after == IF n = 1 THEN Presence!Applied(e, m)
                      ELSE Presence!Applied(Presence!Applied(e, m), m)
<1>1. m.from \in Pods
  BY DEF Message
<1>2. e \in [Keys -> Nat]
  <2>1. remote[p][m.from] \in Belief \cup {NONE}
    BY <1>1 DEF PresenceInv, PresenceTypes
  <2>2. Presence!Nothing \in [Keys -> Nat]
    BY StateIsABag
  <2>3. CASE remote[p][m.from] = NONE
    BY <2>2, <2>3 DEF Presence!Seen
  <2>4. CASE remote[p][m.from] # NONE
    BY <2>1, <2>4 DEF Presence!Seen, Belief
  <2> QED
    BY <2>3, <2>4
<1> HIDE DEF e
<1>3. after \in [Keys -> Nat]
  BY <1>2, AppliedTyped
<1> HIDE DEF after
<1>4. [age |-> 0, entries |-> after] \in Belief
  BY <1>3 DEF Belief, Presence!ExpiryCertain
<1>5. Presence!Believe(p, m, n) = [remote EXCEPT ![p][m.from] = [age |-> 0, entries |-> after]]
  BY DEF Presence!Believe, after, e
<1> QED
  BY <1>1, <1>4, <1>5 DEF PresenceInv, PresenceTypes

LEMMA OnBrokerMessageKeeps ==
  ASSUME Presence!PresenceConstants, PresenceInv, NEW p \in Pods, Presence!OnBrokerMessage(p)
  PROVE  PresenceInv'
<1> DEFINE m == Head(inbox[p])
           n == Presence!Cardinality(live[p])
           t == Presence!Listener(p)
           answer == IF entry[p] = NONE THEN <<>>
                       ELSE <<Presence!Msg("state", p, NONE, Presence!LocalState(p))>>
<1>1. /\ p \in up /\ inbox[p] # <<>> /\ pend[t] = <<>>
      /\ inbox' = [inbox EXCEPT ![p] = Tail(@)]
      /\ UNCHANGED <<up, local, live, nextSub>>
  BY DEF Presence!OnBrokerMessage
<1>2. /\ m \in Message /\ m.from # p /\ m.act \in Actions
      /\ inbox' \in [Pods -> Seq(Message)]
      /\ \A q \in Pods : \A i \in DOMAIN inbox'[q] :
           inbox'[q][i].from # q /\ inbox'[q][i].act # "unsub"
  BY <1>1, InboxTaken
<1>3. t \in Presence!Threads /\ Presence!PodOf(t) = p
  BY ThreadsOf
<1>4. CASE Presence!Do(t, answer) /\ UNCHANGED <<entry, remote>>
  <2>1. Clean(answer, p)
    <3>1. Presence!Msg("state", p, NONE, Presence!LocalState(p)) \in Message
      BY StateIsABag DEF Presence!Msg, Message, Actions
    <3> QED
      BY <3>1, CleanPieces DEF Presence!Msg
  <2> HIDE DEF answer
  <2>2. /\ pend' \in [Presence!Threads -> Seq(Message)]
        /\ \A u \in Presence!Threads : pend'[u] = IF u = t THEN answer ELSE pend[u]
        /\ \A u \in Presence!Threads : \A i \in DOMAIN pend'[u] :
             pend'[u][i].from = Presence!PodOf(u) /\ (i > 1 => pend'[u][i].act # "unsub")
    BY <1>1, <1>3, <1>4, <2>1, Handed DEF Clean
  <2>3. \A u \in Presence!Threads :
          (Leaves(u)' <=> Leaves(u)) /\ (Leaves(u) => pend'[u][1] = pend[u][1])
    <3>1. ~Leaves(t) /\ ~(pend'[t] # <<>> /\ pend'[t][1].act = "unsub")
      BY <1>1, <1>3, <2>1, <2>2 DEF Leaves, Clean
    <3> QED
      BY <2>2, <3>1 DEF Leaves
  <2>4. SubsInv'
    BY <1>1, <1>4, <2>3, SubsRest
  <2> QED
    BY <1>1, <1>2, <1>4, <2>2, <2>4 DEF PresenceInv, PresenceTypes, MessagesInv
<1>5. CASE /\ m.act # "req" /\ remote' = Presence!Believe(p, m, n) /\ UNCHANGED pend
           /\ entry' = IF entry[p] = NONE THEN [entry EXCEPT ![p] = 0] ELSE entry
  <2>1. /\ remote' \in [Pods -> [Pods -> Belief \cup {NONE}]]
        /\ \A q \in Pods : remote'[q][q] = NONE
    BY <1>2, <1>5, BelieveTyped DEF Actions
  <2>2. entry' \in [Pods -> {NONE} \cup 0..nextSub']
        /\ \A q \in Pods : entry'[q] = entry[q] \/ (entry[q] = NONE /\ entry'[q] = 0)
    BY <1>1, <1>5 DEF PresenceInv, PresenceTypes
  <2>3. SubsInv'
    <3>1. up \subseteq Pods
      BY DEF PresenceInv, PresenceTypes
    <3> QED
      BY <1>1, <1>5, <2>2, <3>1, SubsRest DEF Leaves
  <2> QED
    <3>1. PresenceTypes'
      BY <1>1, <1>2, <1>5, <2>1, <2>2 DEF PresenceInv, PresenceTypes
    <3>2. MessagesInv'
      BY <1>2, <1>5 DEF PresenceInv, MessagesInv
    <3> QED
      BY <2>3, <3>1, <3>2 DEF PresenceInv
<1>6. CASE UNCHANGED <<entry, remote, pend>>
  <2>1. SubsInv'
    BY <1>1, <1>6, SubsRest DEF Leaves
  <2> QED
    BY <1>1, <1>2, <1>6, <2>1 DEF PresenceInv, PresenceTypes, MessagesInv
<1> QED
  BY <1>4, <1>5, <1>6 DEF Presence!OnBrokerMessage

LEMMA HousekeepKeeps ==
  ASSUME Presence!PresenceConstants, PresenceInv, NEW p \in Pods, Presence!Housekeep(p)
  PROVE  PresenceInv'
<1> DEFINE t == Presence!Keeper(p)
           state == <<Presence!Msg("state", p, NONE, Presence!LocalState(p))>>
<1>1. p \in up /\ pend[t] = <<>> /\ UNCHANGED <<up, local, entry, live, nextSub, inbox>>
  BY DEF Presence!Housekeep
<1>2. t \in Presence!Threads /\ Presence!PodOf(t) = p
  BY ThreadsOf
<1>3. CASE UNCHANGED <<remote, pend>>
  <2>1. SubsInv'
    BY <1>1, <1>3, SubsRest DEF Leaves
  <2> QED
    BY <1>1, <1>3, <2>1 DEF PresenceInv, PresenceTypes, MessagesInv
<1>4. CASE /\ Presence!Do(t, state)
           /\ \E late \in SUBSET Pods :
                remote' = [remote EXCEPT ![p] = [q \in Pods |->
                            IF q \in late \/ (@[q] # NONE /\ @[q].age = Presence!ExpiryCertain)
                              THEN NONE ELSE @[q]]]
  <2>1. Clean(state, p)
    <3>1. Presence!Msg("state", p, NONE, Presence!LocalState(p)) \in Message
      BY StateIsABag DEF Presence!Msg, Message, Actions
    <3> QED
      BY <3>1, CleanPieces DEF Presence!Msg
  <2> HIDE DEF state
  <2>2. /\ pend' \in [Presence!Threads -> Seq(Message)]
        /\ \A u \in Presence!Threads : pend'[u] = IF u = t THEN state ELSE pend[u]
        /\ \A u \in Presence!Threads : \A i \in DOMAIN pend'[u] :
             pend'[u][i].from = Presence!PodOf(u) /\ (i > 1 => pend'[u][i].act # "unsub")
    BY <1>1, <1>2, <1>4, <2>1, Handed DEF Clean
  <2>3. \A u \in Presence!Threads :
          (Leaves(u)' <=> Leaves(u)) /\ (Leaves(u) => pend'[u][1] = pend[u][1])
    <3>1. ~Leaves(t) /\ ~(pend'[t] # <<>> /\ pend'[t][1].act = "unsub")
      BY <1>1, <1>2, <2>1, <2>2 DEF Leaves, Clean
    <3> QED
      BY <2>2, <3>1 DEF Leaves
  <2>4. /\ remote' \in [Pods -> [Pods -> Belief \cup {NONE}]]
        /\ \A q \in Pods : remote'[q][q] = NONE
    BY <1>4 DEF PresenceInv, PresenceTypes
  <2>5. SubsInv'
    BY <1>1, <2>3, SubsRest
  <2> QED
    BY <1>1, <2>2, <2>4, <2>5 DEF PresenceInv, PresenceTypes, MessagesInv
<1> QED
  BY <1>3, <1>4 DEF Presence!Housekeep

LEMMA TickKeeps ==
  ASSUME Presence!PresenceConstants, PresenceInv, Presence!Tick
  PROVE  PresenceInv'
<1>1. /\ remote' = [p \in Pods |-> [q \in Pods |->
                      IF remote[p][q] = NONE THEN NONE
                      ELSE [remote[p][q] EXCEPT !.age = IF @ = Presence!ExpiryCertain THEN @
                                                       ELSE @ + 1]]]
      /\ UNCHANGED <<up, local, entry, live, nextSub, inbox, pend>>
  BY DEF Presence!Tick
<1>2. /\ remote' \in [Pods -> [Pods -> Belief \cup {NONE}]]
      /\ \A q \in Pods : remote'[q][q] = NONE
  <2>1. \A r \in Belief :
          [r EXCEPT !.age = IF @ = Presence!ExpiryCertain THEN @ ELSE @ + 1] \in Belief
    <3> SUFFICES ASSUME NEW r \in Belief
                 PROVE  [r EXCEPT !.age = IF @ = Presence!ExpiryCertain THEN @
                                            ELSE @ + 1] \in Belief
      OBVIOUS
    <3>1. (IF r.age = Presence!ExpiryCertain THEN r.age
             ELSE r.age + 1) \in 0..Presence!ExpiryCertain
      BY DEF Belief, Presence!ExpiryCertain
    <3> QED
      BY <3>1 DEF Belief
  <2>2. \A p, q \in Pods : remote[p][q] # NONE => remote[p][q] \in Belief
    BY DEF PresenceInv, PresenceTypes
  <2>3. \A p, q \in Pods : remote'[p][q] \in Belief \cup {NONE}
    BY <1>1, <2>1, <2>2
  <2>4. \A q \in Pods : remote'[q][q] = NONE
    BY <1>1 DEF PresenceInv, PresenceTypes
  <2> QED
    BY <1>1, <2>3, <2>4
<1>3. SubsInv'
  BY <1>1, SubsRest DEF Leaves
<1> QED
  BY <1>1, <1>2, <1>3 DEF PresenceInv, PresenceTypes, MessagesInv

LEMMA LossKeeps ==
  ASSUME Presence!PresenceConstants, PresenceInv, NEW p \in Pods,
         Presence!Crash(p) \/ Presence!LoseInbox(p)
  PROVE  PresenceInv'
<1>1. inbox' = [inbox EXCEPT ![p] = <<>>] /\ nextSub' = nextSub
  BY DEF Presence!Crash, Presence!LoseInbox
<1>2. /\ inbox' \in [Pods -> Seq(Message)]
      /\ \A q \in Pods : \A i \in DOMAIN inbox'[q] :
           inbox'[q][i].from # q /\ inbox'[q][i].act # "unsub"
  BY <1>1 DEF PresenceInv, PresenceTypes, MessagesInv
<1>3. CASE Presence!LoseInbox(p)
  <2>1. UNCHANGED <<up, local, entry, remote, live, nextSub, pend>>
    BY <1>3 DEF Presence!LoseInbox
  <2>2. SubsInv'
    BY <2>1, SubsRest DEF Leaves
  <2> QED
    BY <1>2, <2>1, <2>2 DEF PresenceInv, PresenceTypes, MessagesInv
<1>4. CASE Presence!Crash(p)
  <2>1. /\ up' = up \ {p}
        /\ local' = [c \in Conns |-> IF Home[c] = p THEN NONE ELSE local[c]]
        /\ pend' = [t \in Presence!Threads |-> IF Presence!PodOf(t) = p THEN <<>> ELSE pend[t]]
        /\ entry' = [entry EXCEPT ![p] = NONE] /\ live' = [live EXCEPT ![p] = {}]
        /\ remote' = [remote EXCEPT ![p] = [q \in Pods |-> NONE]]
    BY <1>4 DEF Presence!Crash
  <2>2. PresenceTypes'
    BY <1>1, <1>2, <2>1 DEF PresenceInv, PresenceTypes
  <2>3. MessagesInv'
    <3>1. \A t \in Presence!Threads : pend'[t] = <<>> \/ pend'[t] = pend[t]
      BY <2>1
    <3> QED
      BY <1>2, <3>1 DEF PresenceInv, MessagesInv
  <2>4. SubsInv'
    <3>1. \A q \in up' : q \in Pods /\ q # p /\ live'[q] = live[q] /\ entry'[q] = entry[q]
                         /\ Presence!Tracked(q, local') = Presence!Tracked(q, local)
      BY <2>1 DEF PresenceInv, PresenceTypes, Presence!Tracked
    <3>2. \A t \in Presence!Threads : Presence!PodOf(t) \in up' => pend'[t] = pend[t]
      BY <2>1
    <3> QED
      BY <2>1, <3>1, <3>2, SubsRest DEF Leaves
  <2> QED
    BY <2>2, <2>3, <2>4 DEF PresenceInv
<1> QED
  BY <1>3, <1>4

LEMMA PresenceInit ==
  ASSUME Presence!PresenceConstants, Presence!Init
  PROVE  PresenceInv
<1>1. \A q \in Pods : Presence!LocalState(q) \in [Keys -> Nat]
  BY StateIsABag
<1>2. PresenceTypes
  BY <1>1 DEF Presence!Init, PresenceTypes, Belief, Presence!ExpiryCertain
<1>3. MessagesInv /\ SubsInv
  BY DEF Presence!Init, MessagesInv, SubsInv, Leaving, Leaves
<1> QED
  BY <1>2, <1>3 DEF PresenceInv

LEMMA PresenceNext ==
  ASSUME Presence!PresenceConstants, PresenceInv, [Presence!Next]_(Presence!vars)
  PROVE  PresenceInv'
<1>1. CASE Presence!Next
  BY <1>1, TrackKeeps, UntrackKeeps, UnsubscribeKeeps, PublishActionKeeps,
     OnBrokerMessageKeeps, HousekeepKeeps, TickKeeps, LossKeeps DEF Presence!Next
<1>2. CASE UNCHANGED Presence!vars
  <2>1. SubsInv'
    BY <1>2, SubsRest DEF Presence!vars, Leaves
  <2> QED
    BY <1>2, <2>1 DEF Presence!vars, PresenceInv, PresenceTypes, MessagesInv
<1> QED
  BY <1>1, <1>2

\* A pod that tracks anybody is subscribed to the topic, and has no subscription
\* but its entry's and those about to be cancelled.
THEOREM PodsListen ==
  ASSUME Presence!PresenceConstants
  PROVE  Presence!Spec => []Presence!ListensWhileTracking
<1>1. Presence!Init => PresenceInv
  BY PresenceInit
<1>2. PresenceInv /\ [Presence!Next]_(Presence!vars) => PresenceInv'
  BY PresenceNext
<1>3. PresenceInv => Presence!ListensWhileTracking
  BY PresenceSafe
<1> QED
  BY <1>1, <1>2, <1>3, PTL DEF Presence!Spec

(***************************************************************************)
(* The broker.  What a pod has heard, what its listener has read and what  *)
(* the server keeps for it is one line: in it the messages of a thread of  *)
(* another pod never go backwards, and stand twice only if sent again.     *)
(***************************************************************************)

Note == [thread : Publishers, n : Nat]

PubSubTypes ==
  /\ heard \in [Pods -> Seq(Note)] /\ queue \in [Pods -> Seq(Note)]
  /\ buffered \in [Pods -> Seq(Note)]
  /\ mutex \in [Pods -> Publishers \cup {NONE}]
  /\ pc \in [Publishers -> {"idle", "lock", "notify"}]
  /\ attempt \in [Publishers -> {0, 1}]
  /\ sent \in [Publishers -> Nat] /\ again \subseteq Note

\* A thread at the connection has the mutex of its pod, and a message.
MutexInv ==
  \A t \in Publishers : /\ pc[t] = "notify" <=> mutex[PublisherPod[t]] = t
                        /\ pc[t] # "idle" => sent[t] > 0

\* Of another pod's thread, one message may come before another.
MayPrecede(p, a, b) ==
  (a.thread = b.thread /\ PublisherPod[a.thread] # p) => a.n <= b.n /\ (a = b => a \in again)

Sorted(p, s) == \A i, j \in DOMAIN s : i < j => MayPrecede(p, s[i], s[j])
AllBefore(p, r, s) == \A i \in DOMAIN r, j \in DOMAIN s : MayPrecede(p, r[i], s[j])

\* What a pod has heard, has read and has still to read is one sequence, in the
\* order of each thread.
LineInv ==
  \A p \in Pods :
    /\ Sorted(p, heard[p]) /\ Sorted(p, buffered[p]) /\ Sorted(p, queue[p])
    /\ AllBefore(p, heard[p], buffered[p]) /\ AllBefore(p, heard[p], queue[p])
    /\ AllBefore(p, buffered[p], queue[p])

\* A message that stands anywhere has been published, and not yet sent to other
\* pods while its thread has its first NOTIFY before it.
Given(m, p) ==
  /\ m.n <= sent[m.thread]
  /\ (PublisherPod[m.thread] # p /\ m.n = sent[m.thread]) =>
       /\ pc[m.thread] # "lock"
       /\ pc[m.thread] = "notify" => attempt[m.thread] = 1 /\ m \in again
GivenInv ==
  \A p \in Pods : /\ \A i \in DOMAIN heard[p] : Given(heard[p][i], p)
                  /\ \A i \in DOMAIN buffered[p] : Given(buffered[p][i], p)
                  /\ \A i \in DOMAIN queue[p] : Given(queue[p][i], p)

\* A pod's subscriber has every message of the pod's own threads once.
OwnInv ==
  \A t \in Publishers :
    /\ \A i, j \in DOMAIN heard[PublisherPod[t]] :
         (i < j /\ heard[PublisherPod[t]][i].thread = t /\ heard[PublisherPod[t]][j].thread = t) =>
           heard[PublisherPod[t]][i].n < heard[PublisherPod[t]][j].n
    /\ \A n \in 1..sent[t] : \E i \in DOMAIN heard[PublisherPod[t]] :
         heard[PublisherPod[t]][i] = [thread |-> t, n |-> n]

PubSubInv == PubSubTypes /\ MutexInv /\ LineInv /\ GivenInv /\ OwnInv

-----------------------------------------------------------------------------

LEMMA BrokerSafe ==
  ASSUME PubSub!PubSubConstants, PubSubInv
  PROVE  PubSub!OnlyRetriesRepeat /\ PubSub!InOrder
<1>1. PubSub!OnlyRetriesRepeat
  <2> SUFFICES ASSUME NEW t \in Publishers, NEW n \in 1..sent[t], NEW p \in Pods
               PROVE  LET m == [thread |-> t, n |-> n] IN
                        /\ PublisherPod[t] = p => PubSub!Times(p, m) = 1
                        /\ PubSub!Times(p, m) > 1 => m \in again
    BY DEF PubSub!OnlyRetriesRepeat
  <2> DEFINE m == [thread |-> t, n |-> n]
             S == {i \in DOMAIN heard[p] : heard[p][i] = m}
  <2>0. PubSub!Times(p, m) = Cardinality(S)
    BY SameCounting DEF PubSub!Times
  <2>1. heard[p] \in Seq(Note) /\ m.thread = t /\ m.n = n /\ n \in Nat
    BY DEF PubSubInv, PubSubTypes
  <2>2. CASE PublisherPod[t] = p
    <3>1. PICK i \in DOMAIN heard[p] : heard[p][i] = m
      BY <2>2 DEF PubSubInv, OwnInv
    <3>2. \A j \in S : j = i
      <4> SUFFICES ASSUME NEW j \in DOMAIN heard[p], heard[p][j] = m, j # i
                   PROVE  FALSE
        OBVIOUS
      <4>1. i < j \/ j < i
        BY <2>1
      <4>2. heard[p][i].thread = t /\ heard[p][j].thread = t
            /\ heard[p][i].n = n /\ heard[p][j].n = n
        BY <3>1
      <4>3. n < n
        BY <2>2, <4>1, <4>2 DEF PubSubInv, OwnInv
      <4> QED
        BY <2>1, <4>3
    <3>3. S = {i}
      BY <3>1, <3>2
    <3>4. Cardinality(S) = 1
      BY <3>3, FS_Singleton
    <3> QED
      BY <2>0, <3>4
  <2>3. CASE PublisherPod[t] # p /\ m \notin again
    <3>1. \A i, j \in S : i = j
      BY <2>1, <2>3 DEF PubSubInv, LineInv, Sorted, MayPrecede
    <3>2. CASE S = {}
      <4>1. Cardinality(S) = 0
        BY <3>2, FS_EmptySet
      <4> QED
        BY <2>0, <2>3, <4>1
    <3>3. CASE S # {}
      <4>1. PICK i \in S : S = {i}
        BY <3>1, <3>3
      <4>2. Cardinality(S) = 1
        BY <4>1, FS_Singleton
      <4> QED
        BY <2>0, <2>3, <4>2
    <3> QED
      BY <3>2, <3>3
  <2>4. CASE PublisherPod[t] # p /\ m \in again
    BY <2>4
  <2> QED
    BY <2>2, <2>3, <2>4
<1>2. PubSub!InOrder
  <2> SUFFICES ASSUME NEW p \in Pods, NEW i \in DOMAIN heard[p], NEW j \in DOMAIN heard[p],
                      i < j, heard[p][i].thread = heard[p][j].thread
               PROVE  heard[p][i].n <= heard[p][j].n
    BY DEF PubSub!InOrder
  <2>1. heard[p][i] \in Note /\ heard[p][j] \in Note
    BY DEF PubSubInv, PubSubTypes
  <2>2. CASE PublisherPod[heard[p][i].thread] = p
    <3>1. heard[p][i].n < heard[p][j].n
      BY <2>1, <2>2 DEF PubSubInv, OwnInv, Note
    <3> QED
      BY <2>1, <3>1 DEF Note
  <2>3. CASE PublisherPod[heard[p][i].thread] # p
    BY <2>3 DEF PubSubInv, LineInv, Sorted, MayPrecede
  <2> QED
    BY <2>2, <2>3
<1> QED
  BY <1>1, <1>2

-----------------------------------------------------------------------------

\* Sequences that grow at the end and shrink at the head stay in order.
LEMMA SortedGrows ==
  ASSUME NEW p, NEW s \in Seq(Note), NEW m \in Note, Sorted(p, s), AllBefore(p, s, <<m>>)
  PROVE  Sorted(p, Append(s, m))
<1> SUFFICES ASSUME NEW i \in DOMAIN Append(s, m), NEW j \in DOMAIN Append(s, m), i < j
             PROVE  MayPrecede(p, Append(s, m)[i], Append(s, m)[j])
  BY DEF Sorted
<1>1. i \in DOMAIN s /\ Append(s, m)[i] = s[i]
  OBVIOUS
<1>2. CASE j \in DOMAIN s
  <2>1. Append(s, m)[j] = s[j]
    BY <1>2
  <2> QED
    BY <1>1, <1>2, <2>1 DEF Sorted
<1>3. CASE j \notin DOMAIN s
  <2>1. Append(s, m)[j] = m
    BY <1>3
  <2>2. MayPrecede(p, s[i], m)
    BY <1>1 DEF AllBefore
  <2> QED
    BY <1>1, <2>1, <2>2
<1> QED
  BY <1>2, <1>3

LEMMA BeforeGrows ==
  ASSUME NEW p, NEW r \in Seq(Note), NEW s \in Seq(Note), NEW m \in Note, AllBefore(p, r, s)
  PROVE  /\ AllBefore(p, r, <<m>>) => AllBefore(p, r, Append(s, m))
         /\ AllBefore(p, <<m>>, s) => AllBefore(p, Append(r, m), s)
<1>1. \A i \in DOMAIN Append(s, m) :
        (i \in DOMAIN s /\ Append(s, m)[i] = s[i]) \/ Append(s, m)[i] = <<m>>[1]
  OBVIOUS
<1>2. \A i \in DOMAIN Append(r, m) :
        (i \in DOMAIN r /\ Append(r, m)[i] = r[i]) \/ Append(r, m)[i] = <<m>>[1]
  OBVIOUS
<1>3. 1 \in DOMAIN <<m>>
  OBVIOUS
<1> QED
  BY <1>1, <1>2, <1>3 DEF AllBefore

LEMMA SortedShrinks ==
  ASSUME NEW p, NEW s \in Seq(Note), s # <<>>, Sorted(p, s)
  PROVE  Sorted(p, Tail(s)) /\ AllBefore(p, <<Head(s)>>, Tail(s))
<1>1. \A i \in DOMAIN Tail(s) : i \in Nat /\ i + 1 \in DOMAIN s /\ Tail(s)[i] = s[i + 1]
  OBVIOUS
<1>2. \A i \in DOMAIN <<Head(s)>> : <<Head(s)>>[i] = s[1]
  OBVIOUS
<1>3. 1 \in DOMAIN s /\ \A i \in DOMAIN Tail(s) : 1 < i + 1
  OBVIOUS
<1> QED
  BY <1>1, <1>2, <1>3 DEF Sorted, AllBefore

LEMMA BeforeShrinks ==
  ASSUME NEW p, NEW r \in Seq(Note), NEW s \in Seq(Note), AllBefore(p, r, s)
  PROVE  /\ s # <<>> => AllBefore(p, r, Tail(s)) /\ AllBefore(p, r, <<Head(s)>>)
         /\ r # <<>> => AllBefore(p, Tail(r), s) /\ AllBefore(p, <<Head(r)>>, s)
<1>1. \A z \in {r, s} : z # <<>> =>
        /\ \A i \in DOMAIN Tail(z) : i + 1 \in DOMAIN z /\ Tail(z)[i] = z[i + 1]
        /\ \A i \in DOMAIN <<Head(z)>> : 1 \in DOMAIN z /\ <<Head(z)>>[i] = z[1]
  OBVIOUS
<1> QED
  BY <1>1 DEF AllBefore

LEMMA SortedJoins ==
  ASSUME NEW p, NEW r \in Seq(Note), NEW s \in Seq(Note),
         Sorted(p, r), Sorted(p, s), AllBefore(p, r, s)
  PROVE  /\ Sorted(p, r \o s)
         /\ \A z : AllBefore(p, z, r) /\ AllBefore(p, z, s) => AllBefore(p, z, r \o s)
<1>1. \A i \in DOMAIN (r \o s) :
        \/ i \in DOMAIN r /\ (r \o s)[i] = r[i]
        \/ i - Len(r) \in DOMAIN s /\ (r \o s)[i] = s[i - Len(r)] /\ i > Len(r)
  OBVIOUS
<1>2. Sorted(p, r \o s)
  <2> SUFFICES ASSUME NEW i \in DOMAIN (r \o s), NEW j \in DOMAIN (r \o s), i < j
               PROVE  MayPrecede(p, (r \o s)[i], (r \o s)[j])
    BY DEF Sorted
  <2>1. i - Len(r) < j - Len(r) /\ (i > Len(r) => j \notin DOMAIN r)
    OBVIOUS
  <2> QED
    BY <1>1, <2>1 DEF Sorted, AllBefore
<1>3. ASSUME NEW z, AllBefore(p, z, r), AllBefore(p, z, s)
      PROVE  AllBefore(p, z, r \o s)
  BY <1>1, <1>3 DEF AllBefore
<1> QED
  BY <1>2, <1>3

\* A message noted as sent again stays noted.
LEMMA OrderStays ==
  ASSUME again \subseteq again'
  PROVE  /\ \A p, s : Sorted(p, s) => Sorted(p, s)'
         /\ \A p, r, s : AllBefore(p, r, s) => AllBefore(p, r, s)'
<1>1. \A p, a, b : MayPrecede(p, a, b) => MayPrecede(p, a, b)'
  BY DEF MayPrecede
<1> QED
  BY <1>1 DEF Sorted, AllBefore

\* Steps that leave the lines alone.
LEMMA LineRest ==
  ASSUME LineInv, again \subseteq again', UNCHANGED <<heard, buffered, queue>>
  PROVE  LineInv'
BY OrderStays DEF LineInv

\* The next message of a thread at the connection comes after all it has sent.
LEMMA NextComesLast ==
  ASSUME PubSub!PubSubConstants, PubSubInv, NEW t \in Publishers, pc[t] = "notify", NEW p \in Pods
  PROVE  /\ PubSub!Msg(t) \in Note
         /\ AllBefore(p, heard[p], <<PubSub!Msg(t)>>)
         /\ AllBefore(p, buffered[p], <<PubSub!Msg(t)>>)
         /\ AllBefore(p, queue[p], <<PubSub!Msg(t)>>)
<1>1. PubSub!Msg(t) \in Note /\ PubSub!Msg(t).thread = t /\ PubSub!Msg(t).n = sent[t]
  BY DEF PubSubInv, PubSubTypes, Note, PubSub!Msg
<1>2. \A m \in Note : Given(m, p) => MayPrecede(p, m, PubSub!Msg(t))
  BY <1>1 DEF Given, MayPrecede
<1>3. \A s \in Seq(Note) :
        (\A i \in DOMAIN s : Given(s[i], p)) => AllBefore(p, s, <<PubSub!Msg(t)>>)
  BY <1>2 DEF AllBefore
<1> QED
  BY <1>1, <1>3 DEF PubSubInv, PubSubTypes, GivenInv

LEMMA NotifiedGrows ==
  ASSUME PubSub!PubSubConstants, PubSubInv, NEW t \in Publishers, pc[t] = "notify",
         queue' = PubSub!Notified(PubSub!Msg(t)) \/ queue' = queue,
         again \subseteq again', UNCHANGED <<heard, buffered>>
  PROVE  /\ queue' \in [Pods -> Seq(Note)] /\ LineInv'
         /\ \A p \in Pods : queue'[p] \in {queue[p], Append(queue[p], PubSub!Msg(t))}
<1>1. /\ PubSub!Msg(t) \in Note
      /\ \A p \in Pods : queue'[p] \in {queue[p], Append(queue[p], PubSub!Msg(t))}
      /\ queue' \in [Pods -> Seq(Note)]
  <2>1. PubSub!Msg(t) \in Note
    BY NextComesLast DEF PubSub!PubSubConstants
  <2> QED
    <3>1. queue' = PubSub!Notified(PubSub!Msg(t)) => \A p \in Pods :
            queue'[p] \in {queue[p], Append(queue[p], PubSub!Msg(t))}
      BY DEF PubSub!Notified
    <3>2. \A p \in Pods : queue[p] \in Seq(Note) /\ Append(queue[p], PubSub!Msg(t)) \in Seq(Note)
      BY <2>1 DEF PubSubInv, PubSubTypes
    <3>3. queue' = PubSub!Notified(PubSub!Msg(t)) => queue' = [p \in Pods |-> queue'[p]]
      BY DEF PubSub!Notified
    <3> QED
      BY <2>1, <3>1, <3>2, <3>3 DEF PubSubInv, PubSubTypes
<1>2. \A p \in Pods : /\ Sorted(p, queue'[p]) /\ AllBefore(p, heard[p], queue'[p])
                      /\ AllBefore(p, buffered[p], queue'[p])
  <2> SUFFICES ASSUME NEW p \in Pods, queue'[p] = Append(queue[p], PubSub!Msg(t))
               PROVE  /\ Sorted(p, queue'[p]) /\ AllBefore(p, heard[p], queue'[p])
                      /\ AllBefore(p, buffered[p], queue'[p])
    BY <1>1 DEF PubSubInv, LineInv
  <2>1. heard[p] \in Seq(Note) /\ buffered[p] \in Seq(Note) /\ queue[p] \in Seq(Note)
    BY DEF PubSubInv, PubSubTypes
  <2>2. /\ Sorted(p, queue[p]) /\ AllBefore(p, heard[p], queue[p])
        /\ AllBefore(p, buffered[p], queue[p])
    BY DEF PubSubInv, LineInv
  <2> QED
    BY <1>1, <2>1, <2>2, NextComesLast, SortedGrows, BeforeGrows
<1>3. LineInv'
  BY <1>2, OrderStays DEF PubSubInv, LineInv
<1> QED
  BY <1>1, <1>3

\* Where messages stand that were given before.
LEMMA GivenStays ==
  ASSUME PubSubInv,
         UNCHANGED <<heard, buffered>>, UNCHANGED queue,
         \A m \in Note, p \in Pods : Given(m, p) => Given(m, p)'
  PROVE  GivenInv'
BY DEF PubSubInv, PubSubTypes, GivenInv

LEMMA PublishKeeps ==
  ASSUME PubSub!PubSubConstants, PubSubInv, NEW t \in Publishers, PubSub!Publish(t)
  PROVE  PubSubInv'
<1> DEFINE o == PublisherPod[t]
<1>0. PICK m : m = [thread |-> t, n |-> sent[t] + 1]
  OBVIOUS
<1>1. /\ pc[t] = "idle" /\ o \in Pods
      /\ sent' = [sent EXCEPT ![t] = @ + 1]
      /\ heard' = [heard EXCEPT ![o] = Append(@, m)]
      /\ \E w \in {"lock", "idle"} : pc' = [pc EXCEPT ![t] = w]
      /\ UNCHANGED <<mutex, attempt, again, queue, buffered>>
  BY <1>0 DEF PubSub!Publish, PubSub!Goes, PubSub!PubSubConstants
<1>2. m \in Note /\ m.thread = t /\ m.n = sent[t] + 1 /\ sent[t] \in Nat
  BY <1>0 DEF Note, PubSubInv, PubSubTypes
<1>3. PubSubTypes'
  BY <1>1, <1>2 DEF PubSubInv, PubSubTypes
<1>4. MutexInv'
  BY <1>1, <1>2 DEF PubSubInv, PubSubTypes, MutexInv
<1>5. \A p \in Pods : heard'[p] = IF p = o THEN Append(heard[p], m) ELSE heard[p]
  BY <1>1 DEF PubSubInv, PubSubTypes
<1>6. LineInv'
  <2>1. \A s \in Seq(Note) : AllBefore(o, s, <<m>>) /\ AllBefore(o, <<m>>, s)
    BY <1>2 DEF AllBefore, MayPrecede
  <2>2. /\ heard[o] \in Seq(Note) /\ buffered[o] \in Seq(Note) /\ queue[o] \in Seq(Note)
        /\ Sorted(o, heard[o]) /\ AllBefore(o, heard[o], buffered[o])
        /\ AllBefore(o, heard[o], queue[o])
    BY <1>1 DEF PubSubInv, PubSubTypes, LineInv
  <2>3. /\ Sorted(o, Append(heard[o], m)) /\ AllBefore(o, Append(heard[o], m), buffered[o])
        /\ AllBefore(o, Append(heard[o], m), queue[o])
    BY <1>2, <2>1, <2>2, SortedGrows, BeforeGrows
  <2>4. \A p \in Pods : /\ Sorted(p, heard'[p]) /\ AllBefore(p, heard'[p], buffered[p])
                        /\ AllBefore(p, heard'[p], queue[p])
    BY <1>5, <2>3 DEF PubSubInv, LineInv
  <2> QED
    BY <1>1, <2>4, OrderStays DEF PubSubInv, LineInv
<1>7. GivenInv'
  <2>1. \A x \in Note, p \in Pods : Given(x, p) => Given(x, p)'
    BY <1>1, <1>2 DEF Given, PubSubInv, PubSubTypes, Note
  <2>2. Given(m, o)'
    BY <1>1, <1>2 DEF Given, PubSubInv, PubSubTypes
  <2>3. \A i \in DOMAIN heard'[o] :
          (i \in DOMAIN heard[o] /\ heard'[o][i] = heard[o][i]) \/ heard'[o][i] = m
    BY <1>1, <1>2, <1>5 DEF PubSubInv, PubSubTypes
  <2>4. \A i \in DOMAIN heard'[o] : Given(heard[o][i], o)'
    <3> SUFFICES ASSUME NEW i \in DOMAIN heard'[o]
                 PROVE  Given(heard[o][i], o)'
      OBVIOUS
    <3>1. CASE heard'[o][i] = m
      BY <2>2, <3>1 DEF Given
    <3>2. CASE i \in DOMAIN heard[o] /\ heard'[o][i] = heard[o][i]
      <4>1. heard[o][i] \in Note /\ Given(heard[o][i], o)
        BY <1>1, <3>2 DEF PubSubInv, PubSubTypes, GivenInv
      <4> QED
        BY <1>1, <2>1, <3>2, <4>1 DEF Given
    <3> QED
      BY <2>3, <3>1, <3>2
  <2> QED
    <3>1. \A p \in Pods : heard[p] \in Seq(Note) /\ buffered[p] \in Seq(Note)
                           /\ queue[p] \in Seq(Note)
      BY DEF PubSubInv, PubSubTypes
    <3>2. \A p \in Pods \ {o} : \A i \in DOMAIN heard'[p] : Given(heard[p][i], p)'
      BY <1>5, <2>1, <3>1 DEF PubSubInv, GivenInv, Given
    <3>3. \A p \in Pods : /\ \A i \in DOMAIN buffered'[p] : Given(buffered[p][i], p)'
                          /\ \A i \in DOMAIN queue'[p] : Given(queue[p][i], p)'
      <4>1. \A p \in Pods : /\ \A i \in DOMAIN buffered[p] : buffered[p][i] \in Note
                            /\ \A i \in DOMAIN queue[p] : queue[p][i] \in Note
        BY <3>1
      <4>2. \A p \in Pods : \A i \in DOMAIN buffered'[p] : Given(buffered[p][i], p)'
        BY <1>1, <2>1, <4>1 DEF PubSubInv, GivenInv, Given
      <4>3. \A p \in Pods : \A i \in DOMAIN queue'[p] : Given(queue[p][i], p)'
        BY <1>1, <2>1, <4>1 DEF PubSubInv, GivenInv, Given
      <4> QED
        BY <4>2, <4>3
    <3> QED
      BY <2>4, <3>2, <3>3 DEF GivenInv
<1>8. OwnInv'
  <2> SUFFICES ASSUME NEW u \in Publishers
               PROVE  /\ \A i, j \in DOMAIN heard'[PublisherPod[u]] :
                           (i < j /\ heard'[PublisherPod[u]][i].thread = u
                                  /\ heard'[PublisherPod[u]][j].thread = u) =>
                             heard'[PublisherPod[u]][i].n < heard'[PublisherPod[u]][j].n
                      /\ \A n \in 1..sent'[u] : \E i \in DOMAIN heard'[PublisherPod[u]] :
                           heard'[PublisherPod[u]][i] = [thread |-> u, n |-> n]
    BY DEF OwnInv
  <2>0. PublisherPod[u] \in Pods
    BY DEF PubSub!PubSubConstants
  <2>1. CASE PublisherPod[u] # o
    <3>1. u # t /\ sent'[u] = sent[u] /\ heard'[PublisherPod[u]] = heard[PublisherPod[u]]
      BY <1>1, <1>5, <2>0, <2>1 DEF PubSubInv, PubSubTypes
    <3> QED
      BY <3>1 DEF PubSubInv, OwnInv
  <2>2. CASE PublisherPod[u] = o
    <3>1. /\ heard'[o] = Append(heard[o], m) /\ heard[o] \in Seq(Note)
          /\ Len(heard'[o]) = Len(heard[o]) + 1 /\ Len(heard[o]) \in Nat
          /\ DOMAIN heard[o] = 1..Len(heard[o]) /\ DOMAIN heard'[o] = 1..Len(heard[o]) + 1
          /\ \A i \in DOMAIN heard[o] : i \in DOMAIN heard'[o] /\ heard'[o][i] = heard[o][i]
          /\ heard'[o][Len(heard[o]) + 1] = m
      BY <1>1, <1>2, <1>5 DEF PubSubInv, PubSubTypes
    <3>2. ASSUME NEW i \in DOMAIN heard'[o], NEW j \in DOMAIN heard'[o], i < j,
                 heard'[o][i].thread = u, heard'[o][j].thread = u
          PROVE  heard'[o][i].n < heard'[o][j].n
      <4>1. i \in DOMAIN heard[o] /\ heard'[o][i] = heard[o][i]
        BY <3>1, <3>2
      <4>2. CASE j \in DOMAIN heard[o]
        <5>1. heard'[o][j] = heard[o][j]
          BY <3>1, <4>2
        <5>2. heard[o][i].thread = u /\ heard[o][j].thread = u
          BY <3>2, <4>1, <5>1
        <5> QED
          BY <2>2, <3>2, <4>1, <4>2, <5>1, <5>2 DEF PubSubInv, OwnInv
      <4>3. CASE j \notin DOMAIN heard[o]
        <5>1. heard'[o][j] = m /\ u = t
          BY <1>2, <3>1, <3>2, <4>3
        <5>2. heard[o][i].n <= sent[t] /\ heard[o][i] \in Note
          BY <1>1, <3>1, <3>2, <4>1, <5>1 DEF PubSubInv, GivenInv, Given
        <5> QED
          BY <1>2, <4>1, <5>1, <5>2 DEF Note
      <4> QED
        BY <4>2, <4>3
    <3>3. ASSUME NEW n \in 1..sent'[u]
          PROVE  \E i \in DOMAIN heard'[o] : heard'[o][i] = [thread |-> u, n |-> n]
      <4>1. CASE n \in 1..sent[u]
        BY <2>2, <3>1, <4>1 DEF PubSubInv, OwnInv
      <4>2. CASE n \notin 1..sent[u]
        <5>1. u = t /\ n = sent[t] + 1
          BY <1>1, <1>2, <3>3, <4>2 DEF PubSubInv, PubSubTypes
        <5>2. Len(heard[o]) + 1 \in DOMAIN heard'[o]
          BY <3>1
        <5> QED
          BY <1>0, <3>1, <5>1, <5>2
      <4> QED
        BY <4>1, <4>2
    <3> QED
      BY <2>2, <3>2, <3>3
  <2> QED
    BY <2>1, <2>2
<1> QED
  BY <1>3, <1>4, <1>6, <1>7, <1>8 DEF PubSubInv

LEMMA LockKeeps ==
  ASSUME PubSub!PubSubConstants, PubSubInv, NEW t \in Publishers, PubSub!Lock(t)
  PROVE  PubSubInv'
<1>1. /\ pc[t] = "lock" /\ mutex[PublisherPod[t]] = NONE /\ PublisherPod[t] \in Pods
      /\ mutex' = [mutex EXCEPT ![PublisherPod[t]] = t]
      /\ attempt' = [attempt EXCEPT ![t] = 0] /\ pc' = [pc EXCEPT ![t] = "notify"]
      /\ UNCHANGED <<heard, sent, again, queue, buffered>>
  BY DEF PubSub!Lock, PubSub!Goes, PubSub!PubSubConstants
<1>2. PubSubTypes' /\ OwnInv' /\ LineInv'
  BY <1>1, LineRest DEF PubSubInv, PubSubTypes, OwnInv
<1>3. MutexInv'
  <2> SUFFICES ASSUME NEW u \in Publishers
               PROVE  (pc'[u] = "notify" <=> mutex'[PublisherPod[u]] = u)
                      /\ (pc'[u] # "idle" => sent'[u] > 0)
    BY DEF MutexInv
  <2>1. PublisherPod[u] \in Pods /\ u # NONE
    BY DEF PubSub!PubSubConstants
  <2> QED
    BY <1>1, <2>1 DEF PubSubInv, PubSubTypes, MutexInv
<1>4. GivenInv'
  <2>1. \A m \in Note, p \in Pods : Given(m, p) => Given(m, p)'
    BY <1>1 DEF Given, PubSubInv, PubSubTypes, Note
  <2> QED
    BY <1>1, <2>1, GivenStays
<1> QED
  BY <1>2, <1>3, <1>4 DEF PubSubInv

\* One NOTIFY, done or not, and then the mutex is given back, or the first
\* failure is tried once more.
LEMMA NotifyKeeps ==
  ASSUME PubSub!PubSubConstants, PubSubInv, NEW t \in Publishers, pc[t] = "notify",
         queue' = PubSub!Notified(PubSub!Msg(t)) \/ queue' = queue,
         UNCHANGED <<heard, buffered, sent>>,
         \/ PubSub!Unlock(t) /\ UNCHANGED <<attempt, again>>
         \/ /\ attempt[t] = 0 /\ attempt' = [attempt EXCEPT ![t] = 1]
            /\ again' = again \cup {PubSub!Msg(t)} \/ (again' = again /\ queue' = queue)
            /\ UNCHANGED <<pc, mutex>>
  PROVE  PubSubInv'
<1>1. /\ PubSub!Msg(t) \in Note /\ PubSub!Msg(t).thread = t /\ PubSub!Msg(t).n = sent[t]
      /\ PublisherPod[t] \in Pods
  BY DEF PubSub!Msg, Note, PubSubInv, PubSubTypes, PubSub!PubSubConstants
<1>2. again \subseteq again'
  OBVIOUS
<1>3. /\ queue' \in [Pods -> Seq(Note)] /\ LineInv'
      /\ \A p \in Pods : queue'[p] \in {queue[p], Append(queue[p], PubSub!Msg(t))}
  BY <1>2, NotifiedGrows
<1>4. PubSubTypes' /\ OwnInv'
  <2>1. /\ mutex' \in [Pods -> Publishers \cup {NONE}]
        /\ pc' \in [Publishers -> {"idle", "lock", "notify"}]
        /\ attempt' \in [Publishers -> {0, 1}] /\ again' \subseteq Note
    BY <1>1 DEF PubSubInv, PubSubTypes, PubSub!Unlock, PubSub!Goes
  <2>2. OwnInv'
    BY DEF PubSubInv, OwnInv
  <2> QED
    BY <1>3, <2>1, <2>2 DEF PubSubInv, PubSubTypes
<1>5. MutexInv'
  <2> SUFFICES ASSUME NEW u \in Publishers
               PROVE  (pc'[u] = "notify" <=> mutex'[PublisherPod[u]] = u)
                      /\ (pc'[u] # "idle" => sent'[u] > 0)
    BY DEF MutexInv
  <2>1. PublisherPod[u] \in Pods /\ u # NONE
    BY DEF PubSub!PubSubConstants
  <2> QED
    BY <1>1, <2>1 DEF PubSubInv, PubSubTypes, MutexInv, PubSub!Unlock, PubSub!Goes
<1>6. \A m \in Note, p \in Pods : Given(m, p) => Given(m, p)'
  BY <1>2 DEF Given, PubSubInv, PubSubTypes, Note, PubSub!Unlock, PubSub!Goes
<1>7. \A p \in Pods : queue'[p] # queue[p] =>
        /\ PubSub!Msg(t).n <= sent'[t] /\ pc'[t] # "lock"
        /\ pc'[t] = "notify" => attempt'[t] = 1 /\ PubSub!Msg(t) \in again'
  BY <1>1 DEF PubSubInv, PubSubTypes, PubSub!Unlock, PubSub!Goes
<1>8. GivenInv'
  <2> SUFFICES ASSUME NEW p \in Pods
               PROVE  /\ \A i \in DOMAIN heard'[p] : Given(heard[p][i], p)'
                      /\ \A i \in DOMAIN buffered'[p] : Given(buffered[p][i], p)'
                      /\ \A i \in DOMAIN queue'[p] : Given(queue[p][i], p)'
    BY DEF GivenInv
  <2>1. heard[p] \in Seq(Note) /\ buffered[p] \in Seq(Note) /\ queue[p] \in Seq(Note)
    BY DEF PubSubInv, PubSubTypes
  <2>2. \A s \in Seq(Note) : \A i \in DOMAIN s : s[i] \in Note
    OBVIOUS
  <2>3. \A i \in DOMAIN heard'[p] : Given(heard[p][i], p)'
    BY <1>6, <2>1, <2>2 DEF Given, PubSubInv, GivenInv
  <2>4. \A i \in DOMAIN buffered'[p] : Given(buffered[p][i], p)'
    BY <1>6, <2>1, <2>2 DEF Given, PubSubInv, GivenInv
  <2>5. ASSUME NEW i \in DOMAIN queue'[p]
        PROVE  Given(queue[p][i], p)'
    <3>1. CASE i \in DOMAIN queue[p] /\ queue'[p][i] = queue[p][i]
      BY <1>6, <2>1, <2>2, <3>1 DEF Given, PubSubInv, GivenInv
    <3>2. CASE queue'[p][i] = PubSub!Msg(t) /\ queue'[p] # queue[p]
      BY <1>1, <1>7, <3>2 DEF Given
    <3>3. \/ i \in DOMAIN queue[p] /\ queue'[p][i] = queue[p][i]
          \/ queue'[p][i] = PubSub!Msg(t) /\ queue'[p] # queue[p]
      <4>1. CASE queue'[p] = queue[p]
        BY <2>5, <4>1
      <4>2. CASE queue'[p] = Append(queue[p], PubSub!Msg(t))
        <5>1. Len(queue'[p]) = Len(queue[p]) + 1 /\ Len(queue[p]) \in Nat
          BY <1>1, <2>1, <4>2
        <5>2. i \in 1..Len(queue[p]) + 1
          BY <1>1, <2>1, <2>5, <4>2
        <5>3. i \in 1..Len(queue[p]) => i \in DOMAIN queue[p] /\ queue'[p][i] = queue[p][i]
          BY <2>1, <4>2
        <5>4. i = Len(queue[p]) + 1 => queue'[p][i] = PubSub!Msg(t)
          BY <2>1, <4>2
        <5>5. queue'[p] # queue[p]
          BY <5>1
        <5> QED
          BY <5>1, <5>2, <5>3, <5>4, <5>5
      <4> QED
        BY <1>3, <4>1, <4>2
    <3> QED
      BY <3>1, <3>2, <3>3
  <2> QED
    BY <2>3, <2>4, <2>5
<1> QED
  BY <1>3, <1>4, <1>5, <1>8 DEF PubSubInv

LEMMA ThreadKeeps ==
  ASSUME PubSub!PubSubConstants, PubSubInv, NEW t \in Publishers,
         PubSub!ConnectFails(t) \/ PubSub!NotifyOk(t)
                                \/ \E done \in BOOLEAN : PubSub!NotifyFails(t, done)
  PROVE  PubSubInv'
<1>1. CASE PubSub!ConnectFails(t)
  BY <1>1, NotifyKeeps DEF PubSub!ConnectFails
<1>2. CASE PubSub!NotifyOk(t)
  BY <1>2, NotifyKeeps DEF PubSub!NotifyOk
<1>3. ASSUME NEW done \in BOOLEAN, PubSub!NotifyFails(t, done)
      PROVE  PubSubInv'
  <2>1. attempt[t] \in {0, 1}
    BY DEF PubSubInv, PubSubTypes
  <2> QED
    BY <1>3, <2>1, NotifyKeeps DEF PubSub!NotifyFails
<1> QED
  BY <1>1, <1>2, <1>3

\* What a listener does with its lines keeps everything else.
LEMMA LinesKeep ==
  ASSUME PubSub!PubSubConstants, PubSubInv,
         UNCHANGED <<mutex, pc, attempt, sent, again>>,
         heard' \in [Pods -> Seq(Note)], buffered' \in [Pods -> Seq(Note)],
         queue' \in [Pods -> Seq(Note)], LineInv',
         \A p \in Pods :
           /\ \A i \in DOMAIN heard'[p] : Given(heard'[p][i], p)
           /\ \A i \in DOMAIN buffered'[p] : Given(buffered'[p][i], p)
           /\ \A i \in DOMAIN queue'[p] : Given(queue'[p][i], p)
           /\ \/ heard'[p] = heard[p]
              \/ \E m \in Note : heard'[p] = Append(heard[p], m) /\ PublisherPod[m.thread] # p
  PROVE  PubSubInv'
<1>1. PubSubTypes' /\ MutexInv' /\ GivenInv'
  BY DEF PubSubInv, PubSubTypes, MutexInv, GivenInv, Given
<1>2. OwnInv'
  <2> SUFFICES ASSUME NEW u \in Publishers
               PROVE  /\ \A i, j \in DOMAIN heard'[PublisherPod[u]] :
                           (i < j /\ heard'[PublisherPod[u]][i].thread = u
                                  /\ heard'[PublisherPod[u]][j].thread = u) =>
                             heard'[PublisherPod[u]][i].n < heard'[PublisherPod[u]][j].n
                      /\ \A n \in 1..sent'[u] : \E i \in DOMAIN heard'[PublisherPod[u]] :
                           heard'[PublisherPod[u]][i] = [thread |-> u, n |-> n]
    BY DEF OwnInv
  <2> DEFINE o == PublisherPod[u]
  <2>1. o \in Pods /\ heard[o] \in Seq(Note)
    BY DEF PubSub!PubSubConstants, PubSubInv, PubSubTypes
  <2>0. /\ \A i, j \in DOMAIN heard[o] :
             (i < j /\ heard[o][i].thread = u /\ heard[o][j].thread = u) =>
               heard[o][i].n < heard[o][j].n
        /\ \A n \in 1..sent'[u] : \E i \in DOMAIN heard[o] :
             heard[o][i] = [thread |-> u, n |-> n]
    BY DEF PubSubInv, OwnInv
  <2> HIDE DEF o
  <2>2. CASE heard'[o] = heard[o]
    <3>1. /\ \A i, j \in DOMAIN heard'[o] :
             (i < j /\ heard'[o][i].thread = u /\ heard'[o][j].thread = u) =>
               heard'[o][i].n < heard'[o][j].n
          /\ \A n \in 1..sent'[u] : \E i \in DOMAIN heard'[o] :
             heard'[o][i] = [thread |-> u, n |-> n]
      BY <2>0, <2>2, Zenon
    <3> QED
      BY <3>1 DEF o
  <2>3. ASSUME NEW m \in Note, heard'[o] = Append(heard[o], m), PublisherPod[m.thread] # o
        PROVE  /\ \A i, j \in DOMAIN heard'[o] :
                    (i < j /\ heard'[o][i].thread = u /\ heard'[o][j].thread = u) =>
                      heard'[o][i].n < heard'[o][j].n
               /\ \A n \in 1..sent'[u] : \E i \in DOMAIN heard'[o] :
                    heard'[o][i] = [thread |-> u, n |-> n]
    <3>1. /\ \A i \in DOMAIN heard[o] : i \in DOMAIN heard'[o] /\ heard'[o][i] = heard[o][i]
          /\ \A i \in DOMAIN heard'[o] : i \in DOMAIN heard[o] \/ heard'[o][i] = m
      BY <2>1, <2>3
    <3>2. m.thread # u
      BY <2>3 DEF o
    <3>3. ASSUME NEW i \in DOMAIN heard'[o], NEW j \in DOMAIN heard'[o], i < j,
                 heard'[o][i].thread = u, heard'[o][j].thread = u
          PROVE  heard'[o][i].n < heard'[o][j].n
      <4>1. /\ i \in DOMAIN heard[o] /\ heard'[o][i] = heard[o][i]
            /\ j \in DOMAIN heard[o] /\ heard'[o][j] = heard[o][j]
        BY <3>1, <3>2, <3>3
      <4> QED
        BY <2>0, <3>3, <4>1
    <3>4. ASSUME NEW n \in 1..sent'[u]
          PROVE  \E i \in DOMAIN heard'[o] : heard'[o][i] = [thread |-> u, n |-> n]
      BY <2>0, <3>1, Zenon
    <3> QED
      BY <3>3, <3>4
  <2> QED
    BY <2>1, <2>2, <2>3 DEF o
<1> QED
  BY <1>1, <1>2 DEF PubSubInv

LEMMA RecvKeeps ==
  ASSUME PubSub!PubSubConstants, PubSubInv, NEW p \in Pods, PubSub!Recv(p)
  PROVE  PubSubInv'
<1>1. UNCHANGED <<mutex, pc, attempt, sent, again>>
  BY DEF PubSub!Recv
<1>2. heard[p] \in Seq(Note) /\ buffered[p] \in Seq(Note) /\ queue[p] \in Seq(Note)
  BY DEF PubSubInv, PubSubTypes
<1>3. /\ Sorted(p, heard[p]) /\ Sorted(p, buffered[p]) /\ Sorted(p, queue[p])
      /\ AllBefore(p, heard[p], buffered[p]) /\ AllBefore(p, heard[p], queue[p])
      /\ AllBefore(p, buffered[p], queue[p])
  BY DEF PubSubInv, LineInv
<1>4. \A s \in Seq(Note) : s # <<>> =>
        /\ Head(s) \in Note /\ Tail(s) \in Seq(Note) /\ 1 \in DOMAIN s /\ Head(s) = s[1]
        /\ \A i \in DOMAIN Tail(s) : i + 1 \in DOMAIN s /\ Tail(s)[i] = s[i + 1]
  OBVIOUS
<1>5. PICK m \in Note, b \in {buffered[p], Tail(buffered[p])}, q \in {queue[p], Tail(queue[p])} :
        /\ heard' = PubSub!Dispatched(p, m)
        /\ buffered' = [buffered EXCEPT ![p] = b] /\ queue' = [queue EXCEPT ![p] = q]
        /\ b \in Seq(Note) /\ q \in Seq(Note)
        /\ AllBefore(p, heard[p], <<m>>) /\ AllBefore(p, <<m>>, b) /\ AllBefore(p, <<m>>, q)
        /\ Sorted(p, b) /\ Sorted(p, q) /\ AllBefore(p, b, q)
        /\ AllBefore(p, heard[p], b) /\ AllBefore(p, heard[p], q)
        /\ Given(m, p)
        /\ \A i \in DOMAIN b : Given(b[i], p)
        /\ \A i \in DOMAIN q : Given(q[i], p)
  <2>1. CASE /\ buffered[p] # <<>> /\ heard' = PubSub!Dispatched(p, Head(buffered[p]))
             /\ buffered' = [buffered EXCEPT ![p] = Tail(@)] /\ UNCHANGED queue
    <3> DEFINE m == Head(buffered[p])
               b == Tail(buffered[p])
               q == queue[p]
    <3>1. /\ heard' = PubSub!Dispatched(p, m)
          /\ buffered' = [buffered EXCEPT ![p] = b] /\ queue' = [queue EXCEPT ![p] = q]
          /\ m \in Note /\ b \in Seq(Note) /\ q \in Seq(Note)
      BY <1>2, <1>4, <2>1 DEF PubSubInv, PubSubTypes
    <3>2. /\ AllBefore(p, heard[p], <<m>>) /\ AllBefore(p, <<m>>, b) /\ AllBefore(p, <<m>>, q)
          /\ Sorted(p, b) /\ Sorted(p, q) /\ AllBefore(p, b, q)
          /\ AllBefore(p, heard[p], b) /\ AllBefore(p, heard[p], q)
      BY <1>2, <1>3, <2>1, SortedShrinks, BeforeShrinks
    <3>3. /\ Given(m, p)
          /\ \A i \in DOMAIN b : Given(b[i], p)
          /\ \A i \in DOMAIN q : Given(q[i], p)
      BY <1>2, <1>4, <2>1 DEF PubSubInv, GivenInv
    <3> HIDE DEF m, b, q
    <3>4. b \in {buffered[p], Tail(buffered[p])} /\ q \in {queue[p], Tail(queue[p])}
      BY DEF b, q
    <3> QED
      BY <3>1, <3>2, <3>3, <3>4
  <2>2. CASE /\ buffered[p] = <<>> /\ queue[p] # <<>>
             /\ heard' = PubSub!Dispatched(p, Head(queue[p]))
             /\ queue' = [queue EXCEPT ![p] = Tail(@)] /\ UNCHANGED buffered
    <3> DEFINE m == Head(queue[p])
               b == buffered[p]
               q == Tail(queue[p])
    <3>1. /\ heard' = PubSub!Dispatched(p, m)
          /\ buffered' = [buffered EXCEPT ![p] = b] /\ queue' = [queue EXCEPT ![p] = q]
          /\ m \in Note /\ b \in Seq(Note) /\ q \in Seq(Note)
      BY <1>2, <1>4, <2>2 DEF PubSubInv, PubSubTypes
    <3>2. AllBefore(p, <<m>>, b)
      BY <2>2 DEF AllBefore
    <3>3. /\ AllBefore(p, heard[p], <<m>>) /\ AllBefore(p, <<m>>, q)
          /\ Sorted(p, b) /\ Sorted(p, q) /\ AllBefore(p, b, q)
          /\ AllBefore(p, heard[p], b) /\ AllBefore(p, heard[p], q)
      BY <1>2, <1>3, <2>2, SortedShrinks, BeforeShrinks
    <3>4. /\ Given(m, p)
          /\ \A i \in DOMAIN b : Given(b[i], p)
          /\ \A i \in DOMAIN q : Given(q[i], p)
      BY <1>2, <1>4, <2>2 DEF PubSubInv, GivenInv
    <3> HIDE DEF m, b, q
    <3>5. b \in {buffered[p], Tail(buffered[p])} /\ q \in {queue[p], Tail(queue[p])}
      BY DEF b, q
    <3> QED
      BY <3>1, <3>2, <3>3, <3>4, <3>5
  <2> QED
    BY <2>1, <2>2 DEF PubSub!Recv
<1>6. PICK h \in {heard[p], Append(heard[p], m)} :
        /\ heard' = [heard EXCEPT ![p] = h]
        /\ h # heard[p] => PublisherPod[m.thread] # p
  BY <1>5 DEF PubSub!Dispatched, PubSubInv, PubSubTypes
<1>7. h \in Seq(Note) /\ m \in Note
  <2>1. m \in Note
    BY <1>5
  <2>2. Append(heard[p], m) \in Seq(Note)
    BY <1>2, <2>1
  <2> QED
    BY <1>2, <1>6, <2>1, <2>2
<1>8. Sorted(p, h) /\ AllBefore(p, h, b) /\ AllBefore(p, h, q)
  <2>1. LET g == Append(heard[p], m) IN
          Sorted(p, g) /\ AllBefore(p, g, b) /\ AllBefore(p, g, q)
    BY <1>2, <1>3, <1>5, <1>7, SortedGrows, BeforeGrows
  <2> QED
    BY <1>3, <1>5, <1>6, <2>1
<1>9. \A i \in DOMAIN h : Given(h[i], p)
  <2>1. \A i \in DOMAIN h : (i \in DOMAIN heard[p] /\ h[i] = heard[p][i]) \/ h[i] = m
    <3>1. \A i \in DOMAIN Append(heard[p], m) :
            \/ i \in DOMAIN heard[p] /\ Append(heard[p], m)[i] = heard[p][i]
            \/ Append(heard[p], m)[i] = m
      BY <1>2, <1>7
    <3> QED
      BY <1>6, <3>1
  <2> QED
    BY <1>5, <2>1 DEF PubSubInv, GivenInv
<1>10. /\ heard' \in [Pods -> Seq(Note)] /\ buffered' \in [Pods -> Seq(Note)]
       /\ queue' \in [Pods -> Seq(Note)]
       /\ \A o \in Pods : /\ heard'[o] = IF o = p THEN h ELSE heard[o]
                          /\ buffered'[o] = IF o = p THEN b ELSE buffered[o]
                          /\ queue'[o] = IF o = p THEN q ELSE queue[o]
  BY <1>5, <1>6, <1>7 DEF PubSubInv, PubSubTypes
<1>11. LineInv'
  <2>1. \A o \in Pods :
          /\ Sorted(o, heard'[o]) /\ Sorted(o, buffered'[o]) /\ Sorted(o, queue'[o])
          /\ AllBefore(o, heard'[o], buffered'[o]) /\ AllBefore(o, heard'[o], queue'[o])
          /\ AllBefore(o, buffered'[o], queue'[o])
    BY <1>5, <1>8, <1>10 DEF PubSubInv, LineInv
  <2> QED
    BY <1>1, <2>1, OrderStays DEF LineInv
<1>12. \A o \in Pods :
           /\ \A i \in DOMAIN heard'[o] : Given(heard'[o][i], o)
           /\ \A i \in DOMAIN buffered'[o] : Given(buffered'[o][i], o)
           /\ \A i \in DOMAIN queue'[o] : Given(queue'[o][i], o)
  BY <1>5, <1>9, <1>10 DEF PubSubInv, GivenInv
<1>13. \A o \in Pods : \/ heard'[o] = heard[o]
                       \/ \E x \in Note :
                            heard'[o] = Append(heard[o], x) /\ PublisherPod[x.thread] # o
  BY <1>5, <1>6, <1>10
<1> QED
  BY <1>1, <1>10, <1>11, <1>12, <1>13, LinesKeep

\* The listener's connection is lost, or is back and what was read with the
\* answer to LISTEN comes first.
LEMMA ListenerKeeps ==
  ASSUME PubSub!PubSubConstants, PubSubInv, NEW p \in Pods,
         PubSub!ListenerLost(p) \/ PubSub!Listened(p)
  PROVE  PubSubInv'
<1>1. UNCHANGED <<heard, mutex, pc, attempt, sent, again>>
  BY DEF PubSub!ListenerLost, PubSub!Listened
<1>2. heard[p] \in Seq(Note) /\ buffered[p] \in Seq(Note) /\ queue[p] \in Seq(Note)
  BY DEF PubSubInv, PubSubTypes
<1>3. /\ Sorted(p, heard[p]) /\ Sorted(p, buffered[p]) /\ Sorted(p, queue[p])
      /\ AllBefore(p, heard[p], buffered[p]) /\ AllBefore(p, heard[p], queue[p])
      /\ AllBefore(p, buffered[p], queue[p])
  BY DEF PubSubInv, LineInv
<1>4. PICK b \in {<<>>, buffered[p] \o queue[p]} :
        buffered' = [buffered EXCEPT ![p] = b] /\ queue' = [queue EXCEPT ![p] = <<>>]
  BY DEF PubSub!ListenerLost, PubSub!Listened, PubSubInv, PubSubTypes
<1>5. \A s : AllBefore(p, s, <<>>) /\ Sorted(p, <<>>)
  BY DEF AllBefore, Sorted
<1>6. Sorted(p, b) /\ AllBefore(p, heard[p], b)
  BY <1>2, <1>3, <1>5, SortedJoins
<1>7. b \in Seq(Note) /\ \A i \in DOMAIN b : Given(b[i], p)
  <2>1. CASE b = <<>>
    BY <2>1
  <2>2. CASE b = buffered[p] \o queue[p]
    <3>1. b \in Seq(Note)
      BY <1>2, <2>2
    <3>2. \A i \in DOMAIN b :
            \/ i \in DOMAIN buffered[p] /\ b[i] = buffered[p][i]
            \/ i - Len(buffered[p]) \in DOMAIN queue[p] /\ b[i] = queue[p][i - Len(buffered[p])]
      <4>1. \A r, s \in Seq(Note) : \A i \in DOMAIN (r \o s) :
              \/ i \in DOMAIN r /\ (r \o s)[i] = r[i]
              \/ i - Len(r) \in DOMAIN s /\ (r \o s)[i] = s[i - Len(r)]
        OBVIOUS
      <4> QED
        BY <1>2, <2>2, <4>1
    <3> QED
      BY <3>1, <3>2 DEF PubSubInv, GivenInv
  <2> QED
    BY <2>1, <2>2
<1>8. /\ buffered' \in [Pods -> Seq(Note)] /\ queue' \in [Pods -> Seq(Note)]
      /\ \A o \in Pods : /\ buffered'[o] = IF o = p THEN b ELSE buffered[o]
                         /\ queue'[o] = IF o = p THEN <<>> ELSE queue[o]
  BY <1>4, <1>7 DEF PubSubInv, PubSubTypes
<1>9. LineInv'
  <2>1. \A o \in Pods :
          /\ Sorted(o, buffered'[o]) /\ Sorted(o, queue'[o])
          /\ AllBefore(o, heard[o], buffered'[o]) /\ AllBefore(o, heard[o], queue'[o])
          /\ AllBefore(o, buffered'[o], queue'[o])
    BY <1>5, <1>6, <1>8 DEF PubSubInv, LineInv
  <2> QED
    BY <1>1, <2>1, OrderStays DEF PubSubInv, LineInv
<1>10. \A o \in Pods :
           /\ \A i \in DOMAIN heard'[o] : Given(heard'[o][i], o)
           /\ \A i \in DOMAIN buffered'[o] : Given(buffered'[o][i], o)
           /\ \A i \in DOMAIN queue'[o] : Given(queue'[o][i], o)
  <2>1. \A o \in Pods : \A i \in DOMAIN heard'[o] : Given(heard'[o][i], o)
    BY <1>1 DEF PubSubInv, GivenInv
  <2>2. \A o \in Pods : \A i \in DOMAIN buffered'[o] : Given(buffered'[o][i], o)
    BY <1>7, <1>8 DEF PubSubInv, GivenInv
  <2>3. \A o \in Pods : \A i \in DOMAIN queue'[o] : Given(queue'[o][i], o)
    <3>1. queue'[p] = <<>>
      BY <1>8
    <3>2. \A o \in Pods : o # p => queue'[o] = queue[o]
      BY <1>8
    <3>3. \A o \in Pods : \A i \in DOMAIN queue[o] : Given(queue[o][i], o)
      BY DEF PubSubInv, GivenInv
    <3> QED
      BY <3>1, <3>2, <3>3
  <2> QED
    BY <2>1, <2>2, <2>3
<1>11. heard' \in [Pods -> Seq(Note)]
  BY <1>1 DEF PubSubInv, PubSubTypes
<1> QED
  BY <1>1, <1>8, <1>9, <1>10, <1>11, LinesKeep

LEMMA BrokerInit ==
  ASSUME PubSub!PubSubConstants, PubSub!Init
  PROVE  PubSubInv
BY DEF PubSub!Init, PubSub!PubSubConstants, PubSubInv, PubSubTypes, MutexInv, LineInv,
   GivenInv, OwnInv,
   Sorted, AllBefore

LEMMA BrokerNext ==
  ASSUME PubSub!PubSubConstants, PubSubInv, [PubSub!Next]_(PubSub!vars)
  PROVE  PubSubInv'
<1>1. CASE UNCHANGED <<heard, buffered, queue, mutex, pc, attempt, sent, again>>
  <2>1. PubSubTypes' /\ MutexInv' /\ GivenInv' /\ OwnInv'
    <3>1. PubSubTypes' /\ MutexInv'
      BY <1>1 DEF PubSubInv, PubSubTypes, MutexInv
    <3>2. GivenInv'
      BY <1>1, GivenStays DEF PubSubInv, Given
    <3>3. OwnInv'
      BY <1>1 DEF PubSubInv, OwnInv
    <3> QED
      BY <3>1, <3>2, <3>3
  <2>2. LineInv'
    BY <1>1, LineRest DEF PubSubInv
  <2> QED
    BY <2>1, <2>2 DEF PubSubInv
<1>2. CASE UNCHANGED PubSub!vars
  BY <1>1, <1>2 DEF PubSub!vars
<1>3. ASSUME NEW t \in Publishers,
             \/ PubSub!Publish(t) \/ PubSub!Lock(t) \/ PubSub!Connect(t)
             \/ PubSub!ConnectFails(t) \/ PubSub!NotifyOk(t)
             \/ \E done \in BOOLEAN : PubSub!NotifyFails(t, done)
      PROVE  PubSubInv'
  <2>1. PubSub!Connect(t) => UNCHANGED <<heard, buffered, queue, mutex, pc, attempt, sent, again>>
    BY DEF PubSub!Connect
  <2> QED
    BY <1>1, <1>3, <2>1, PublishKeeps, LockKeeps, ThreadKeeps
<1>4. ASSUME NEW p \in Pods,
             \/ PubSub!Recv(p) \/ PubSub!ListenerLost(p) \/ PubSub!Reconnect(p)
             \/ PubSub!Listened(p)
             \/ PubSub!DropHandle(p) \/ PubSub!InnerDrop(p) \/ PubSub!ListenerExit(p)
      PROVE  PubSubInv'
  <2>1. PubSub!Reconnect(p) \/ PubSub!DropHandle(p) \/ PubSub!InnerDrop(p)
                            \/ PubSub!ListenerExit(p) =>
          UNCHANGED <<heard, buffered, queue, mutex, pc, attempt, sent, again>>
    BY DEF PubSub!Reconnect, PubSub!DropHandle, PubSub!InnerDrop, PubSub!ListenerExit, PubSub!life
  <2> QED
    BY <1>1, <1>4, <2>1, RecvKeeps, ListenerKeeps
<1> QED
  BY <1>2, <1>3, <1>4 DEF PubSub!Next

\* A subscriber of the broker is called once per message unless the publisher's
\* retry has repeated it, and for one thread in the order of its
\* publishing.
THEOREM MessagesInOrder ==
  ASSUME PubSub!PubSubConstants
  PROVE  PubSub!Spec => [](PubSub!OnlyRetriesRepeat /\ PubSub!InOrder)
<1>1. PubSub!Init => PubSubInv
  BY BrokerInit
<1>2. PubSubInv /\ [PubSub!Next]_(PubSub!vars) => PubSubInv'
  BY BrokerNext
<1>3. PubSubInv => PubSub!OnlyRetriesRepeat /\ PubSub!InOrder
  BY BrokerSafe
<1> QED
  BY <1>1, <1>2, <1>3, PTL DEF PubSub!Spec

(***************************************************************************)
(* The channel protocol.  What the client will believe once it has read    *)
(* all that is on its way is what the hub holds: the frames of one         *)
(* outcome bring the belief to the outcome's memberships, whatever was on  *)
(* its way before them.                                                    *)
(***************************************************************************)

\* Topics have names, channels legal ones; the refs of a client differ from each
\* other and from no ref, no topic is the control topic.
ChannelConstants ==
  /\ Chan!ChannelsLegal
  /\ <<>> \notin Topics /\ Chan!CONTROL_TOPIC \notin Topics
  /\ MaxFrames \in Nat
  /\ \A m, n \in 1..MaxFrames : Chan!Ref(m) = Chan!Ref(n) => m = n
  /\ \A n \in 1..MaxFrames : Chan!Ref(n) # NONE

\* The envelope of a frame.
Written(t, e, r, j, ok) ==
  [err |-> FALSE, topic |-> t, event |-> e, ref |-> r, join_ref |-> j, ok |-> ok]

LEMMA RoundTrip ==
  ASSUME NEW t, t # <<>>, NEW e, e # <<>>, NEW r, NEW j, NEW ok
  PROVE  Chan!parse(Chan!serialize(t, e, r, j, ok)) = Written(t, e, r, j, ok)
<1> DEFINE f == Chan!serialize(t, e, r, j, ok)
           field == [topic |-> t, event |-> e, ref |-> r, join_ref |-> j]
           given == {"topic", "event"} \cup {k \in {"ref", "join_ref"} : field[k] # NONE}
<1>1. f.kind = "object" /\ f.ok = ok /\ f.obj = [k \in given |-> Chan!Text(field[k])]
  BY DEF Chan!serialize
<1>2. /\ "topic" \in given /\ "event" \in given
      /\ "ref" \in given <=> r # NONE
      /\ "join_ref" \in given <=> j # NONE
  OBVIOUS
<1>3. /\ "topic" \in given => f.obj["topic"] = Chan!Text(t)
      /\ "event" \in given => f.obj["event"] = Chan!Text(e)
      /\ "ref" \in given => f.obj["ref"] = Chan!Text(r)
      /\ "join_ref" \in given => f.obj["join_ref"] = Chan!Text(j)
      /\ DOMAIN f.obj = given
  BY <1>1
<1> HIDE DEF f, given
<1>5. Chan!HasText(f.obj, "topic") /\ Chan!HasText(f.obj, "event")
  BY <1>2, <1>3 DEF Chan!HasText, Chan!Text
<1>6. Chan!OptOk(f.obj, "ref") /\ Chan!OptOk(f.obj, "join_ref")
  BY <1>2, <1>3 DEF Chan!OptOk, Chan!Text
<1>7. Chan!Opt(f.obj, "ref") = r /\ Chan!Opt(f.obj, "join_ref") = j
  BY <1>2, <1>3 DEF Chan!Opt, Chan!HasText, Chan!Text
<1> QED
  <2>1. f.obj["topic"].s = t /\ f.obj["event"].s = e
    BY <1>2, <1>3 DEF Chan!Text
  <2>2. Chan!parse(f) = Written(t, e, r, j, ok)
    BY <1>1, <1>5, <1>6, <1>7, <2>1 DEF Chan!parse, Written
  <2> QED
    BY <2>2 DEF f

Refs == {Chan!Ref(n) : n \in 1..MaxFrames} \cup {NONE}
Names == Topics \cup {Chan!CONTROL_TOPIC}
Words == Chan!Events
  \cup {Chan!EV_JOIN, Chan!EV_LEAVE, Chan!EV_REPLY, Chan!EV_ERROR, Chan!EV_CLOSE,
    Chan!EV_HEARTBEAT}
Answered == BOOLEAN \cup {NONE}
Envelopes == [err : {FALSE}, topic : Names, event : Words, ref : Refs, join_ref : Refs,
  ok : Answered]
Frames == {Chan!serialize(p.topic, p.event, p.ref, p.join_ref, p.ok) : p \in Envelopes}

\* What the client asked under a ref.
AskedFor(a, r, e) == \E k \in 1..Len(a) : r = Chan!Ref(k) /\ a[k] = e

\* The join_ref the client believes in behind a frame about its topic.
Told(a, x, t, p) ==
  IF p.topic # t THEN x
  ELSE IF p.event = Chan!EV_REPLY /\ AskedFor(a, p.ref, Chan!EV_JOIN)
    THEN IF p.ok = TRUE THEN p.join_ref ELSE NONE
  ELSE IF p.event = Chan!EV_REPLY /\ AskedFor(a, p.ref, Chan!EV_LEAVE) THEN NONE
  ELSE IF p.event = Chan!EV_CLOSE /\ x = p.join_ref THEN NONE ELSE x

\* Reading these frames brings the belief from one join_ref to another.
Brings(a, t, x, d, y) ==
  \E v \in [0..Len(d) -> Refs] :
    /\ v[0] = x /\ v[Len(d)] = y
    /\ \A i \in 0..Len(d), k \in 1..Len(d) : k = i + 1
         => v[k] = Told(a, v[i], t, Chan!parse(d[k]))

ChannelTypes ==
  /\ channelJoins \in [Topics -> Refs] /\ view \in [Topics -> Refs]
  /\ channelUp \in Seq(Frames \cup Chan!Malformed) /\ down \in Seq(Frames)
  /\ channelSent \in 0..MaxFrames /\ asked \in Seq(Words \cup {<<>>}) /\ Len(asked) = channelSent
  /\ sockets \subseteq Topics \X (Refs \ {NONE})
  /\ answers \in Seq([n : Nat, ref : Refs, err : BOOLEAN, hush : BOOLEAN, refs : SUBSET Refs])

\* What the client sends is remembered under its ref, and joins and leaves have one.
ClientFrame(a, p) ==
  /\ p.ref # NONE => AskedFor(a, p.ref, p.event)
  /\ p.event \in {Chan!EV_JOIN, Chan!EV_LEAVE} => p.topic \in Topics /\ p.ref # NONE

\* What the hub sends: answers to what was asked, and ends of memberships.
HubFrame(a, p) ==
  /\ p.event \in {Chan!EV_REPLY, Chan!EV_ERROR, Chan!EV_CLOSE}
  /\ p.event = Chan!EV_REPLY => p.ok \in BOOLEAN /\ \E e \in Words : AskedFor(a, p.ref, e)
  /\ p.event = Chan!EV_CLOSE => p.topic \in Topics /\ p.join_ref # NONE

\* A membership is in a topic that has a channel.
FramesInv ==
  /\ \A t \in Topics : channelJoins[t] # NONE => Chan!channel_for(t) # 0
  /\ \A i \in 1..Len(channelUp) : channelUp[i] \in Frames
       => ClientFrame(asked, Chan!parse(channelUp[i]))
  /\ \A i \in 1..Len(down) : HubFrame(asked, Chan!parse(down[i]))

BeliefInv == \A t \in Topics \ crossed : Brings(asked, t, view[t], down, channelJoins[t])

\* Inductive.
ChannelInv == ChannelTypes /\ FramesInv /\ BeliefInv /\ Chan!OneAnswerPerRef

LEMMA EventsDiffer ==
  /\ Chan!EV_JOIN # Chan!EV_LEAVE /\ Chan!EV_JOIN # Chan!EV_REPLY
       /\ Chan!EV_JOIN # Chan!EV_ERROR /\ Chan!EV_JOIN # Chan!EV_CLOSE
  /\ Chan!EV_LEAVE # Chan!EV_REPLY /\ Chan!EV_LEAVE # Chan!EV_ERROR
       /\ Chan!EV_LEAVE # Chan!EV_CLOSE
  /\ Chan!EV_REPLY # Chan!EV_ERROR /\ Chan!EV_REPLY # Chan!EV_CLOSE
       /\ Chan!EV_ERROR # Chan!EV_CLOSE
  /\ Chan!EV_HEARTBEAT \notin {Chan!EV_JOIN, Chan!EV_LEAVE, Chan!EV_REPLY, Chan!EV_ERROR,
       Chan!EV_CLOSE}
  /\ <<>> \notin {Chan!EV_JOIN, Chan!EV_LEAVE, Chan!EV_REPLY, Chan!EV_ERROR, Chan!EV_CLOSE,
       Chan!EV_HEARTBEAT}
  /\ \A e \in {Chan!EV_JOIN, Chan!EV_LEAVE, Chan!EV_REPLY, Chan!EV_ERROR, Chan!EV_CLOSE} :
       Chan!Reserved(e)
<1>1. \A a, b, c, d : <<a, b>> = <<c, d>> => b = d
  OBVIOUS
<1>2. \A a, b : <<a, b>> # <<>> /\ Head(<<a, b>>) = a
  OBVIOUS
<1>3. \A a, b, c : <<a>> # <<b, c>> /\ <<a>> # <<>>
  OBVIOUS
<1> QED
  BY <1>1, <1>2, <1>3 DEF Chan!EV_JOIN, Chan!EV_LEAVE, Chan!EV_REPLY, Chan!EV_ERROR,
     Chan!EV_CLOSE, Chan!EV_HEARTBEAT, Chan!Reserved,
     Chan!RESERVED_PREFIX

LEMMA WordsAreWords ==
  ASSUME ChannelConstants
  PROVE  /\ <<>> \notin Words /\ <<>> \notin Names
         /\ \A e \in Chan!Events : e # Chan!EV_JOIN /\ e # Chan!EV_LEAVE
<1>1. \A e \in Chan!Events : e # <<>> /\ (e = Chan!EV_REPLY \/ ~Chan!Reserved(e))
  <2> SUFFICES ASSUME NEW e \in Chan!Events, e # Chan!EV_REPLY PROVE e # <<>> /\ ~Chan!Reserved(e)
    BY EventsDiffer
  <2>1. PICK i \in DOMAIN Channels : e \in Channels[i].handles
    BY DEF Chan!Events
  <2> QED
    BY <2>1 DEF ChannelConstants, Chan!ChannelsLegal
<1>2. Chan!CONTROL_TOPIC # <<>>
  BY DEF Chan!CONTROL_TOPIC
<1> QED
  BY <1>1, <1>2, EventsDiffer DEF Words, Names, ChannelConstants

\* A frame is what its fields say.
LEMMA Parsed ==
  ASSUME ChannelConstants
  PROVE  /\ \A f \in Frames : Chan!parse(f) \in Envelopes
         /\ \A f \in Chan!Malformed : Chan!parse(f) = Chan!ParseError
         /\ \A p \in Envelopes :
              LET f == Chan!serialize(p.topic, p.event, p.ref, p.join_ref, p.ok)
              IN f \in Frames /\ Chan!parse(f) = p
<1>1. ASSUME NEW p \in Envelopes
      PROVE  /\ Chan!serialize(p.topic, p.event, p.ref, p.join_ref, p.ok) \in Frames
             /\ Chan!parse(Chan!serialize(p.topic, p.event, p.ref, p.join_ref, p.ok)) = p
  <2>1. Chan!parse(Chan!serialize(p.topic, p.event, p.ref, p.join_ref, p.ok))
          = Written(p.topic, p.event, p.ref, p.join_ref, p.ok)
    BY RoundTrip, WordsAreWords DEF Envelopes
  <2>2. Written(p.topic, p.event, p.ref, p.join_ref, p.ok) = p
    BY DEF Envelopes, Written
  <2> QED
    BY <2>1, <2>2 DEF Frames
<1>2. \A f \in Frames : Chan!parse(f) \in Envelopes
  BY <1>1 DEF Frames
<1>3. ASSUME NEW f \in Chan!Malformed PROVE Chan!parse(f) = Chan!ParseError
  BY <1>3 DEF Chan!Malformed, Chan!parse, Chan!HasText, Chan!OptOk, Chan!Text, Chan!Number
<1> QED
  BY <1>1, <1>2, <1>3

\* The same for an envelope that is put together.
LEMMA Put ==
  ASSUME ChannelConstants, NEW t \in Names, NEW e \in Words, NEW r \in Refs, NEW j \in Refs,
         NEW ok \in Answered
  PROVE  /\ Chan!serialize(t, e, r, j, ok) \in Frames
         /\ Chan!parse(Chan!serialize(t, e, r, j, ok)) = Written(t, e, r, j, ok)
         /\ Written(t, e, r, j, ok) \in Envelopes
<1>1. Written(t, e, r, j, ok) \in Envelopes
  BY DEF Envelopes, Written
<1> QED
  BY <1>1, Parsed DEF Written

LEMMA BringsOneMore ==
  ASSUME NEW a, NEW t, NEW x, NEW y \in Refs, NEW z \in Refs, NEW d \in Seq(Frames),
         NEW f \in Frames,
         Brings(a, t, x, d, y), z = Told(a, y, t, Chan!parse(f))
  PROVE  Brings(a, t, x, Append(d, f), z)
<1> DEFINE n == Len(d)
           e == Append(d, f)
<1>1. n \in Nat /\ Len(e) = n + 1 /\ e[n + 1] = f /\ \A i \in 1..n : e[i] = d[i]
  OBVIOUS
<1>2. PICK v \in [0..n -> Refs] :
        /\ v[0] = x /\ v[n] = y
        /\ \A i \in 0..n, k \in 1..n : k = i + 1 => v[k] = Told(a, v[i], t, Chan!parse(d[k]))
  BY DEF Brings
<1> DEFINE w == [i \in 0..(n + 1) |-> IF i = n + 1 THEN z ELSE v[i]]
<1> HIDE DEF n, e
<1>3. w \in [0..(n + 1) -> Refs] /\ w[0] = x /\ w[n + 1] = z /\ \A i \in 0..n : w[i] = v[i]
  BY <1>1, <1>2
<1> HIDE DEF w
<1>4. ASSUME NEW i \in 0..(n + 1), NEW k \in 1..(n + 1), k = i + 1
      PROVE  w[k] = Told(a, w[i], t, Chan!parse(e[k]))
  <2>1. CASE k = n + 1
    <3>1. i = n /\ w[i] = y /\ e[k] = f /\ w[k] = z
      BY <2>1, <1>1, <1>2, <1>3, <1>4
    <3> QED
      BY <3>1
  <2>2. CASE k # n + 1
    <3>1. k \in 1..n /\ i \in 0..n
      BY <2>2, <1>1, <1>4
    <3>2. w[k] = v[k] /\ w[i] = v[i] /\ e[k] = d[k]
      BY <3>1, <1>1, <1>3
    <3> QED
      BY <3>1, <3>2, <1>2, <1>4
  <2> QED
    BY <2>1, <2>2
<1>5. Brings(a, t, x, e, z)
  <2>1. w \in [0..Len(e) -> Refs] /\ w[0] = x /\ w[Len(e)] = z
    BY <1>1, <1>3
  <2>2. \A i \in 0..Len(e), k \in 1..Len(e) : k = i + 1
          => w[k] = Told(a, w[i], t, Chan!parse(e[k]))
    BY <1>1, <1>4
  <2> QED
    BY <2>1, <2>2 DEF Brings
<1> QED
  BY <1>5 DEF e

LEMMA BringsOneLess ==
  ASSUME NEW a, NEW t, NEW x, NEW y, NEW d \in Seq(Frames), d # <<>>, Brings(a, t, x, d, y)
  PROVE  Brings(a, t, Told(a, x, t, Chan!parse(Head(d))), Tail(d), y)
<1> DEFINE n == Len(d)
           e == Tail(d)
<1>1. n \in Nat \ {0} /\ Len(e) = n - 1 /\ d[1] = Head(d) /\ \A i \in 1..(n - 1) : e[i] = d[i + 1]
  OBVIOUS
<1>2. PICK v \in [0..n -> Refs] :
        /\ v[0] = x /\ v[n] = y
        /\ \A i \in 0..n, k \in 1..n : k = i + 1 => v[k] = Told(a, v[i], t, Chan!parse(d[k]))
  BY DEF Brings
<1> DEFINE w == [i \in 0..(n - 1) |-> v[i + 1]]
<1> HIDE DEF n, e
<1>3. w \in [0..(n - 1) -> Refs] /\ w[0] = v[1] /\ w[n - 1] = y
      /\ \A i \in 0..(n - 1), j \in 1..n : j = i + 1 => w[i] = v[j]
  BY <1>1, <1>2
<1> HIDE DEF w
<1>4. ASSUME NEW i \in 0..(n - 1), NEW k \in 1..(n - 1), k = i + 1
      PROVE  w[k] = Told(a, w[i], t, Chan!parse(e[k]))
  <2>1. PICK m \in 1..n : m = k + 1
    BY <1>1
  <2>2. w[k] = v[m] /\ w[i] = v[k] /\ e[k] = d[m] /\ k \in 0..n
    BY <2>1, <1>1, <1>3, <1>4
  <2> QED
    BY <2>1, <2>2, <1>2
<1>5. w[0] = Told(a, x, t, Chan!parse(Head(d)))
  BY <1>1, <1>2, <1>3
<1>6. Brings(a, t, Told(a, x, t, Chan!parse(Head(d))), e, y)
  <2>1. Len(e) \in Nat /\ Len(e) = n - 1
    BY <1>1
  <2> QED
    BY <2>1, <1>3, <1>4, <1>5 DEF Brings
<1> QED
  BY <1>6 DEF e

\* A frame the hub sends says the same however much the client asks next.
LEMMA BringsKept ==
  ASSUME ChannelConstants, NEW a \in Seq(Words \cup {<<>>}), NEW b \in Words \cup {<<>>},
         Len(a) < MaxFrames,
         NEW t, NEW x, NEW y, NEW d \in Seq(Frames), Brings(a, t, x, d, y),
         \A i \in 1..Len(d) : HubFrame(a, Chan!parse(d[i]))
  PROVE  /\ Brings(Append(a, b), t, x, d, y)
         /\ \A i \in 1..Len(d) : HubFrame(Append(a, b), Chan!parse(d[i]))
<1> DEFINE c == Append(a, b)
           n == Len(a)
<1>1. n \in Nat /\ Len(c) = n + 1 /\ c[n + 1] = b /\ \A k \in 1..n : c[k] = a[k]
  OBVIOUS
<1> HIDE DEF c, n
<1>2. ASSUME NEW r, NEW e, AskedFor(a, r, e) PROVE AskedFor(c, r, e)
  BY <1>1, <1>2 DEF AskedFor, n
<1>3. ASSUME NEW r, NEW e, AskedFor(c, r, e), NEW g, AskedFor(a, r, g) PROVE AskedFor(a, r, e)
  <2>1. PICK k \in 1..(n + 1) : r = Chan!Ref(k) /\ c[k] = e
    BY <1>1, <1>3 DEF AskedFor
  <2>2. PICK m \in 1..n : r = Chan!Ref(m) /\ a[m] = g
    BY <1>3 DEF AskedFor, n
  <2>3. k = m
    <3>1. k \in 1..MaxFrames /\ m \in 1..MaxFrames /\ Chan!Ref(k) = Chan!Ref(m)
      BY <2>1, <2>2, <1>1 DEF ChannelConstants, n
    <3> QED
      BY <3>1 DEF ChannelConstants
  <2> QED
    BY <2>1, <2>2, <2>3, <1>1 DEF AskedFor, n
<1>4. ASSUME NEW i \in 1..Len(d) PROVE HubFrame(c, Chan!parse(d[i]))
  BY <1>2, <1>4 DEF HubFrame
<1>5. ASSUME NEW i \in 1..Len(d), NEW z
      PROVE  Told(c, z, t, Chan!parse(d[i])) = Told(a, z, t, Chan!parse(d[i]))
  BY <1>2, <1>3 DEF HubFrame, Told
<1>6. Brings(c, t, x, d, y)
  BY <1>5 DEF Brings
<1> QED
  BY <1>4, <1>6 DEF c

\* What one outcome says of the memberships: whoever knew them knows them again.
Says(a, js, frames, ks) ==
  \A t \in Topics, x \in Refs, d \in Seq(Frames) :
    Brings(a, t, x, d, js[t]) => Brings(a, t, x, d \o frames, ks[t])

Answers(env, o) ==
  LET said == {i \in DOMAIN o.frames : Chan!parse(o.frames[i]).event \in {Chan!EV_REPLY,
                Chan!EV_ERROR}}
      n == Cardinality(said)
      refs == {Chan!parse(o.frames[i]).ref : i \in said}
  IN IF o.hush THEN n = 0
     ELSE IF env.err THEN n = 1 /\ refs = {NONE}
     ELSE IF env.ref # NONE THEN n = 1 /\ refs = {env.ref}
     ELSE n <= 1 /\ refs \subseteq {NONE}

Sound(a, env, o) ==
  /\ o.joins \in [Topics -> Refs] /\ o.frames \in Seq(Frames) /\ o.hush \in BOOLEAN
  /\ \A i \in 1..Len(o.frames) : HubFrame(a, Chan!parse(o.frames[i]))
  /\ Says(a, channelJoins, o.frames, o.joins)
  /\ Answers(env, o)

LEMMA Silence ==
  ASSUME channelJoins \in [Topics -> Refs], NEW a, NEW env, NEW hush \in BOOLEAN,
         hush = TRUE \/ (env.err = FALSE /\ env.ref = NONE)
  PROVE  Sound(a, env, Chan!Outcome(channelJoins, <<>>, hush))
<1> DEFINE o == Chan!Outcome(channelJoins, <<>>, hush)
<1>1. o.joins = channelJoins /\ o.frames = <<>> /\ o.hush = hush
  BY DEF Chan!Outcome
<1>2. o.frames \in Seq(Frames) /\ Len(o.frames) = 0 /\ DOMAIN o.frames = {}
  <2>1. Len(<<>>) = 0 /\ DOMAIN <<>> = 1..Len(<<>>) /\ 1..0 = {} /\ <<>> \in Seq(Frames)
    OBVIOUS
  <2> QED
    BY <1>1, <2>1
<1>3. \A d \in Seq(Frames) : d \o o.frames = d
  BY <1>1, ConcatEmptySeq
<1>4. Says(a, channelJoins, o.frames, o.joins)
  BY <1>1, <1>3 DEF Says
<1> HIDE DEF o
<1>5. Answers(env, o)
  <2>1. {i \in DOMAIN o.frames : Chan!parse(o.frames[i]).event \in {Chan!EV_REPLY,
          Chan!EV_ERROR}} = {}
    BY <1>2
  <2>2. Cardinality({}) = 0
    BY FS_EmptySet
  <2> QED
    BY <2>1, <2>2, <1>1 DEF Answers
<1>6. Sound(a, env, o)
  BY <1>1, <1>2, <1>4, <1>5 DEF Sound
<1> QED
  BY <1>6 DEF o

LEMMA OneFrame ==
  ASSUME channelJoins \in [Topics -> Refs], NEW a, NEW env, NEW ks \in [Topics -> Refs],
         NEW f \in Frames,
         HubFrame(a, Chan!parse(f)), Chan!parse(f).event \in {Chan!EV_REPLY, Chan!EV_ERROR},
         Chan!parse(f).ref = (IF env.err THEN NONE ELSE env.ref),
         \A t \in Topics : ks[t] = Told(a, channelJoins[t], t, Chan!parse(f))
  PROVE  Sound(a, env, Chan!Outcome(ks, <<f>>, FALSE))
<1> DEFINE o == Chan!Outcome(ks, <<f>>, FALSE)
<1>1. o.joins = ks /\ o.frames = <<f>> /\ o.hush = FALSE /\ o.hush \in BOOLEAN
  BY DEF Chan!Outcome
<1>2. o.frames \in Seq(Frames) /\ Len(o.frames) = 1 /\ DOMAIN o.frames = {1} /\ o.frames[1] = f
  <2>1. <<f>> \in Seq(Frames) /\ Len(<<f>>) = 1 /\ <<f>>[1] = f
    OBVIOUS
  <2>2. DOMAIN <<f>> = 1..1 /\ 1..1 = {1}
    OBVIOUS
  <2> QED
    BY <1>1, <2>1, <2>2
<1>3. \A d \in Seq(Frames) : d \o o.frames = Append(d, f)
  BY <1>1, AppendIsConcat
<1> HIDE DEF o
<1>4. Says(a, channelJoins, o.frames, o.joins)
  <2> SUFFICES ASSUME NEW t \in Topics, NEW x \in Refs, NEW d \in Seq(Frames), Brings(a, t, x,
                      d, channelJoins[t])
               PROVE  Brings(a, t, x, Append(d, f), ks[t])
    BY <1>1, <1>3 DEF Says
  <2>1. channelJoins[t] \in Refs /\ ks[t] \in Refs
          /\ ks[t] = Told(a, channelJoins[t], t, Chan!parse(f))
    OBVIOUS
  <2> QED
    BY <2>1, BringsOneMore
<1>5. Answers(env, o)
  <2> DEFINE said == {i \in DOMAIN o.frames : Chan!parse(o.frames[i]).event \in {Chan!EV_REPLY,
                       Chan!EV_ERROR}}
  <2>1. said = {1}
    BY <1>2
  <2>3. {Chan!parse(o.frames[i]).ref : i \in said} = {Chan!parse(f).ref}
    BY <1>2, <2>1
  <2>2. Cardinality({1}) = 1
    BY FS_Singleton
  <2>4. Answers(env, o) <=>
          IF o.hush THEN Cardinality(said) = 0
          ELSE IF env.err THEN Cardinality(said) = 1
                 /\ {Chan!parse(o.frames[i]).ref : i \in said} = {NONE}
          ELSE IF env.ref # NONE THEN Cardinality(said) = 1
                 /\ {Chan!parse(o.frames[i]).ref : i \in said} = {env.ref}
          ELSE Cardinality(said) <= 1
                 /\ {Chan!parse(o.frames[i]).ref : i \in said} \subseteq {NONE}
    BY DEF Answers
  <2> HIDE DEF said
  <2>5. Cardinality(said) = 1 /\ 1 <= 1
    BY <2>1, <2>2
  <2> QED
    BY <2>3, <2>4, <2>5, <1>1
<1>6. Sound(a, env, o)
  BY <1>1, <1>2, <1>4, <1>5 DEF Sound
<1> QED
  BY <1>6 DEF o

LEMMA CloseOnly ==
  ASSUME channelJoins \in [Topics -> Refs], NEW a, NEW env, NEW ks \in [Topics -> Refs],
         NEW f \in Frames,
         HubFrame(a, Chan!parse(f)), Chan!parse(f).event = Chan!EV_CLOSE, env.err = FALSE,
           env.ref = NONE,
         \A t \in Topics : ks[t] = Told(a, channelJoins[t], t, Chan!parse(f))
  PROVE  Sound(a, env, Chan!Outcome(ks, <<f>>, FALSE))
<1> DEFINE o == Chan!Outcome(ks, <<f>>, FALSE)
<1>1. o.joins = ks /\ o.frames = <<f>> /\ o.hush = FALSE /\ o.hush \in BOOLEAN
  BY DEF Chan!Outcome
<1>2. o.frames \in Seq(Frames) /\ Len(o.frames) = 1 /\ DOMAIN o.frames = {1} /\ o.frames[1] = f
  <2>1. <<f>> \in Seq(Frames) /\ Len(<<f>>) = 1 /\ <<f>>[1] = f
    OBVIOUS
  <2>2. DOMAIN <<f>> = 1..1 /\ 1..1 = {1}
    OBVIOUS
  <2> QED
    BY <1>1, <2>1, <2>2
<1>3. \A d \in Seq(Frames) : d \o o.frames = Append(d, f)
  BY <1>1, AppendIsConcat
<1> HIDE DEF o
<1>4. Says(a, channelJoins, o.frames, o.joins)
  <2> SUFFICES ASSUME NEW t \in Topics, NEW x \in Refs, NEW d \in Seq(Frames), Brings(a, t, x,
                      d, channelJoins[t])
               PROVE  Brings(a, t, x, Append(d, f), ks[t])
    BY <1>1, <1>3 DEF Says
  <2>1. channelJoins[t] \in Refs /\ ks[t] \in Refs
          /\ ks[t] = Told(a, channelJoins[t], t, Chan!parse(f))
    OBVIOUS
  <2> QED
    BY <2>1, BringsOneMore
<1>5. Answers(env, o)
  <2> DEFINE said == {i \in DOMAIN o.frames : Chan!parse(o.frames[i]).event \in {Chan!EV_REPLY,
                       Chan!EV_ERROR}}
  <2>1. said = {} /\ {Chan!parse(o.frames[i]).ref : i \in said} = {}
    BY <1>2, EventsDiffer
  <2>2. Cardinality({}) = 0
    BY FS_EmptySet
  <2>3. Answers(env, o) <=>
          IF o.hush THEN Cardinality(said) = 0
          ELSE IF env.err THEN Cardinality(said) = 1
                 /\ {Chan!parse(o.frames[i]).ref : i \in said} = {NONE}
          ELSE IF env.ref # NONE THEN Cardinality(said) = 1
                 /\ {Chan!parse(o.frames[i]).ref : i \in said} = {env.ref}
          ELSE Cardinality(said) <= 1
                 /\ {Chan!parse(o.frames[i]).ref : i \in said} \subseteq {NONE}
    BY DEF Answers
  <2> HIDE DEF said
  <2>4. Cardinality(said) = 0 /\ 0 <= 1
    BY <2>1, <2>2
  <2> QED
    BY <2>1, <2>3, <2>4, <1>1
<1>6. Sound(a, env, o)
  BY <1>1, <1>2, <1>4, <1>5 DEF Sound
<1> QED
  BY <1>6 DEF o

LEMMA CloseAndReply ==
  ASSUME channelJoins \in [Topics -> Refs], NEW a, NEW env, env.err = FALSE, env.ref # NONE,
         NEW ms \in [Topics -> Refs], NEW ks \in [Topics -> Refs], NEW f \in Frames,
           NEW g \in Frames,
         HubFrame(a, Chan!parse(f)), Chan!parse(f).event = Chan!EV_CLOSE,
         HubFrame(a, Chan!parse(g)), Chan!parse(g).event = Chan!EV_REPLY,
           Chan!parse(g).ref = env.ref,
         \A t \in Topics : ms[t] = Told(a, channelJoins[t], t, Chan!parse(f)),
         \A t \in Topics : ks[t] = Told(a, ms[t], t, Chan!parse(g))
  PROVE  Sound(a, env, Chan!Outcome(ks, <<f>> \o <<g>>, FALSE))
<1> DEFINE o == Chan!Outcome(ks, <<f>> \o <<g>>, FALSE)
<1>1. o.joins = ks /\ o.frames = <<f>> \o <<g>> /\ o.hush = FALSE /\ o.hush \in BOOLEAN
  BY DEF Chan!Outcome
<1>0. <<f>> \in Seq(Frames) /\ <<g>> \in Seq(Frames) /\ Len(<<f>>) = 1 /\ Len(<<g>>) = 1
      /\ <<f>>[1] = f /\ <<g>>[1] = g
  OBVIOUS
<1>2. o.frames \in Seq(Frames) /\ Len(o.frames) = 2 /\ DOMAIN o.frames = {1, 2}
      /\ o.frames[1] = f /\ o.frames[2] = g
  <2>1. <<f>> \o <<g>> \in Seq(Frames) /\ Len(<<f>> \o <<g>>) = 2
        /\ (<<f>> \o <<g>>)[1] = f /\ (<<f>> \o <<g>>)[2] = g
    BY <1>0, ConcatProperties
  <2>2. \A q \in Seq(Frames) : DOMAIN q = 1..Len(q)
    OBVIOUS
  <2>3. 1..2 = {1, 2}
    OBVIOUS
  <2> QED
    BY <1>1, <2>1, <2>2, <2>3
<1>3. \A d \in Seq(Frames) : d \o o.frames = Append(Append(d, f), g)
  <2> SUFFICES ASSUME NEW d \in Seq(Frames) PROVE d \o (<<f>> \o <<g>>) = Append(Append(d, f), g)
    BY <1>1
  <2>1. d \o (<<f>> \o <<g>>) = (d \o <<f>>) \o <<g>>
    BY <1>0, ConcatAssociative
  <2>2. d \o <<f>> = Append(d, f) /\ Append(d, f) \in Seq(Frames)
    BY AppendIsConcat
  <2> QED
    BY <2>1, <2>2, AppendIsConcat
<1> HIDE DEF o
<1>4. Says(a, channelJoins, o.frames, o.joins)
  <2> SUFFICES ASSUME NEW t \in Topics, NEW x \in Refs, NEW d \in Seq(Frames), Brings(a, t, x,
                      d, channelJoins[t])
               PROVE  Brings(a, t, x, Append(Append(d, f), g), ks[t])
    BY <1>1, <1>3 DEF Says
  <2>1. /\ channelJoins[t] \in Refs /\ ms[t] \in Refs
             /\ ms[t] = Told(a, channelJoins[t], t, Chan!parse(f))
        /\ ks[t] \in Refs /\ ks[t] = Told(a, ms[t], t, Chan!parse(g))
    OBVIOUS
  <2>2. Brings(a, t, x, Append(d, f), ms[t])
    BY <2>1, BringsOneMore
  <2>3. Append(d, f) \in Seq(Frames)
    OBVIOUS
  <2> QED
    BY <2>1, <2>2, <2>3, BringsOneMore
<1>5. Answers(env, o)
  <2> DEFINE said == {i \in DOMAIN o.frames : Chan!parse(o.frames[i]).event \in {Chan!EV_REPLY,
                       Chan!EV_ERROR}}
  <2>1. said = {2}
    BY <1>2, EventsDiffer
  <2>2. {Chan!parse(o.frames[i]).ref : i \in said} = {env.ref}
    BY <1>2, <2>1
  <2>3. Cardinality({2}) = 1
    BY FS_Singleton
  <2> QED
    BY <2>1, <2>2, <2>3, <1>1 DEF Answers
<1>6. \A i \in 1..Len(o.frames) : HubFrame(a, Chan!parse(o.frames[i]))
  <2>1. \A i \in 1..2 : i = 1 \/ i = 2
    OBVIOUS
  <2> QED
    BY <1>2, <2>1
<1>7. Sound(a, env, o)
  BY <1>1, <1>2, <1>4, <1>5, <1>6 DEF Sound
<1> QED
  BY <1>7 DEF o

\* A ref was given once.
LEMMA OneMeaning ==
  ASSUME ChannelConstants, ChannelTypes, NEW r, NEW e, NEW g, AskedFor(asked, r, e),
         AskedFor(asked, r, g)
  PROVE  e = g
<1>1. PICK k \in 1..Len(asked) : r = Chan!Ref(k) /\ asked[k] = e
  BY DEF AskedFor
<1>2. PICK m \in 1..Len(asked) : r = Chan!Ref(m) /\ asked[m] = g
  BY DEF AskedFor
<1>3. k \in 1..MaxFrames /\ m \in 1..MaxFrames /\ Chan!Ref(k) = Chan!Ref(m)
  BY <1>1, <1>2 DEF ChannelTypes, ChannelConstants
<1>4. k = m
  BY <1>3 DEF ChannelConstants
<1> QED
  BY <1>1, <1>2, <1>4

\* What the hub makes of an envelope from the client.
LEMMA RefusalIsSound ==
  ASSUME ChannelConstants, ChannelTypes, NEW env \in Envelopes, ClientFrame(asked, env),
         \A t \in Topics : env.event \in {Chan!EV_JOIN, Chan!EV_LEAVE} /\ env.topic = t
           => channelJoins[t] = NONE
  PROVE  Sound(asked, env, Chan!Outcome(channelJoins, Chan!error_reply(env), FALSE))
<1>1. channelJoins \in [Topics -> Refs] /\ NONE \in Refs /\ NONE \in Answered
        /\ FALSE \in Answered
      /\ Chan!EV_REPLY \in Words /\ Chan!EV_ERROR \in Words
  BY DEF ChannelTypes, Refs, Answered, Words
<1>2. env.topic \in Names /\ env.ref \in Refs /\ env.event \in Words /\ env.err = FALSE
  BY DEF Envelopes
<1>3. CASE env.ref # NONE
  <2> DEFINE f == Chan!serialize(env.topic, Chan!EV_REPLY, env.ref, NONE, FALSE)
             p == Written(env.topic, Chan!EV_REPLY, env.ref, NONE, FALSE)
  <2>1. Chan!error_reply(env) = <<f>>
    BY <1>3 DEF Chan!error_reply, Chan!reply
  <2>2. f \in Frames /\ Chan!parse(f) = p
    BY <1>1, <1>2, Put, ZenonT(60)
  <2>3. p.event = Chan!EV_REPLY /\ p.ref = env.ref /\ p.topic = env.topic /\ p.ok = FALSE
    BY DEF Written
  <2>4. HubFrame(asked, p)
    <3>1. AskedFor(asked, env.ref, env.event)
      BY <1>3 DEF ClientFrame
    <3> QED
      BY <2>3, <3>1, <1>2, EventsDiffer DEF HubFrame
  <2>5. ASSUME NEW t \in Topics PROVE channelJoins[t] = Told(asked, channelJoins[t], t, p)
    <3>1. AskedFor(asked, env.ref, env.event)
      BY <1>3 DEF ClientFrame
    <3>2. \A e : AskedFor(asked, env.ref, e) => e = env.event
      BY <3>1, OneMeaning
    <3> QED
      BY <2>3, <3>2, EventsDiffer DEF Told
  <2> QED
    BY <1>1, <1>2, <2>1, <2>2, <2>3, <2>4, <2>5, OneFrame
<1>4. CASE env.ref = NONE
  <2> DEFINE f == Chan!serialize(env.topic, Chan!EV_ERROR, NONE, NONE, NONE)
             p == Written(env.topic, Chan!EV_ERROR, NONE, NONE, NONE)
  <2>1. Chan!error_reply(env) = <<f>>
    BY <1>4 DEF Chan!error_reply
  <2>2. f \in Frames /\ Chan!parse(f) = p
    BY <1>1, <1>2, Put, ZenonT(60)
  <2>3. p.event = Chan!EV_ERROR /\ p.ref = NONE /\ p.topic = env.topic
    BY DEF Written
  <2>4. HubFrame(asked, p)
    BY <2>3, EventsDiffer DEF HubFrame
  <2>5. ASSUME NEW t \in Topics PROVE channelJoins[t] = Told(asked, channelJoins[t], t, p)
    BY <2>3, EventsDiffer DEF Told
  <2> QED
    BY <1>1, <1>2, <1>4, <2>1, <2>2, <2>3, <2>4, <2>5, OneFrame
<1> QED
  BY <1>3, <1>4

\* A reply to a frame about a topic, or to a heartbeat.
LEMMA ReplyIsSound ==
  ASSUME ChannelConstants, ChannelTypes, NEW env \in Envelopes, ClientFrame(asked, env),
         NEW ks \in [Topics -> Refs], NEW j \in Refs, NEW ok \in BOOLEAN,
         \A t \in Topics \ {env.topic} : ks[t] = channelJoins[t],
         env.topic \in Topics =>
           ks[env.topic] = IF env.event = Chan!EV_JOIN THEN IF ok = TRUE THEN j ELSE NONE
                           ELSE IF env.event
                                  = Chan!EV_LEAVE THEN NONE ELSE channelJoins[env.topic]
  PROVE  Sound(asked, env, Chan!Outcome(ks, Chan!reply(env, j, ok), FALSE))
<1>1. channelJoins \in [Topics -> Refs] /\ ok \in Answered /\ Chan!EV_REPLY \in Words
  BY DEF ChannelTypes, Answered, Words
<1>2. env.topic \in Names /\ env.ref \in Refs /\ env.event \in Words /\ env.err = FALSE
  BY DEF Envelopes
<1>3. CASE env.ref # NONE
  <2> DEFINE f == Chan!serialize(env.topic, Chan!EV_REPLY, env.ref, j, ok)
             p == Written(env.topic, Chan!EV_REPLY, env.ref, j, ok)
  <2>1. Chan!reply(env, j, ok) = <<f>>
    BY <1>3 DEF Chan!reply
  <2>2. f \in Frames /\ Chan!parse(f) = p
    BY <1>1, <1>2, Put, ZenonT(60)
  <2>3. p.event = Chan!EV_REPLY /\ p.ref = env.ref /\ p.topic = env.topic /\ p.ok = ok
          /\ p.join_ref = j
    BY DEF Written
  <2>4. AskedFor(asked, env.ref, env.event) /\ \A e : AskedFor(asked, env.ref, e) => e = env.event
    <3>1. AskedFor(asked, env.ref, env.event)
      BY <1>3 DEF ClientFrame
    <3> QED
      BY <3>1, OneMeaning
  <2>5. HubFrame(asked, p)
    BY <2>3, <2>4, <1>2, EventsDiffer DEF HubFrame
  <2> HIDE DEF f, p
  <2>6. ASSUME NEW t \in Topics PROVE ks[t] = Told(asked, channelJoins[t], t, p)
    <3>1. CASE t # env.topic
      BY <2>3, <3>1 DEF Told
    <3>2. CASE t = env.topic /\ env.event = Chan!EV_JOIN
      BY <2>3, <2>4, <3>2 DEF Told
    <3>3. CASE t = env.topic /\ env.event = Chan!EV_LEAVE
      BY <2>3, <2>4, <3>3, EventsDiffer DEF Told
    <3>4. CASE t = env.topic /\ env.event # Chan!EV_JOIN /\ env.event # Chan!EV_LEAVE
      BY <2>3, <2>4, <3>4, EventsDiffer DEF Told
    <3> QED
      BY <3>1, <3>2, <3>3, <3>4
  <2>7. Sound(asked, env, Chan!Outcome(ks, <<f>>, FALSE))
    BY <1>1, <1>2, <2>2, <2>3, <2>5, <2>6, OneFrame
  <2> QED
    BY <2>1, <2>7
<1>4. CASE env.ref = NONE
  <2>1. env.event # Chan!EV_JOIN /\ env.event # Chan!EV_LEAVE
    BY <1>4 DEF ClientFrame
  <2>2. ks = channelJoins
    <3>1. \A t \in Topics : ks[t] = channelJoins[t]
      BY <2>1
    <3> QED
      BY <3>1, <1>1
  <2>3. Chan!reply(env, j, ok) = <<>>
    BY <1>4 DEF Chan!reply
  <2> QED
    BY <1>1, <1>2, <1>4, <2>2, <2>3, Silence
<1> QED
  BY <1>3, <1>4

\* A handler that kicks its own member: the close and then the reply.
LEMMA SelfKickIsSound ==
  ASSUME ChannelConstants, ChannelTypes, NEW env \in Envelopes, ClientFrame(asked, env),
         env.topic \in Topics, channelJoins[env.topic] # NONE, env.event \notin {Chan!EV_JOIN,
           Chan!EV_LEAVE},
         NEW close, close
           = Chan!serialize(env.topic, Chan!EV_CLOSE, NONE, channelJoins[env.topic], NONE)
  PROVE  Sound(asked, env, Chan!Outcome(Chan!Without(env.topic), <<close>>
           \o Chan!reply(env, channelJoins[env.topic], TRUE), FALSE))
<1> DEFINE ks == Chan!Without(env.topic)
           j == channelJoins[env.topic]
           p == Written(env.topic, Chan!EV_CLOSE, NONE, j, NONE)
<1>1. /\ channelJoins \in [Topics -> Refs] /\ j \in Refs /\ NONE \in Refs
           /\ NONE \in Answered /\ TRUE \in Answered
      /\ Chan!EV_CLOSE \in Words /\ Chan!EV_REPLY \in Words
  BY DEF ChannelTypes, Refs, Answered, Words
<1>2. env.topic \in Names /\ env.ref \in Refs /\ env.event \in Words /\ env.err = FALSE
  BY DEF Envelopes
<1>3. ks \in [Topics -> Refs]
        /\ \A t \in Topics : ks[t] = IF t = env.topic THEN NONE ELSE channelJoins[t]
  BY <1>1 DEF Chan!Without
<1>4. close \in Frames /\ Chan!parse(close) = p
  BY <1>1, <1>2, Put
<1>5. p.event = Chan!EV_CLOSE /\ p.join_ref = j /\ p.topic = env.topic
  BY DEF Written
<1>6. HubFrame(asked, p)
  BY <1>5, EventsDiffer DEF HubFrame
<1> HIDE DEF p
<1>7. ASSUME NEW t \in Topics PROVE ks[t] = Told(asked, channelJoins[t], t, p)
  <2> HIDE DEF ks
  <2> QED
    BY <1>3, <1>5, EventsDiffer DEF Told
<1>8. CASE env.ref = NONE
  <2>1. <<close>> \o Chan!reply(env, j, TRUE) = <<close>>
    <3>1. Chan!reply(env, j, TRUE) = <<>> /\ <<close>> \in Seq(Frames)
      BY <1>4, <1>8 DEF Chan!reply
    <3> QED
      BY <3>1, ConcatEmptySeq
  <2>2. Sound(asked, env, Chan!Outcome(ks, <<close>>, FALSE))
    <3> HIDE DEF ks
    <3> QED
      BY <1>1, <1>2, <1>3, <1>4, <1>5, <1>6, <1>7, <1>8, CloseOnly
  <2> QED
    BY <2>1, <2>2
<1>9. CASE env.ref # NONE
  <2> DEFINE g == Chan!serialize(env.topic, Chan!EV_REPLY, env.ref, j, TRUE)
             q == Written(env.topic, Chan!EV_REPLY, env.ref, j, TRUE)
  <2>1. Chan!reply(env, j, TRUE) = <<g>>
    BY <1>9 DEF Chan!reply
  <2>2. g \in Frames /\ Chan!parse(g) = q
    BY <1>1, <1>2, Put, ZenonT(60)
  <2>3. q.event = Chan!EV_REPLY /\ q.ref = env.ref /\ q.topic = env.topic /\ q.ok = TRUE
    BY DEF Written
  <2>4. AskedFor(asked, env.ref, env.event) /\ \A e : AskedFor(asked, env.ref, e) => e = env.event
    <3>1. AskedFor(asked, env.ref, env.event)
      BY <1>9 DEF ClientFrame
    <3> QED
      BY <3>1, OneMeaning
  <2>5. HubFrame(asked, q)
    BY <2>3, <2>4, <1>2, EventsDiffer DEF HubFrame
  <2> HIDE DEF g, q, ks
  <2>6. ASSUME NEW t \in Topics PROVE ks[t] = Told(asked, ks[t], t, q)
    BY <2>3, <2>4, EventsDiffer DEF Told
  <2>7. Sound(asked, env, Chan!Outcome(ks, <<close>> \o <<g>>, FALSE))
    BY <1>1, <1>2, <1>3, <1>4, <1>5, <1>6, <1>7, <1>9, <2>2, <2>3, <2>5, <2>6, CloseAndReply
  <2> QED
    BY <2>1, <2>7 DEF ks
<1> QED
  BY <1>8, <1>9 DEF ks

LEMMA DispatchIsSound ==
  ASSUME ChannelConstants, ChannelTypes, FramesInv, NEW env \in Envelopes, ClientFrame(asked,
         env),
         NEW o \in Chan!Dispatched(env)
  PROVE  /\ Sound(asked, env, o)
         /\ \A t \in Topics : o.joins[t] # NONE => Chan!channel_for(t) # 0
<1>1. channelJoins \in [Topics -> Refs] /\ NONE \in Refs /\ env.topic \in Names
        /\ env.ref \in Refs
      /\ env.join_ref \in Refs /\ env.err = FALSE
      /\ \A t \in Topics : channelJoins[t] # NONE => Chan!channel_for(t) # 0
  BY DEF ChannelTypes, FramesInv, Envelopes, Refs
<1>2. \A ks, fs : Chan!Outcome(ks, fs, FALSE).joins = ks /\ Chan!Outcome(ks, fs, TRUE).joins = ks
  BY DEF Chan!Outcome
<1>3. /\ Chan!Without(env.topic) \in [Topics -> Refs]
      /\ \A t \in Topics : Chan!Without(env.topic)[t] = IF t
           = env.topic THEN NONE ELSE channelJoins[t]
  BY <1>1 DEF Chan!Without
<1>4. CASE env.topic = Chan!CONTROL_TOPIC
  <2>1. env.topic \notin Topics
    BY <1>4 DEF ChannelConstants
  <2>2. CASE o = Chan!Outcome(channelJoins, Chan!reply(env, NONE, TRUE), FALSE)
    BY <1>1, <1>2, <2>1, <2>2, ReplyIsSound
  <2>3. CASE o = Chan!Outcome(channelJoins, Chan!error_reply(env), FALSE)
    BY <1>1, <1>2, <2>1, <2>3, RefusalIsSound
  <2> QED
    BY <1>4, <2>2, <2>3 DEF Chan!Dispatched
<1>5. CASE env.topic \in Topics /\ env.topic # Chan!CONTROL_TOPIC /\ env.event = Chan!EV_JOIN
  <2> DEFINE j == IF env.join_ref # NONE THEN env.join_ref ELSE env.ref
             ks == [channelJoins EXCEPT ![env.topic] = j]
  <2>1. o \in Chan!JoinOutcomes(env)
    BY <1>5 DEF Chan!Dispatched
  <2>2. j \in Refs /\ ks \in [Topics -> Refs]
          /\ \A t \in Topics : ks[t] = IF t = env.topic THEN j ELSE channelJoins[t]
    BY <1>1
  <2>3. CASE Chan!channel_for(env.topic) = 0
    <3>1. o = Chan!Outcome(channelJoins, Chan!error_reply(env), FALSE)
      BY <2>1, <2>3 DEF Chan!JoinOutcomes
    <3>2. \A t \in Topics : env.topic = t => channelJoins[t] = NONE
      BY <1>1, <2>3
    <3> QED
      BY <1>1, <1>2, <3>1, <3>2, RefusalIsSound
  <2>4. CASE o = Chan!Outcome(ks, Chan!reply(env, j, TRUE), FALSE)
               /\ Chan!channel_for(env.topic) # 0
    <3> HIDE DEF j, ks
    <3>1. Sound(asked, env, o)
      BY <2>2, <2>4, <1>5, ReplyIsSound
    <3>2. o.joins = ks
      BY <2>4 DEF Chan!Outcome
    <3> QED
      BY <3>1, <3>2, <1>1, <2>2, <2>4
  <2>5. CASE o = Chan!Outcome(Chan!Without(env.topic), Chan!reply(env, j, FALSE), FALSE)
    <3> HIDE DEF j, ks
    <3>1. Sound(asked, env, o)
      BY <2>2, <2>5, <1>3, <1>5, ReplyIsSound
    <3>2. o.joins = Chan!Without(env.topic)
      BY <2>5 DEF Chan!Outcome
    <3> QED
      BY <3>1, <3>2, <1>1, <1>3
  <2> QED
    BY <2>1, <2>3, <2>4, <2>5 DEF Chan!JoinOutcomes
<1>6. CASE env.topic \in Topics /\ env.topic # Chan!CONTROL_TOPIC /\ env.event = Chan!EV_LEAVE
  <2>1. o = Chan!Outcome(Chan!Without(env.topic), Chan!reply(env, env.join_ref, TRUE), FALSE)
    BY <1>6, EventsDiffer DEF Chan!Dispatched
  <2>2. Sound(asked, env, o)
    BY <2>1, <1>1, <1>3, <1>6, EventsDiffer, ReplyIsSound
  <2>3. o.joins = Chan!Without(env.topic)
    BY <2>1 DEF Chan!Outcome
  <2> QED
    BY <2>2, <2>3, <1>1, <1>3
<1>7. CASE env.topic \in Topics /\ env.topic # Chan!CONTROL_TOPIC
             /\ env.event \notin {Chan!EV_JOIN, Chan!EV_LEAVE}
  <2>1. CASE o = Chan!Outcome(channelJoins, Chan!error_reply(env), FALSE)
    BY <1>1, <1>2, <1>7, <2>1, RefusalIsSound
  <2>2. CASE channelJoins[env.topic] # NONE
               /\ \E ok \in BOOLEAN : o
                    = Chan!Outcome(channelJoins, Chan!reply(env, channelJoins[env.topic], ok),
                      FALSE)
    <3>1. PICK ok \in BOOLEAN : o
            = Chan!Outcome(channelJoins, Chan!reply(env, channelJoins[env.topic], ok), FALSE)
      BY <2>2
    <3>2. Sound(asked, env, o)
      BY <3>1, <1>1, <1>7, ReplyIsSound
    <3> QED
      BY <3>1, <3>2, <1>1, <1>2
  <2>3. CASE o = Chan!Outcome(channelJoins, <<>>, TRUE)
    BY <1>1, <1>2, <2>3, Silence
  <2>4. CASE /\ channelJoins[env.topic] # NONE
             /\ o = Chan!Outcome(Chan!Without(env.topic),
                      <<Chan!serialize(env.topic, Chan!EV_CLOSE, NONE, channelJoins[env.topic],
                        NONE)>>
                        \o Chan!reply(env, channelJoins[env.topic], TRUE), FALSE)
    <3>1. Sound(asked, env, o)
      BY <2>4, <1>7, SelfKickIsSound
    <3>2. o.joins = Chan!Without(env.topic)
      BY <2>4 DEF Chan!Outcome
    <3> QED
      BY <3>1, <3>2, <1>1, <1>3
  <2> QED
    BY <1>7, <2>1, <2>2, <2>3, <2>4 DEF Chan!Dispatched, Chan!EventOutcomes
<1> QED
  BY <1>1, <1>4, <1>5, <1>6, <1>7 DEF Names

\* A frame that is no envelope is answered on the control topic.
LEMMA ProtocolErrorIsSound ==
  ASSUME ChannelConstants, ChannelTypes
  PROVE  Sound(asked, Chan!ParseError, Chan!Outcome(channelJoins, Chan!ProtocolError, FALSE))
<1> DEFINE f == Chan!serialize(Chan!CONTROL_TOPIC, Chan!EV_ERROR, NONE, NONE, NONE)
           p == Written(Chan!CONTROL_TOPIC, Chan!EV_ERROR, NONE, NONE, NONE)
<1>1. f \in Frames /\ Chan!parse(f) = p
  <2>1. Chan!CONTROL_TOPIC \in Names /\ Chan!EV_ERROR \in Words /\ NONE \in Refs
          /\ NONE \in Answered
    BY DEF Names, Words, Refs, Answered
  <2> QED
    BY <2>1, Put
<1>2. p.event = Chan!EV_ERROR /\ p.ref = NONE /\ p.topic = Chan!CONTROL_TOPIC
  BY DEF Written
<1>3. HubFrame(asked, p)
  BY <1>2, EventsDiffer DEF HubFrame
<1>4. \A t \in Topics : channelJoins[t] = Told(asked, channelJoins[t], t, p)
  BY <1>2 DEF Told, ChannelConstants
<1>5. channelJoins \in [Topics -> Refs] /\ Chan!ParseError.err = TRUE
        /\ Chan!ProtocolError = <<f>>
  BY DEF ChannelTypes, Chan!ParseError, Chan!ProtocolError
<1> HIDE DEF f, p
<1> QED
  BY <1>1, <1>2, <1>3, <1>4, <1>5, OneFrame

LEMMA HubKeeps ==
  ASSUME ChannelConstants, ChannelInv, Chan!OnMessage PROVE ChannelInv'
<1> DEFINE env == Chan!parse(Head(channelUp))
<1> USE DEF ChannelInv
<1>1. channelUp # <<>> /\ Head(channelUp) \in Frames \cup Chan!Malformed
        /\ Head(channelUp) = channelUp[1] /\ Len(channelUp) \in Nat \ {0}
      /\ Tail(channelUp) \in Seq(Frames \cup Chan!Malformed)
           /\ Len(Tail(channelUp)) = Len(channelUp) - 1
      /\ \A i \in 1..(Len(channelUp) - 1) : Tail(channelUp)[i] = channelUp[i + 1]
  BY DEF Chan!OnMessage, ChannelTypes
<1>2. PICK o :
        /\ channelJoins' = o.joins /\ down' = down \o o.frames
        /\ LET said == {i \in DOMAIN o.frames :
                         Chan!parse(o.frames[i]).event \in {Chan!EV_REPLY, Chan!EV_ERROR}}
           IN answers'
             = Append(answers, [n |-> Cardinality(said), ref |-> env.ref, err |-> env.err,
                                          hush |-> o.hush,
                                            refs |-> {Chan!parse(o.frames[i]).ref : i \in said}])
        /\ sockets' = sockets \cup {<<t, o.joins[t]>> : t \in {u \in Topics : o.joins[u] # NONE}}
        /\ Sound(asked, env, o)
        /\ \A t \in Topics : o.joins[t] # NONE => Chan!channel_for(t) # 0
        /\ env.ref \in Refs /\ env.err \in BOOLEAN
  <2>1. CASE Head(channelUp) \in Frames
    <3>1. env \in Envelopes /\ ClientFrame(asked, env) /\ env.err = FALSE
      <4>1. 1 \in 1..Len(channelUp) /\ channelUp[1] \in Frames
        BY <1>1, <2>1
      <4>2. ClientFrame(asked, Chan!parse(channelUp[1]))
        BY <4>1 DEF FramesInv
      <4>3. env \in Envelopes
        BY <2>1, Parsed
      <4> QED
        BY <4>2, <4>3, <1>1 DEF Envelopes
    <3>2. env.ref \in Refs /\ env.err \in BOOLEAN
      BY <3>1 DEF Envelopes
    <3>3. PICK o \in Chan!Dispatched(env) :
        /\ channelJoins' = o.joins /\ down' = down \o o.frames
        /\ LET said == {i \in DOMAIN o.frames :
                         Chan!parse(o.frames[i]).event \in {Chan!EV_REPLY, Chan!EV_ERROR}}
           IN answers'
             = Append(answers, [n |-> Cardinality(said), ref |-> env.ref, err |-> env.err,
                                          hush |-> o.hush,
                                            refs |-> {Chan!parse(o.frames[i]).ref : i \in said}])
        /\ sockets' = sockets \cup {<<t, o.joins[t]>> : t \in {u \in Topics : o.joins[u] # NONE}}
      BY <3>1, SameCounting DEF Chan!OnMessage
    <3> HIDE DEF env
    <3>4. Sound(asked, env, o) /\ \A t \in Topics : o.joins[t] # NONE => Chan!channel_for(t) # 0
      BY <3>1, DispatchIsSound
    <3> QED
      BY <3>2, <3>3, <3>4
  <2>2. CASE Head(channelUp) \in Chan!Malformed
    <3>1. env = Chan!ParseError /\ env.err = TRUE /\ env.ref = NONE /\ NONE \in Refs
      BY <2>2, Parsed DEF Chan!ParseError, Refs
    <3> DEFINE o == Chan!Outcome(channelJoins, Chan!ProtocolError, FALSE)
    <3>2. /\ channelJoins' = o.joins /\ down' = down \o o.frames
          /\ LET said == {i \in DOMAIN o.frames :
                           Chan!parse(o.frames[i]).event \in {Chan!EV_REPLY, Chan!EV_ERROR}}
             IN answers'
               = Append(answers, [n |-> Cardinality(said), ref |-> env.ref, err |-> env.err,
                                          hush |-> o.hush,
                                            refs |-> {Chan!parse(o.frames[i]).ref : i \in said}])
          /\ sockets' = sockets
               \cup {<<t, o.joins[t]>> : t \in {u \in Topics : o.joins[u] # NONE}}
      BY <3>1, SameCounting DEF Chan!OnMessage
    <3>3. Sound(asked, env, o)
      BY <3>1, ProtocolErrorIsSound
    <3>4. o.joins = channelJoins
      BY DEF Chan!Outcome
    <3>5. \A t \in Topics : o.joins[t] # NONE => Chan!channel_for(t) # 0
      BY <3>4 DEF FramesInv
    <3> HIDE DEF o, env
    <3> QED
      BY <3>1, <3>2, <3>3, <3>5
  <2> QED
    BY <1>1, <2>1, <2>2
<1>3. channelUp' = Tail(channelUp)
        /\ UNCHANGED <<view, asked, channelSent, crossed, channelKicks>>
  BY DEF Chan!OnMessage
<1> HIDE DEF env
<1> DEFINE said == {i \in DOMAIN o.frames : Chan!parse(o.frames[i]).event \in {Chan!EV_REPLY,
                     Chan!EV_ERROR}}
           a == [n |-> Cardinality(said), ref |-> env.ref, err |-> env.err, hush |-> o.hush,
                 refs |-> {Chan!parse(o.frames[i]).ref : i \in said}]
<1>4. o.joins \in [Topics -> Refs] /\ o.frames \in Seq(Frames) /\ o.hush \in BOOLEAN
  BY <1>2 DEF Sound
<1>5. a \in [n : Nat, ref : Refs, err : BOOLEAN, hush : BOOLEAN, refs : SUBSET Refs]
  <2>1. Cardinality(said) \in Nat
    <3>1. DOMAIN o.frames = 1..Len(o.frames) /\ Len(o.frames) \in Nat
      BY <1>4
    <3>2. IsFiniteSet(1..Len(o.frames))
      BY <3>1, FS_Interval
    <3>3. said \subseteq 1..Len(o.frames)
      BY <3>1
    <3> HIDE DEF said
    <3> QED
      BY <3>2, <3>3, FS_Subset, FS_CardinalityType
  <2>2. \A i \in DOMAIN o.frames : Chan!parse(o.frames[i]).ref \in Refs
    <3>1. \A i \in DOMAIN o.frames : o.frames[i] \in Frames
      BY <1>4
    <3>2. \A f \in Frames : Chan!parse(f).ref \in Refs
      BY Parsed DEF Envelopes
    <3> QED
      BY <3>1, <3>2
  <2> QED
    BY <1>2, <1>4, <2>1, <2>2
<1>6. ChannelTypes'
  <2>1. down' \in Seq(Frames)
    BY <1>2, <1>4, ConcatProperties DEF ChannelTypes
  <2>2. answers' \in Seq([n : Nat, ref : Refs, err : BOOLEAN, hush : BOOLEAN, refs : SUBSET Refs])
    <3> HIDE DEF a
    <3>1. answers' = Append(answers, a)
      BY <1>2 DEF a
    <3> QED
      BY <3>1, <1>5 DEF ChannelTypes
  <2>3. sockets' \subseteq Topics \X (Refs \ {NONE})
    BY <1>2, <1>4 DEF ChannelTypes
  <2> QED
    BY <2>1, <2>2, <2>3, <1>1, <1>2, <1>3, <1>4 DEF ChannelTypes
<1>7. FramesInv'
  <2>1. \A i \in 1..Len(channelUp') : channelUp'[i] \in Frames
          => ClientFrame(asked', Chan!parse(channelUp'[i]))
    <3> SUFFICES ASSUME NEW i \in 1..Len(Tail(channelUp)), Tail(channelUp)[i] \in Frames
                 PROVE  ClientFrame(asked, Chan!parse(Tail(channelUp)[i]))
      BY <1>3
    <3>1. PICK k \in 1..Len(channelUp) : k = i + 1 /\ Tail(channelUp)[i] = channelUp[k]
      BY <1>1
    <3> QED
      BY <3>1 DEF FramesInv
  <2>2. \A i \in 1..Len(down') : HubFrame(asked', Chan!parse(down'[i]))
    <3> SUFFICES ASSUME NEW i \in 1..Len(down \o o.frames)
                 PROVE  HubFrame(asked, Chan!parse((down \o o.frames)[i]))
      BY <1>2, <1>3
    <3>1. Len(down) \in Nat /\ Len(o.frames) \in Nat /\ down \in Seq(Frames)
      BY <1>4 DEF ChannelTypes
    <3>2. i \in 1..(Len(down) + Len(o.frames))
          /\ (down \o o.frames)[i] = IF i <= Len(down) THEN down[i] ELSE o.frames[i - Len(down)]
      BY <3>1, <1>4, ConcatProperties
    <3>3. CASE i <= Len(down)
      BY <3>1, <3>2, <3>3 DEF FramesInv
    <3>4. CASE i > Len(down)
      <4>1. PICK k \in 1..Len(o.frames) : k = i - Len(down)
        BY <3>1, <3>2, <3>4
      <4>2. (down \o o.frames)[i] = o.frames[k]
        BY <3>1, <3>2, <3>4, <4>1
      <4> QED
        BY <4>2, <1>2 DEF Sound
    <3> QED
      BY <3>1, <3>2, <3>3, <3>4
  <2> QED
    BY <2>1, <2>2, <1>2 DEF FramesInv
<1>8. BeliefInv'
  <2> SUFFICES ASSUME NEW t \in Topics \ crossed
               PROVE  Brings(asked, t, view[t], down \o o.frames, o.joins[t])
    BY <1>2, <1>3 DEF BeliefInv
  <2>1. Brings(asked, t, view[t], down, channelJoins[t]) /\ down \in Seq(Frames)
          /\ view[t] \in Refs
    BY DEF BeliefInv, ChannelTypes
  <2>2. Says(asked, channelJoins, o.frames, o.joins) /\ t \in Topics
    BY <1>2 DEF Sound
  <2>3. \A u \in Topics, x \in Refs, d \in Seq(Frames) :
          Brings(asked, u, x, d, channelJoins[u])
            => Brings(asked, u, x, d \o o.frames, o.joins[u])
    BY <2>2 DEF Says
  <2> QED
    BY <2>1, <2>2, <2>3
<1>9. Chan!OneAnswerPerRef'
  <2> DEFINE OK(b) == IF b.hush THEN b.n = 0
                      ELSE IF b.err THEN b.n = 1 /\ b.refs = {NONE}
                      ELSE IF b.ref # NONE THEN b.n = 1 /\ b.refs = {b.ref}
                      ELSE b.n <= 1 /\ b.refs \subseteq {NONE}
  <2>1. OK(a)
    BY <1>2 DEF Sound, Answers
  <2>2. \A i \in DOMAIN answers : OK(answers[i])
    BY DEF Chan!OneAnswerPerRef
  <2>3. answers' = Append(answers, a)
    BY <1>2
  <2> HIDE DEF a, OK
  <2>4. \A i \in DOMAIN answers' : OK(answers'[i])
    BY <2>1, <2>2, <2>3, <1>5 DEF ChannelTypes
  <2> QED
    BY <2>4 DEF Chan!OneAnswerPerRef, OK
<1> QED
  BY <1>6, <1>7, <1>8, <1>9

\* A kick closes the membership the topic has, and says so under its join_ref or,
\* through an older Socket, under one the client discards: the topic is crossed.
LEMMA KickKeeps ==
  ASSUME ChannelConstants, ChannelInv, NEW t, NEW r, Chan!Kick(t, r) PROVE ChannelInv'
<1> DEFINE f == Chan!serialize(t, Chan!EV_CLOSE, NONE, r, NONE)
           p == Written(t, Chan!EV_CLOSE, NONE, r, NONE)
<1> USE DEF ChannelInv
<1>1. t \in Topics /\ r \in Refs /\ r # NONE
  BY DEF Chan!Kick, ChannelTypes
<1>2. f \in Frames /\ Chan!parse(f) = p
  <2>1. t \in Names /\ Chan!EV_CLOSE \in Words /\ NONE \in Refs /\ NONE \in Answered
    BY <1>1 DEF Names, Words, Refs, Answered
  <2> QED
    BY <2>1, <1>1, Put
<1>3. p.event = Chan!EV_CLOSE /\ p.join_ref = r /\ p.topic = t
  BY DEF Written
<1>4. HubFrame(asked, p)
  BY <1>1, <1>3, EventsDiffer DEF HubFrame
<1>5. /\ down' = Append(down, f) /\ channelJoins' = Chan!Without(t)
      /\ crossed' = IF channelJoins[t] \in {NONE, r} THEN crossed ELSE crossed \cup {t}
      /\ UNCHANGED <<channelUp, view, asked, channelSent, answers, sockets>>
  BY DEF Chan!Kick
<1>6. /\ channelJoins' \in [Topics -> Refs] /\ NONE \in Refs
      /\ \A u \in Topics : channelJoins'[u] = IF u = t THEN NONE ELSE channelJoins[u]
  BY <1>1, <1>5 DEF ChannelTypes, Chan!Without, Refs
<1> HIDE DEF f, p
<1>7. ChannelTypes'
  BY <1>2, <1>5, <1>6 DEF ChannelTypes
<1>8. FramesInv'
  <2>1. \A i \in 1..Len(down') : down'[i] = f \/ (i \in 1..Len(down) /\ down'[i] = down[i])
    <3>1. down \in Seq(Frames) /\ f \in Frames /\ down' = Append(down, f)
      BY <1>2, <1>5 DEF ChannelTypes
    <3> QED
      BY <3>1
  <2>2. \A i \in 1..Len(down') : HubFrame(asked', Chan!parse(down'[i]))
    BY <2>1, <1>2, <1>4, <1>5 DEF FramesInv
  <2> QED
    BY <2>2, <1>5, <1>6 DEF FramesInv
<1>9. BeliefInv'
  <2> SUFFICES ASSUME NEW u \in Topics \ crossed'
               PROVE  Brings(asked, u, view[u], Append(down, f), channelJoins'[u])
    BY <1>5 DEF BeliefInv
  <2>1. u \in Topics \ crossed /\ Brings(asked, u, view[u], down, channelJoins[u])
    BY <1>5 DEF BeliefInv
  <2>2. u = t => channelJoins[t] \in {NONE, r}
    BY <1>5
  <2>3. channelJoins'[u] = Told(asked, channelJoins[u], u, p)
    BY <2>1, <2>2, <1>1, <1>3, <1>6, EventsDiffer DEF Told
  <2>4. channelJoins[u] \in Refs /\ channelJoins'[u] \in Refs /\ down \in Seq(Frames)
    BY <1>6, <2>1 DEF ChannelTypes
  <2> QED
    BY <2>1, <2>3, <2>4, <1>2, BringsOneMore
<1>10. Chan!OneAnswerPerRef'
  BY <1>5 DEF Chan!OneAnswerPerRef
<1> QED
  BY <1>7, <1>8, <1>9, <1>10

\* The client sends a frame: one under a fresh ref, or one that is no envelope.
LEMMA ClientSends ==
  ASSUME ChannelConstants, ChannelInv, NEW f \in Frames \cup Chan!Malformed,
         NEW e \in Words \cup {<<>>},
         channelSent < MaxFrames, channelSent' = channelSent + 1, channelUp'
           = Append(channelUp, f), asked' = Append(asked, e),
         UNCHANGED <<channelJoins, down, view, answers, sockets, crossed, channelKicks>>,
         f \in Frames => ClientFrame(asked', Chan!parse(f))
  PROVE  ChannelInv'
<1> USE DEF ChannelInv
<1>1. ChannelTypes'
  <2>1. channelSent \in Nat /\ MaxFrames \in Nat /\ channelSent' \in 0..MaxFrames
    BY DEF ChannelTypes, ChannelConstants
  <2>2. channelUp' \in Seq(Frames \cup Chan!Malformed)
    BY DEF ChannelTypes
  <2>3. asked' \in Seq(Words \cup {<<>>}) /\ Len(asked') = channelSent'
    <3>1. asked \in Seq(Words \cup {<<>>}) /\ Len(asked) = channelSent
      BY DEF ChannelTypes
    <3> QED
      BY <3>1
  <2> QED
    BY <2>1, <2>2, <2>3 DEF ChannelTypes
<1>2. asked \in Seq(Words \cup {<<>>}) /\ Len(asked) < MaxFrames /\ down \in Seq(Frames)
      /\ channelUp \in Seq(Frames \cup Chan!Malformed)
  BY DEF ChannelTypes
<1>3. \A r, g : AskedFor(asked, r, g) => AskedFor(asked', r, g)
  BY <1>2 DEF AskedFor
<1>4. \A i \in 1..Len(channelUp') : channelUp'[i] \in Frames
        => ClientFrame(asked', Chan!parse(channelUp'[i]))
  <2> SUFFICES ASSUME NEW i \in 1..Len(channelUp'), channelUp'[i] \in Frames
               PROVE  ClientFrame(asked', Chan!parse(channelUp'[i]))
    OBVIOUS
  <2>1. channelUp'[i] = f \/ (i \in 1..Len(channelUp) /\ channelUp'[i] = channelUp[i])
    BY <1>2
  <2>2. CASE i \in 1..Len(channelUp) /\ channelUp'[i] = channelUp[i]
    <3>1. ClientFrame(asked, Chan!parse(channelUp[i]))
      BY <2>2 DEF FramesInv
    <3> QED
      BY <3>1, <2>2, <1>3 DEF ClientFrame
  <2> QED
    BY <2>1, <2>2
<1>5. \A i \in 1..Len(down) : HubFrame(asked, Chan!parse(down[i]))
  BY DEF FramesInv
<1>6. \A i \in 1..Len(down) : HubFrame(asked', Chan!parse(down[i]))
  <2>1. CASE Len(down) = 0
    BY <2>1
  <2>2. ASSUME NEW i \in 1..Len(down) PROVE HubFrame(asked', Chan!parse(down[i]))
    BY <1>3, <1>5 DEF HubFrame
  <2> QED
    BY <2>2
<1>7. FramesInv'
  BY <1>4, <1>6 DEF FramesInv
<1>8. BeliefInv'
  <2> SUFFICES ASSUME NEW t \in Topics \ crossed
               PROVE  Brings(Append(asked, e), t, view[t], down, channelJoins[t])
    BY DEF BeliefInv
  <2>1. Brings(asked, t, view[t], down, channelJoins[t])
    BY DEF BeliefInv
  <2> QED
    BY <2>1, <1>2, <1>5, BringsKept
<1>9. Chan!OneAnswerPerRef'
  BY DEF Chan!OneAnswerPerRef
<1> QED
  BY <1>1, <1>7, <1>8, <1>9

LEMMA SendKeepsChannel ==
  ASSUME ChannelConstants, ChannelInv, NEW t \in Names, NEW e \in Words, NEW j \in Refs,
         NEW r, r = NONE \/ r = Chan!Ref(channelSent + 1), Chan!Send(t, e, r, j),
         e \in {Chan!EV_JOIN, Chan!EV_LEAVE} => t \in Topics /\ r # NONE
  PROVE  ChannelInv'
<1> DEFINE f == Chan!serialize(t, e, r, j, NONE)
           p == Written(t, e, r, j, NONE)
<1>1. /\ channelSent \in Nat /\ channelSent < MaxFrames /\ channelSent' = channelSent + 1
           /\ channelUp' = Append(channelUp, f)
      /\ asked' = Append(asked, e)
           /\ UNCHANGED <<channelJoins, down, view, answers, sockets, crossed, channelKicks>>
      /\ asked \in Seq(Words \cup {<<>>}) /\ Len(asked) = channelSent
  BY DEF Chan!Send, ChannelInv, ChannelTypes
<1>2. PICK n \in 1..MaxFrames : n = channelSent + 1
  BY <1>1 DEF ChannelConstants
<1>3. r \in Refs /\ NONE \in Answered
  BY <1>2 DEF Refs, Answered
<1>4. f \in Frames /\ Chan!parse(f) = p
  BY <1>3, Put
<1>5. p.event = e /\ p.ref = r /\ p.topic = t
  BY DEF Written
<1>6. AskedFor(asked', Chan!Ref(n), e)
  <2>1. n \in 1..Len(asked') /\ asked'[n] = e
    BY <1>1, <1>2
  <2> QED
    BY <2>1 DEF AskedFor
<1>7. ClientFrame(asked', p)
  BY <1>2, <1>5, <1>6 DEF ClientFrame
<1> HIDE DEF f, p
<1> QED
  BY <1>1, <1>4, <1>7, ClientSends

\* Reading a frame takes the belief one step further.
LEMMA ReadKeeps ==
  ASSUME ChannelConstants, ChannelInv, Chan!Read PROVE ChannelInv'
<1> DEFINE env == Chan!parse(Head(down))
           n == CHOOSE i \in 0..channelSent :
                  (env.ref = NONE /\ i = 0) \/ (i > 0 /\ Chan!Ref(i) = env.ref)
<1> USE DEF ChannelInv
<1>1. /\ down # <<>> /\ down \in Seq(Frames) /\ Head(down) \in Frames /\ Head(down) = down[1]
      /\ 1 \in 1..Len(down) /\ down' = Tail(down) /\ Tail(down) \in Seq(Frames)
      /\ \A i \in 1..Len(Tail(down)) : i + 1 \in 1..Len(down) /\ Tail(down)[i] = down[i + 1]
      /\ UNCHANGED <<channelJoins, channelUp, asked, channelSent, answers, sockets, crossed,
           channelKicks>>
  BY DEF Chan!Read, ChannelTypes
<1>2. env \in Envelopes /\ HubFrame(asked, env)
  BY <1>1, Parsed DEF FramesInv
<1>3. /\ env.topic \in Topics \cup {Chan!CONTROL_TOPIC} /\ env.ref \in Refs
           /\ env.join_ref \in Refs
      /\ NONE \in Refs
  BY <1>2 DEF Envelopes, Names, Refs
<1>4. env.event = Chan!EV_REPLY => \A g : AskedFor(asked, env.ref, g) <=> asked[n] = g
  <2> SUFFICES ASSUME env.event = Chan!EV_REPLY, NEW g
               PROVE  AskedFor(asked, env.ref, g) <=> asked[n] = g
    OBVIOUS
  <2>0. channelSent \in Nat /\ Len(asked) = channelSent /\ channelSent <= MaxFrames
          /\ MaxFrames \in Nat
    BY DEF ChannelTypes, ChannelConstants
  <2>1. PICK k \in 1..channelSent : env.ref = Chan!Ref(k)
    BY <1>2, <2>0 DEF HubFrame, AskedFor
  <2>2. k \in 1..MaxFrames /\ env.ref # NONE
    BY <2>0, <2>1 DEF ChannelConstants
  <2>3. k \in 0..channelSent /\ k > 0
    BY <2>0
  <2> HIDE DEF env
  <2>4. n \in 0..channelSent /\ ((env.ref = NONE /\ n = 0) \/ (n > 0 /\ Chan!Ref(n) = env.ref))
    BY <2>1, <2>3
  <2> HIDE DEF n
  <2>5. n \in 1..MaxFrames /\ Chan!Ref(n) = env.ref /\ n \in 1..channelSent
    BY <2>0, <2>2, <2>4
  <2>6. \A m \in 1..channelSent : Chan!Ref(m) = env.ref => m = n
    <3> SUFFICES ASSUME NEW m \in 1..channelSent, Chan!Ref(m) = env.ref PROVE m = n
      OBVIOUS
    <3>1. m \in 1..MaxFrames
      BY <2>0
    <3> QED
      BY <3>1, <2>5 DEF ChannelConstants
  <2> QED
    BY <2>0, <2>5, <2>6 DEF AskedFor
<1>5. LET to(v) == view' = [view EXCEPT ![env.topic] = v] IN
      CASE env.event = Chan!EV_REPLY /\ asked[n] = Chan!EV_JOIN /\ env.topic \in Topics ->
             to(IF env.ok THEN env.join_ref ELSE NONE)
        [] env.event = Chan!EV_REPLY /\ asked[n] = Chan!EV_LEAVE
          /\ env.topic \in Topics -> to(NONE)
        [] env.event = Chan!EV_CLOSE /\ view[env.topic] = env.join_ref -> to(NONE)
        [] OTHER -> UNCHANGED view
  BY DEF Chan!Read
<1> HIDE DEF env, n
<1>6. /\ view \in [Topics -> Refs] /\ Chan!CONTROL_TOPIC \notin Topics
      /\ env.event = Chan!EV_REPLY => env.ok \in BOOLEAN
      /\ env.event = Chan!EV_CLOSE => env.topic \in Topics
  BY <1>2 DEF ChannelTypes, ChannelConstants, HubFrame
<1>7. /\ view' \in [Topics -> Refs]
      /\ \A t \in Topics : view'[t] = Told(asked, view[t], t, env)
  <2>1. CASE env.event = Chan!EV_REPLY /\ asked[n] = Chan!EV_JOIN /\ env.topic \in Topics
    <3>1. view' = [view EXCEPT ![env.topic] = IF env.ok THEN env.join_ref ELSE NONE]
      BY <1>5, <2>1, EventsDiffer
    <3>2. AskedFor(asked, env.ref, Chan!EV_JOIN)
      BY <1>4, <2>1
    <3> QED
      BY <3>1, <3>2, <1>3, <1>6, <2>1 DEF Told
  <2>2. CASE env.event = Chan!EV_REPLY /\ asked[n] = Chan!EV_LEAVE /\ env.topic \in Topics
    <3>1. view' = [view EXCEPT ![env.topic] = NONE]
      BY <1>5, <2>2, EventsDiffer
    <3>2. AskedFor(asked, env.ref, Chan!EV_LEAVE) /\ ~AskedFor(asked, env.ref, Chan!EV_JOIN)
      BY <1>4, <2>2, EventsDiffer
    <3> QED
      BY <3>1, <3>2, <1>3, <1>6, <2>2 DEF Told
  <2>3. CASE env.event = Chan!EV_REPLY
               /\ (asked[n] \notin {Chan!EV_JOIN, Chan!EV_LEAVE} \/ env.topic \notin Topics)
    <3>1. view' = view
      BY <1>5, <2>3, EventsDiffer
    <3>2. env.topic \in Topics =>
            ~AskedFor(asked, env.ref, Chan!EV_LEAVE) /\ ~AskedFor(asked, env.ref, Chan!EV_JOIN)
      BY <1>4, <2>3
    <3> QED
      BY <3>1, <3>2, <1>3, <1>6, <2>3, EventsDiffer DEF Told
  <2>4. CASE env.event = Chan!EV_CLOSE /\ view[env.topic] = env.join_ref
    <3>1. view' = [view EXCEPT ![env.topic] = NONE]
      BY <1>5, <2>4, EventsDiffer
    <3> QED
      BY <3>1, <1>3, <1>6, <2>4, EventsDiffer DEF Told
  <2>5. CASE env.event # Chan!EV_REPLY /\ ~(env.event = Chan!EV_CLOSE
               /\ view[env.topic] = env.join_ref)
    <3>1. view' = view
      BY <1>5, <2>5
    <3> QED
      BY <3>1, <1>3, <1>6, <2>5 DEF Told
  <2> QED
    BY <2>1, <2>2, <2>3, <2>4, <2>5
<1>8. ChannelTypes'
  BY <1>1, <1>7 DEF ChannelTypes
<1>9. FramesInv'
  <2>1. \A i \in 1..Len(down') : HubFrame(asked', Chan!parse(down'[i]))
    <3> SUFFICES ASSUME NEW i \in 1..Len(Tail(down))
                 PROVE  HubFrame(asked, Chan!parse(Tail(down)[i]))
      BY <1>1
    <3>1. PICK k \in 1..Len(down) : Tail(down)[i] = down[k]
      BY <1>1
    <3> QED
      BY <3>1 DEF FramesInv
  <2> QED
    BY <2>1, <1>1 DEF FramesInv
<1>10. BeliefInv'
  <2> SUFFICES ASSUME NEW t \in Topics \ crossed
               PROVE  Brings(asked, t, view'[t], Tail(down), channelJoins[t])
    BY <1>1 DEF BeliefInv
  <2>1. Brings(asked, t, view[t], down, channelJoins[t])
    BY DEF BeliefInv
  <2>2. Brings(asked, t, Told(asked, view[t], t, Chan!parse(Head(down))), Tail(down),
          channelJoins[t])
    BY <2>1, <1>1, BringsOneLess
  <2> QED
    BY <2>2, <1>7 DEF env
<1>11. Chan!OneAnswerPerRef'
  BY <1>1 DEF Chan!OneAnswerPerRef
<1> QED
  BY <1>8, <1>9, <1>10, <1>11

LEMMA ChannelStarts ==
  ASSUME ChannelConstants, Chan!Init PROVE ChannelInv
<1>1. /\ channelJoins = [t \in Topics |-> NONE] /\ view = channelJoins /\ channelUp = <<>>
           /\ down = <<>>
      /\ asked = <<>> /\ channelSent = 0 /\ answers = <<>> /\ sockets = {}
  BY DEF Chan!Init
<1>2. Len(<<>>) = 0 /\ 1..0 = {} /\ DOMAIN <<>> = {} /\ NONE \in Refs /\ 0 \in 0..MaxFrames
  BY DEF Refs, ChannelConstants
<1>3. ChannelTypes
  BY <1>1, <1>2 DEF ChannelTypes
<1>4. FramesInv
  BY <1>1, <1>2 DEF FramesInv
<1>5. BeliefInv
  <2> SUFFICES ASSUME NEW t \in Topics PROVE Brings(asked, t, view[t], down, channelJoins[t])
    BY DEF BeliefInv
  <2> DEFINE v == [i \in 0..0 |-> NONE]
  <2>1. v \in [0..0 -> Refs] /\ v[0] = NONE /\ view[t] = NONE /\ channelJoins[t] = NONE
    BY <1>1, <1>2
  <2> HIDE DEF v
  <2> QED
    BY <2>1, <1>1, <1>2 DEF Brings
<1>6. Chan!OneAnswerPerRef
  BY <1>1, <1>2 DEF Chan!OneAnswerPerRef
<1> QED
  BY <1>3, <1>4, <1>5, <1>6 DEF ChannelInv

LEMMA ChannelSteps ==
  ASSUME ChannelConstants, ChannelInv, [Chan!Next]_(Chan!vars) PROVE ChannelInv'
<1>1. CASE Chan!OnMessage
  BY <1>1, HubKeeps
<1>2. CASE Chan!Read
  BY <1>2, ReadKeeps
<1>3. ASSUME NEW t \in Topics, Chan!SendJoin(t) PROVE ChannelInv'
  <2>1. PICK j \in {NONE, Chan!Ref(channelSent + 1)} :
          Chan!Send(t, Chan!EV_JOIN, Chan!Ref(channelSent + 1), j)
    BY <1>3 DEF Chan!SendJoin
  <2>2. Chan!Ref(channelSent + 1) \in Refs /\ Chan!Ref(channelSent + 1) # NONE /\ NONE \in Refs
    <3>1. channelSent + 1 \in 1..MaxFrames
      BY <2>1 DEF Chan!Send, ChannelInv, ChannelTypes, ChannelConstants
    <3> QED
      BY <3>1 DEF Refs, ChannelConstants
  <2>3. t \in Names /\ Chan!EV_JOIN \in Words
    BY DEF Names, Words
  <2> QED
    BY <2>1, <2>2, <2>3, SendKeepsChannel
<1>4. ASSUME NEW t \in Topics, Chan!SendLeave(t) PROVE ChannelInv'
  <2>1. Chan!Send(t, Chan!EV_LEAVE, Chan!Ref(channelSent + 1), view[t])
    BY <1>4 DEF Chan!SendLeave
  <2>2. Chan!Ref(channelSent + 1) # NONE
    <3>1. channelSent + 1 \in 1..MaxFrames
      BY <2>1 DEF Chan!Send, ChannelInv, ChannelTypes, ChannelConstants
    <3> QED
      BY <3>1 DEF ChannelConstants
  <2>3. t \in Names /\ Chan!EV_LEAVE \in Words /\ view[t] \in Refs
    BY DEF Names, Words, ChannelInv, ChannelTypes
  <2> QED
    BY <2>1, <2>2, <2>3, SendKeepsChannel
<1>5. ASSUME NEW t \in Names, NEW e \in Chan!Events
             \cup {Chan!EV_HEARTBEAT}, Chan!SendEvent(t, e) PROVE ChannelInv'
  <2>1. PICK r \in {NONE, Chan!Ref(channelSent + 1)} : Chan!Send(t, e, r, NONE)
    BY <1>5 DEF Chan!SendEvent
  <2>2. e \in Words /\ e # Chan!EV_JOIN /\ e # Chan!EV_LEAVE /\ NONE \in Refs
    BY WordsAreWords, EventsDiffer DEF Words, Refs
  <2> QED
    BY <2>1, <2>2, SendKeepsChannel
<1>6. ASSUME NEW f \in Chan!Malformed, Chan!SendOther(f) PROVE ChannelInv'
  <2>1. f \notin Frames
    <3>1. Chan!parse(f).err = TRUE
      BY Parsed DEF Chan!ParseError
    <3>2. \A g \in Frames : Chan!parse(g).err = FALSE
      BY Parsed DEF Envelopes
    <3> QED
      BY <3>1, <3>2
  <2>2. /\ channelSent < MaxFrames /\ channelSent' = channelSent + 1
             /\ channelUp' = Append(channelUp, f) /\ asked' = Append(asked, <<>>)
        /\ UNCHANGED <<channelJoins, down, view, answers, sockets, crossed, channelKicks>>
    BY <1>6 DEF Chan!SendOther
  <2> QED
    BY <2>1, <2>2, ClientSends
<1>7. ASSUME NEW s \in sockets, Chan!Kick(s[1], s[2]) PROVE ChannelInv'
  BY <1>7, KickKeeps
<1>8. CASE UNCHANGED Chan!vars
  <2>1. UNCHANGED <<channelJoins, channelUp, down, view, asked, channelSent, answers, sockets,
          crossed, channelKicks>>
    BY <1>8 DEF Chan!vars
  <2>2. ChannelTypes' = ChannelTypes /\ FramesInv' = FramesInv /\ BeliefInv' = BeliefInv
        /\ Chan!OneAnswerPerRef' = Chan!OneAnswerPerRef
    BY <2>1 DEF ChannelTypes, FramesInv, BeliefInv, Chan!OneAnswerPerRef
  <2> QED
    BY <2>2 DEF ChannelInv
<1>9. CASE Chan!Next
  <2>1. Topics \subseteq Names /\ Chan!CONTROL_TOPIC \in Names
          /\ Chan!Events \subseteq Chan!Events \cup {Chan!EV_HEARTBEAT}
        /\ Chan!EV_HEARTBEAT \in Chan!Events \cup {Chan!EV_HEARTBEAT}
    BY DEF Names
  <2> QED
    BY <2>1, <1>1, <1>2, <1>3, <1>4, <1>5, <1>6, <1>7, <1>9 DEF Chan!Next
<1> QED
  BY <1>8, <1>9

LEMMA ChannelSafe ==
  ASSUME ChannelInv PROVE Chan!OneAnswerPerRef /\ Chan!ViewsAgree
<1>1. ASSUME down = <<>>, NEW t \in Topics \ crossed PROVE view[t] = channelJoins[t]
  <2>1. Brings(asked, t, view[t], down, channelJoins[t]) /\ Len(down) = 0
    BY <1>1 DEF ChannelInv, BeliefInv
  <2> QED
    BY <2>1 DEF Brings
<1> QED
  BY <1>1 DEF ChannelInv, Chan!ViewsAgree

LEMMA ChannelInductive ==
  ASSUME ChannelConstants
  PROVE  Chan!Spec => []ChannelInv
<1>1. Chan!Init => ChannelInv
  BY ChannelStarts
<1>2. ChannelInv /\ [Chan!Next]_(Chan!vars) => ChannelInv'
  BY ChannelSteps
<1> QED
  BY <1>1, <1>2, PTL DEF Chan!Spec

\* A frame with a ref causes one answer with that ref, a frame without one no
\* reply, a frame that is no envelope one error (on_message, reply, error_reply).
THEOREM RefsAreAnswered ==
  ASSUME ChannelConstants
  PROVE  Chan!Spec => []Chan!OneAnswerPerRef
BY ChannelInductive, ChannelSafe, PTL

\* A client that has read all its frames believes in the memberships the hub
\* has, rejoins that are refused and kicks by its own handlers included.
THEOREM ClientsCatchUp ==
  ASSUME ChannelConstants
  PROVE  Chan!Spec => []Chan!ViewsAgree
BY ChannelInductive, ChannelSafe, PTL

=============================================================================
