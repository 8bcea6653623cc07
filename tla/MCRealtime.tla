----------------------------- MODULE MCRealtime -----------------------------
(***************************************************************************)
(* The runs of the actors, the channels, presence and the broker.  A       *)
(* behaviour takes the steps of one component, chosen by part.             *)
(***************************************************************************)
EXTENDS Integers, Sequences, TLAPS

CONSTANTS Parts, NumChildren, Policies, Strategies, MaxRestarts, MaxExits,
          MaxTime, NONE

\* The component whose steps a behaviour takes.
VARIABLE part

VARIABLES strategy, spc, cur, from, ending, supInbox, recent, supGen, join,
          stat, restarts, thr, stopq, now, exits, supShutdown, events
VARIABLES supervised, boxGen, thread, box, mlen, kept, cpc, call, ref, chan,
          result, boxOps, drift
VARIABLES conn, hubJoins, topic, tracked, subs, hubNextSub, th, made, admitted,
          left, contested, casts, hubKicks
VARIABLES channelJoins, channelUp, down, view, asked, channelSent, answers,
          sockets, crossed, channelKicks
VARIABLES presUp, local, entry, remote, live, presNextSub, presInbox, pend,
          due, presOps, presFaults
VARIABLES heard, publisher, mutex, pc, attempt, psSent, again, listener, queue,
          buffered, handles, psShutdown, psFaults

Off == "off"

\* Two topics; the first pattern is shadowed by nothing, the second is a
\* wildcard that also matches the first one's topic.
Rooms == {<<"room", "1">>, <<"lobby">>}
RoomChannels ==
  <<[pattern |-> <<"room", "1">>, handles |-> {<<"say">>}],
    [pattern |-> <<"room", "*">>, handles |-> {<<"sing">>}]>>

\* One child of each policy, the permanent one first; or all permanent.
Mixed == <<"Permanent", "Transient", "Temporary">>
AllPermanent == [c \in 1..NumChildren |-> "Permanent"]

\* The pod of each connection.
Homes == [c \in {"c1", "c2"} |-> IF c = "c1" THEN "p" ELSE "q"]

\* What runs in an application's processes, with what is proved about it.  The
\* hub has three joins and a kick; or two joins, a kick and a broadcast.
All == INSTANCE RealtimeProofs
  WITH N <- NumChildren, Policy <- Policies, Window <- 1,
       Clients <- {"c1", "c2"}, Cap <- 2, Word <- 8, MaxGen <- 2, MaxOps <- 3,
       gen <- boxGen, ops <- boxOps,
       Conns <- {"c1", "c2"}, Others <- {"o"}, MaxJoins <- 3, MaxCasts <- 0,
       MaxKicks <- 1, joins <- hubJoins, kicks <- hubKicks,
       Pods <- {"p", "q"}, Keys <- {"k"}, Home <- Homes, PresenceOps <- 2,
       MaxFaults <- 1, up <- presUp, nextSub <- presNextSub, inbox <- presInbox,
       Publishers <- {"a", "b"}, PublisherPod <- [t \in {"a", "b"} |-> "p"],
       MaxMsgs <- 2, sent <- psSent, shutdown <- psShutdown,
       Topics <- Rooms, Channels <- RoomChannels, MaxFrames <- 3,
       ClientKicks <- 1

Cast == INSTANCE RealtimeProofs
  WITH N <- NumChildren, Policy <- Policies, Window <- 1,
       Clients <- {"c1", "c2"}, Cap <- 2, Word <- 8, MaxGen <- 2, MaxOps <- 3,
       gen <- boxGen, ops <- boxOps,
       Conns <- {"c1", "c2"}, Others <- {"o"}, MaxJoins <- 2, MaxCasts <- 1,
       MaxKicks <- 1, joins <- hubJoins, kicks <- hubKicks,
       Pods <- {"p", "q"}, Keys <- {"k"}, Home <- Homes, PresenceOps <- 2,
       MaxFaults <- 1, up <- presUp, nextSub <- presNextSub, inbox <- presInbox,
       Publishers <- {"a", "b"}, PublisherPod <- [t \in {"a", "b"} |-> "p"],
       MaxMsgs <- 2, sent <- psSent, shutdown <- psShutdown,
       Topics <- Rooms, Channels <- RoomChannels, MaxFrames <- 3,
       ClientKicks <- 1

supervisorVars == <<strategy, spc, cur, from, ending, supInbox, recent, supGen,
                    join, stat, restarts, thr, stopq, now, exits, supShutdown,
                    events>>
mailboxVars == <<supervised, boxGen, thread, box, mlen, kept, cpc, call, ref,
                 chan, result, boxOps, drift>>
hubVars == <<conn, hubJoins, topic, tracked, subs, hubNextSub, th, made,
             admitted, left, contested, casts, hubKicks>>
channelVars == <<channelJoins, channelUp, down, view, asked, channelSent,
                 answers, sockets, crossed, channelKicks>>
presenceVars == <<presUp, local, entry, remote, live, presNextSub, presInbox,
                  pend, due, presOps, presFaults>>
pubsubVars == <<heard, publisher, mutex, pc, attempt, psSent, again, listener,
                queue, buffered, handles, psShutdown, psFaults>>
allVars == <<part, supervisorVars, mailboxVars, hubVars, channelVars,
             presenceVars, pubsubVars>>

MCInit ==
  /\ part \in Parts
  /\ \/ /\ part = "supervisor" /\ All!Sup!Init
     \/ /\ part # "supervisor"
        /\ strategy = Off /\ spc = Off /\ cur = Off /\ from = Off
        /\ ending = Off /\ supInbox = Off /\ recent = Off /\ supGen = Off
        /\ join = Off /\ stat = Off /\ restarts = Off /\ thr = Off
        /\ stopq = Off /\ now = Off /\ exits = Off /\ supShutdown = Off
        /\ events = Off
  /\ \/ /\ part = "mailbox" /\ All!Init
     \/ /\ part # "mailbox"
        /\ supervised = Off /\ boxGen = Off /\ thread = Off /\ box = Off
        /\ mlen = Off /\ kept = Off /\ cpc = Off /\ call = Off /\ ref = Off
        /\ chan = Off /\ result = Off /\ boxOps = Off /\ drift = Off
  /\ \/ /\ part = "hub" /\ All!Hub!Init
     \/ /\ part = "hub_cast" /\ Cast!Hub!Init
     \/ /\ part \notin {"hub", "hub_cast"}
        /\ conn = Off /\ hubJoins = Off /\ topic = Off /\ tracked = Off
        /\ subs = Off /\ hubNextSub = Off /\ th = Off /\ made = Off
        /\ admitted = Off /\ left = Off /\ contested = Off /\ casts = Off
        /\ hubKicks = Off
  /\ \/ /\ part = "channel" /\ All!Chan!Init
     \/ /\ part # "channel"
        /\ channelJoins = Off /\ channelUp = Off /\ down = Off /\ view = Off
        /\ asked = Off /\ channelSent = Off /\ answers = Off /\ sockets = Off
        /\ crossed = Off /\ channelKicks = Off
  /\ \/ /\ part = "presence" /\ All!Presence!Init
     \/ /\ part # "presence"
        /\ presUp = Off /\ local = Off /\ entry = Off /\ remote = Off
        /\ live = Off /\ presNextSub = Off /\ presInbox = Off /\ pend = Off
        /\ due = Off /\ presOps = Off /\ presFaults = Off
  /\ \/ /\ part = "pubsub" /\ All!PubSub!Init
     \/ /\ part # "pubsub"
        /\ heard = Off /\ publisher = Off /\ mutex = Off /\ pc = Off
        /\ attempt = Off /\ psSent = Off /\ again = Off /\ listener = Off
        /\ queue = Off /\ buffered = Off /\ handles = Off /\ psShutdown = Off
        /\ psFaults = Off

\* The components that are not under test keep still.
Rest ==
  /\ part' = part
  /\ part # "supervisor" => UNCHANGED supervisorVars
  /\ part # "mailbox" => UNCHANGED mailboxVars
  /\ part \notin {"hub", "hub_cast"} => UNCHANGED hubVars
  /\ part # "channel" => UNCHANGED channelVars
  /\ part # "presence" => UNCHANGED presenceVars
  /\ part # "pubsub" => UNCHANGED pubsubVars

SupervisorStep == part = "supervisor" /\ All!Sup!Next /\ Rest
MailboxStep == part = "mailbox" /\ All!Next /\ Rest
HubStep == part = "hub" /\ All!Hub!Next /\ Rest
HubCastStep == part = "hub_cast" /\ Cast!Hub!Next /\ Rest
ChannelStep == part = "channel" /\ All!Chan!Next /\ Rest
PresenceStep == part = "presence" /\ All!Presence!Next /\ Rest
PubsubStep == part = "pubsub" /\ All!PubSub!Next /\ Rest

MCNext ==
  \/ SupervisorStep \/ MailboxStep \/ HubStep \/ HubCastStep \/ ChannelStep \/
     PresenceStep \/ PubsubStep

MCSpec == MCInit /\ [][MCNext]_allVars

ASSUME RealtimeConstants ==
  /\ All!Sup!SupervisorConstants /\ All!MailboxConstants
  /\ All!Hub!HubConstants /\ Cast!Hub!HubConstants /\ All!ChannelConstants
  /\ All!Presence!PresenceConstants /\ All!PubSub!PubSubConstants

(***************************************************************************)
(* What the runs check.                                                    *)
(***************************************************************************)

\* Whatever children crash, stop and exit late: a child has one thread at a
\* time, its status is the truth about that thread, no exit is lost or taken
\* for that of a later generation, a restart covers the group its strategy
\* names, and a supervisor that has ended has left nobody running.
SupervisionHolds ==
  part = "supervisor" =>
    /\ All!Sup!TypeOK /\ All!Sup!OneGeneration /\ All!Sup!StatusTruth /\ All!Sup!ReapReady
    /\ All!Sup!NoExitLost /\ All!Sup!RestartScope /\ All!Sup!AllDownAtEnd

\* The length counter of a mailbox, kept beside the channel by senders and by
\* the actor, is off by no more than the sends that are under way, and an ask
\* that is still open is held by the actor or stands in its mailbox.
MailboxHolds ==
  part = "mailbox" => All!TypeOK /\ All!LenAccounting /\ All!OpenAskIsHeld

\* Joins, rejoins, kicks, closes and broadcasts over the hub's two locks: the
\* hub is subscribed to a topic's broker channel while it has members, leave
\* is called once per membership that has ended, the two maps agree about a
\* connection nobody works on, and a broadcast reaches everybody who was a
\* member all along.
MembershipsHold ==
  /\ part = "hub" =>
       All!Hub!TypeOK /\ All!Hub!SubscribedWhileMembers /\ All!Hub!LeftOnce /\ All!Hub!MapsAgree
  /\ part = "hub_cast" =>
       /\ Cast!Hub!TypeOK /\ Cast!Hub!SubscribedWhileMembers /\ Cast!Hub!LeftOnce
       /\ Cast!Hub!MapsAgree /\ Cast!Hub!SteadyMembersHear

\* What a client knows: every frame with a ref is answered exactly once, and a
\* client that has read all its frames thinks it is on exactly the topics on
\* which the hub has it, kicks and refused rejoins included.
ClientsKnow == part = "channel" => All!Chan!OneAnswerPerRef /\ All!Chan!ViewsAgree

\* A pod listens to the presence topic while it tracks anybody, and a message
\* reaches a subscriber of the PostgreSQL broker once and in order; only the
\* publisher's one retry can repeat it.
PodsHear ==
  /\ part = "presence" => All!Presence!TypeOK /\ All!Presence!ListensWhileTracking
  /\ part = "pubsub" => All!PubSub!OnlyRetriesRepeat /\ All!PubSub!InOrder

\* Strategy::OneForOne as documented, "Restart only the child that exited": a
\* child is restarted only for exits of its own.
OneForOneAlone == part = "supervisor" => All!Sup!OneForOneAlone

(***************************************************************************)
(* What the proofs of the components say of the runs' behaviours.          *)
(***************************************************************************)

LEMMA SupervisorPart ==
  MCSpec => [](part = "supervisor" => All!SupervisorInv)
<1> DEFINE I == part = "supervisor" => All!SupervisorInv
<1>1. MCInit => I
  BY RealtimeConstants, All!SupervisorInit DEF MCInit
<1>2. I /\ [MCNext]_allVars => I'
  <2> SUFFICES ASSUME I, [MCNext]_allVars, part' = "supervisor"
               PROVE  All!SupervisorInv'
    OBVIOUS
  <2>1. CASE SupervisorStep
    BY <2>1, RealtimeConstants, All!SupervisorNext DEF SupervisorStep
  <2>2. CASE UNCHANGED allVars
    <3>1. part = "supervisor" /\ UNCHANGED All!Sup!vars
      BY <2>2 DEF allVars, supervisorVars, All!Sup!vars
    <3> QED
      BY <3>1, RealtimeConstants, All!SupervisorNext
  <2> QED
    BY <2>1, <2>2 DEF MCNext, Rest, MailboxStep, HubStep, HubCastStep, ChannelStep,
       PresenceStep, PubsubStep
<1> QED
  BY <1>1, <1>2, PTL DEF MCSpec

\* Supervision is safe with any number of children, policies, strategies and
\* limits of restarts.
THEOREM SupervisionIsSafe == MCSpec => []SupervisionHolds
<1>1. (part = "supervisor" => All!SupervisorInv) => SupervisionHolds
  BY RealtimeConstants, All!SupervisorSafe DEF SupervisionHolds, All!SupervisorInv
<1> QED
  BY <1>1, SupervisorPart, PTL

LEMMA MailboxPart ==
  MCSpec => [](part = "mailbox" => All!MailboxInv)
<1> DEFINE I == part = "mailbox" => All!MailboxInv
<1>1. MCInit => I
  BY RealtimeConstants, All!MailboxInit DEF MCInit
<1>2. I /\ [MCNext]_allVars => I'
  <2> SUFFICES ASSUME I, [MCNext]_allVars, part' = "mailbox"
               PROVE  All!MailboxInv'
    OBVIOUS
  <2>1. CASE MailboxStep
    BY <2>1, RealtimeConstants, All!MailboxNext DEF MailboxStep
  <2>2. CASE UNCHANGED allVars
    <3>1. part = "mailbox" /\ UNCHANGED All!vars
      BY <2>2 DEF allVars, mailboxVars, All!vars
    <3> QED
      BY <3>1, RealtimeConstants, All!MailboxNext
  <2> QED
    BY <2>1, <2>2 DEF MCNext, Rest, SupervisorStep, HubStep, HubCastStep, ChannelStep,
       PresenceStep, PubsubStep
<1> QED
  BY <1>1, <1>2, PTL DEF MCSpec

\* The mailbox's length counter and its open asks, in the setting of the run.
THEOREM MailboxesAreKept == MCSpec => []MailboxHolds
<1>1. (part = "mailbox" => All!MailboxInv) => MailboxHolds
  BY DEF MailboxHolds, All!MailboxInv
<1> QED
  BY <1>1, MailboxPart, PTL

LEMMA HubPart ==
  MCSpec => [](/\ part = "hub" => All!HubInv
               /\ part = "hub_cast" => Cast!HubInv)
<1> DEFINE I == part = "hub" => All!HubInv
           J == part = "hub_cast" => Cast!HubInv
<1>1. MCInit => I
  BY RealtimeConstants, All!HubInit DEF MCInit
<1>2. MCInit => J
  BY RealtimeConstants, Cast!HubInit DEF MCInit
<1>3. I /\ [MCNext]_allVars => I'
  <2> SUFFICES ASSUME I, [MCNext]_allVars, part' = "hub"
               PROVE  All!HubInv'
    OBVIOUS
  <2>1. CASE HubStep
    BY <2>1, RealtimeConstants, All!HubNext DEF HubStep
  <2>2. CASE UNCHANGED allVars
    <3>1. part = "hub" /\ UNCHANGED All!Hub!vars
      BY <2>2 DEF allVars, hubVars, All!Hub!vars
    <3> QED
      BY <3>1, RealtimeConstants, All!HubNext
  <2> QED
    BY <2>1, <2>2 DEF MCNext, Rest, SupervisorStep, MailboxStep, HubCastStep, ChannelStep,
       PresenceStep, PubsubStep
<1>4. J /\ [MCNext]_allVars => J'
  <2> SUFFICES ASSUME J, [MCNext]_allVars, part' = "hub_cast"
               PROVE  Cast!HubInv'
    OBVIOUS
  <2>1. CASE HubCastStep
    BY <2>1, RealtimeConstants, Cast!HubNext DEF HubCastStep
  <2>2. CASE UNCHANGED allVars
    <3>1. part = "hub_cast" /\ UNCHANGED Cast!Hub!vars
      BY <2>2 DEF allVars, hubVars, Cast!Hub!vars
    <3> QED
      BY <3>1, RealtimeConstants, Cast!HubNext
  <2> QED
    BY <2>1, <2>2 DEF MCNext, Rest, SupervisorStep, MailboxStep, HubStep, ChannelStep,
       PresenceStep, PubsubStep
<1> QED
  BY <1>1, <1>2, <1>3, <1>4, PTL DEF MCSpec

\* The hub keeps its memberships in both of the runs' settings.
THEOREM MembershipsAreKept == MCSpec => []MembershipsHold
<1>1. (part = "hub" => All!HubInv) /\ (part = "hub_cast" => Cast!HubInv) => MembershipsHold
  BY RealtimeConstants, All!HubSafe, Cast!HubSafe
     DEF MembershipsHold, All!HubInv, Cast!HubInv
<1> QED
  BY <1>1, HubPart, PTL

LEMMA PodsPart ==
  MCSpec => [](/\ part = "presence" => All!PresenceInv
               /\ part = "pubsub" => All!PubSubInv)
<1> DEFINE I == part = "presence" => All!PresenceInv
           J == part = "pubsub" => All!PubSubInv
<1>1. MCInit => I
  BY RealtimeConstants, All!PresenceInit DEF MCInit
<1>2. MCInit => J
  BY RealtimeConstants, All!BrokerInit DEF MCInit
<1>3. I /\ [MCNext]_allVars => I'
  <2> SUFFICES ASSUME I, [MCNext]_allVars, part' = "presence"
               PROVE  All!PresenceInv'
    OBVIOUS
  <2>1. CASE PresenceStep
    BY <2>1, RealtimeConstants, All!PresenceNext DEF PresenceStep
  <2>2. CASE UNCHANGED allVars
    <3>1. part = "presence" /\ UNCHANGED All!Presence!vars
      BY <2>2 DEF allVars, presenceVars, All!Presence!vars
    <3> QED
      BY <3>1, RealtimeConstants, All!PresenceNext
  <2> QED
    BY <2>1, <2>2 DEF MCNext, Rest, SupervisorStep, MailboxStep, HubStep, HubCastStep,
       ChannelStep, PubsubStep
<1>4. J /\ [MCNext]_allVars => J'
  <2> SUFFICES ASSUME J, [MCNext]_allVars, part' = "pubsub"
               PROVE  All!PubSubInv'
    OBVIOUS
  <2>1. CASE PubsubStep
    BY <2>1, RealtimeConstants, All!BrokerNext DEF PubsubStep
  <2>2. CASE UNCHANGED allVars
    <3>1. part = "pubsub" /\ UNCHANGED All!PubSub!vars
      BY <2>2 DEF allVars, pubsubVars, All!PubSub!vars
    <3> QED
      BY <3>1, RealtimeConstants, All!BrokerNext
  <2> QED
    BY <2>1, <2>2 DEF MCNext, Rest, SupervisorStep, MailboxStep, HubStep, HubCastStep,
       ChannelStep, PresenceStep
<1> QED
  BY <1>1, <1>2, <1>3, <1>4, PTL DEF MCSpec

\* Pods listen while they track anybody, and what is published reaches their
\* subscribers once and in order, in the setting of the run.
THEOREM PodsAreHeard == MCSpec => []PodsHear
<1>1. /\ part = "presence" => All!PresenceInv
      /\ part = "pubsub" => All!PubSubInv
      => PodsHear
  BY RealtimeConstants, All!PresenceSafe, All!BrokerSafe DEF PodsHear
<1> QED
  BY <1>1, PodsPart, PTL

LEMMA ChannelPart ==
  MCSpec => [](part = "channel" => All!ChannelInv)
<1> DEFINE I == part = "channel" => All!ChannelInv
<1>1. MCInit => I
  BY RealtimeConstants, All!ChannelStarts DEF MCInit
<1>2. I /\ [MCNext]_allVars => I'
  <2> SUFFICES ASSUME I, [MCNext]_allVars, part' = "channel"
               PROVE  All!ChannelInv'
    OBVIOUS
  <2>1. CASE ChannelStep
    BY <2>1, RealtimeConstants, All!ChannelSteps DEF ChannelStep
  <2>2. CASE UNCHANGED allVars
    <3>1. part = "channel" /\ UNCHANGED All!Chan!vars
      BY <2>2 DEF allVars, channelVars, All!Chan!vars
    <3> QED
      BY <3>1, RealtimeConstants, All!ChannelSteps
  <2> QED
    BY <2>1, <2>2 DEF MCNext, Rest, SupervisorStep, MailboxStep, HubStep, HubCastStep,
       PresenceStep, PubsubStep
<1> QED
  BY <1>1, <1>2, PTL DEF MCSpec

\* Clients are answered and know their memberships, in the setting of the run.
THEOREM ClientsAreRight == MCSpec => []ClientsKnow
<1>1. (part = "channel" => All!ChannelInv) => ClientsKnow
  BY All!ChannelSafe DEF ClientsKnow
<1> QED
  BY <1>1, ChannelPart, PTL

=============================================================================
