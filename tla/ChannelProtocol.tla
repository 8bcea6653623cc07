-------------------------- MODULE ChannelProtocol --------------------------
(***************************************************************************)
(* The conversation of one client with the channel hub: the envelopes of   *)
(* crates/sutegi-channels (src/protocol.rs), how the hub routes and        *)
(* answers them (src/hub.rs), and the patterns channels register           *)
(* (src/channel.rs).  Module Hub has the locks and the other threads; here *)
(* one frame is handled at a time, and what matters is what the client can *)
(* conclude from the frames that come back.                                *)
(*                                                                         *)
(* Topics, events and refs are sequences of letters.  A JSON value of an   *)
(* envelope field is a string, null or something else; payloads are left   *)
(* out.  The client is external: it follows the protocol's description and *)
(* gives every join and leave a ref of its own.                            *)
(***************************************************************************)
EXTENDS Naturals, Sequences, SequencesExt, FiniteSets, TLC

CONSTANTS
  Topics,     \* the topics the client speaks about
  Channels,   \* the registered channels in their order: pattern and handled events
  MaxFrames,  \* bound: frames the client sends
  MaxKicks,   \* bound: kicks by other threads
  NONE

VARIABLES
  joins,      \* conns[c].joins: the join_ref of the membership in each topic, or NONE
  up, down,   \* frames under way, to the hub and to the client
  view,       \* the client's idea of joins
  asked,      \* what the client asked under each ref
  sent,       \* frames sent by the client
  answers,    \* how many replies and errors each handled frame has caused
  sockets,    \* memberships of which some thread may hold the Socket
  crossed,    \* topics kicked through a Socket of an earlier membership
  kicks

vars == <<joins, up, down, view, asked, sent, answers, sockets, crossed, kicks>>

Text(s) == [k |-> "str", s |-> s]
Number == [k |-> "number", s |-> <<>>]
Ref(n) == <<ToString(n)>>

CONTROL_TOPIC == <<"stg">>
RESERVED_PREFIX == "stg:"
EV_JOIN == <<"stg:", "join">>
EV_LEAVE == <<"stg:", "leave">>
EV_REPLY == <<"stg:", "reply">>
EV_ERROR == <<"stg:", "error">>
EV_CLOSE == <<"stg:", "close">>
EV_HEARTBEAT == <<"heartbeat">>

Reserved(event) == event # <<>> /\ Head(event) = RESERVED_PREFIX

(***************************************************************************)
(* Envelopes.  A frame is "binary", "broken" (no JSON object) or the       *)
(* fields of an object.                                                    *)
(***************************************************************************)
ParseError == [err |-> TRUE, topic |-> <<>>, event |-> <<>>, ref |-> NONE, join_ref |-> NONE, ok |-> NONE]

HasText(obj, k) == k \in DOMAIN obj /\ obj[k].k = "str"
OptOk(obj, k) == k \in DOMAIN obj => obj[k].k \in {"str", "null"}
Opt(obj, k) == IF HasText(obj, k) THEN obj[k].s ELSE NONE

parse(frame) ==
  LET obj == frame.obj IN
  IF /\ frame.kind = "object"
     /\ HasText(obj, "topic") /\ HasText(obj, "event")
     /\ obj["topic"].s # <<>> /\ obj["event"].s # <<>>
     /\ OptOk(obj, "ref") /\ OptOk(obj, "join_ref")
    THEN [err |-> FALSE, topic |-> obj["topic"].s, event |-> obj["event"].s,
          ref |-> Opt(obj, "ref"), join_ref |-> Opt(obj, "join_ref"), ok |-> frame.ok]
    ELSE ParseError

\* The payload of a reply is its status; other frames have none here.
serialize(topic, event, ref, join_ref, ok) ==
  LET field == [topic |-> topic, event |-> event, ref |-> ref, join_ref |-> join_ref]
      given == {"topic", "event"} \cup {k \in {"ref", "join_ref"} : field[k] # NONE}
  IN [kind |-> "object", ok |-> ok, obj |-> [k \in given |-> Text(field[k])]]

topic_matches(pattern, topic) ==
  IF pattern # <<>> /\ Last(pattern) = "*" THEN IsPrefix(Front(pattern), topic)
  ELSE pattern = topic

\* Channel::new and Channel::on refuse the reserved names, so no channel has them.
ChannelsLegal ==
  \A i \in DOMAIN Channels :
    /\ Channels[i].pattern \notin {<<>>, CONTROL_TOPIC} /\ ~Reserved(Channels[i].pattern)
    /\ \A e \in Channels[i].handles : e # <<>> /\ ~Reserved(e)

\* The first registered channel that matches, or 0.
channel_for(topic) ==
  LET hits == {i \in DOMAIN Channels : topic_matches(Channels[i].pattern, topic)}
  IN IF hits = {} THEN 0 ELSE CHOOSE i \in hits : \A j \in hits : i <= j

reply(env, join_ref, ok) ==
  IF env.ref = NONE THEN <<>> ELSE <<serialize(env.topic, EV_REPLY, env.ref, join_ref, ok)>>

error_reply(env) ==
  IF env.ref # NONE THEN reply(env, NONE, FALSE)
  ELSE <<serialize(env.topic, EV_ERROR, NONE, NONE, NONE)>>

ProtocolError == <<serialize(CONTROL_TOPIC, EV_ERROR, NONE, NONE, NONE)>>

Init ==
  /\ ChannelsLegal
  /\ joins = [t \in Topics |-> NONE] /\ view = joins
  /\ up = <<>> /\ down = <<>> /\ asked = <<>> /\ sent = 0
  /\ answers = <<>> /\ sockets = {} /\ crossed = {} /\ kicks = 0

(***************************************************************************)
(* The hub handles the next frame.  An outcome is the memberships after it,*)
(* the frames it sends, and whether a handler chose to stay silent.        *)
(***************************************************************************)
Outcome(js, frames, hush) == [joins |-> js, frames |-> frames, hush |-> hush]
Without(t) == IF t \in Topics THEN [joins EXCEPT ![t] = NONE] ELSE joins


\* join: an old membership goes first, whatever the callback then decides.
JoinOutcomes(env) ==
  LET jref == IF env.join_ref # NONE THEN env.join_ref ELSE env.ref IN
  IF channel_for(env.topic) = 0 THEN {Outcome(joins, error_reply(env), FALSE)}
  ELSE {Outcome([joins EXCEPT ![env.topic] = jref], reply(env, jref, TRUE), FALSE),
        Outcome(Without(env.topic), reply(env, jref, FALSE), FALSE)}

\* member_event: a member's own event; its handler may kick the member.
EventOutcomes(env) ==
  LET i == channel_for(env.topic)
      jref == IF env.topic \in Topics THEN joins[env.topic] ELSE NONE
      close == <<serialize(env.topic, EV_CLOSE, NONE, jref, NONE)>>
  IN IF jref = NONE \/ i = 0 THEN {Outcome(joins, error_reply(env), FALSE)}
     ELSE IF env.event \notin Channels[i].handles THEN {Outcome(joins, error_reply(env), FALSE)}
     ELSE {Outcome(joins, reply(env, jref, ok), FALSE) : ok \in BOOLEAN}
            \cup {Outcome(joins, <<>>, TRUE)}
            \cup {Outcome(Without(env.topic), close \o reply(env, jref, TRUE), FALSE)}

\* dispatch: the control topic, then joins and leaves, then reserved names.
Dispatched(env) ==
  IF env.topic = CONTROL_TOPIC
    THEN {Outcome(joins, IF env.event = EV_HEARTBEAT THEN reply(env, NONE, TRUE)
                         ELSE error_reply(env), FALSE)}
  ELSE IF env.event = EV_JOIN THEN JoinOutcomes(env)
  ELSE IF env.event = EV_LEAVE
    THEN {Outcome(Without(env.topic), reply(env, env.join_ref, TRUE), FALSE)}
  ELSE IF Reserved(env.event) THEN {Outcome(joins, error_reply(env), FALSE)}
  ELSE EventOutcomes(env)

\* on_message: frames that are no envelope are answered on the control topic.
OnMessage ==
  LET env == parse(Head(up)) IN
  /\ up # <<>>
  /\ \E o \in IF env.err THEN {Outcome(joins, ProtocolError, FALSE)} ELSE Dispatched(env) :
       LET said == {i \in DOMAIN o.frames : parse(o.frames[i]).event \in {EV_REPLY, EV_ERROR}} IN
       /\ joins' = o.joins
       /\ down' = down \o o.frames
       /\ answers' = Append(answers, [n |-> Cardinality(said), ref |-> env.ref, err |-> env.err, hush |-> o.hush,
                                      refs |-> {parse(o.frames[i]).ref : i \in said}])
       /\ sockets' = sockets \cup {<<t, o.joins[t]>> : t \in {u \in Topics : o.joins[u] # NONE}}
  /\ up' = Tail(up)
  /\ UNCHANGED <<view, asked, sent, crossed, kicks>>

\* Socket::kick by a thread that kept the Socket: stg:close with that socket's
\* join_ref, and the teardown of whatever membership the topic has now.
Kick(t, r) ==
  /\ kicks < MaxKicks /\ <<t, r>> \in sockets
  /\ kicks' = kicks + 1
  /\ down' = Append(down, serialize(t, EV_CLOSE, NONE, r, NONE))
  /\ joins' = Without(t)
  /\ crossed' = IF joins[t] \in {NONE, r} THEN crossed ELSE crossed \cup {t}
  /\ UNCHANGED <<up, view, asked, sent, answers, sockets>>

(***************************************************************************)
(* The client: fresh refs for joins and leaves, stg:close of an earlier    *)
(* membership discarded, as the protocol's description has it.             *)
(***************************************************************************)
Send(topic, event, ref, join_ref) ==
  /\ sent < MaxFrames
  /\ sent' = sent + 1
  /\ up' = Append(up, serialize(topic, event, ref, join_ref, NONE))
  /\ asked' = Append(asked, event)
  /\ UNCHANGED <<joins, down, view, answers, sockets, crossed, kicks>>

SendJoin(t) == \E j \in {NONE, Ref(sent + 1)} : Send(t, EV_JOIN, Ref(sent + 1), j)
SendLeave(t) == Send(t, EV_LEAVE, Ref(sent + 1), view[t])
SendEvent(t, e) == \E r \in {NONE, Ref(sent + 1)} : Send(t, e, r, NONE)

\* A frame that is no envelope: binary, no object, or a field of the wrong type.
SendOther(frame) ==
  /\ sent < MaxFrames
  /\ sent' = sent + 1
  /\ up' = Append(up, frame)
  /\ asked' = Append(asked, <<>>)
  /\ UNCHANGED <<joins, down, view, answers, sockets, crossed, kicks>>

Read ==
  LET env == parse(Head(down))
      n == CHOOSE i \in 0..sent : (env.ref = NONE /\ i = 0) \/ (i > 0 /\ Ref(i) = env.ref)
      to(v) == view' = [view EXCEPT ![env.topic] = v]
  IN /\ down # <<>>
     /\ CASE env.event = EV_REPLY /\ asked[n] = EV_JOIN /\ env.topic \in Topics ->
               to(IF env.ok THEN env.join_ref ELSE NONE)
          [] env.event = EV_REPLY /\ asked[n] = EV_LEAVE /\ env.topic \in Topics -> to(NONE)
          [] env.event = EV_CLOSE /\ view[env.topic] = env.join_ref -> to(NONE)
          [] OTHER -> UNCHANGED view
     /\ down' = Tail(down)
     /\ UNCHANGED <<joins, up, asked, sent, answers, sockets, crossed, kicks>>

Malformed ==
  {[kind |-> "binary", obj |-> <<>>, ok |-> NONE], [kind |-> "broken", obj |-> <<>>, ok |-> NONE],
   [kind |-> "object", ok |-> NONE, obj |-> [event |-> Text(EV_JOIN)]],
   [kind |-> "object", ok |-> NONE, obj |-> [topic |-> Text(<<>>), event |-> Text(EV_JOIN)]],
   [kind |-> "object", ok |-> NONE,
    obj |-> [topic |-> Text(CONTROL_TOPIC), event |-> Text(EV_HEARTBEAT), ref |-> Number]]}

Events == (UNION {Channels[i].handles : i \in DOMAIN Channels}) \cup {EV_REPLY}

Next ==
  \/ OnMessage \/ Read
  \/ \E t \in Topics : SendJoin(t) \/ SendLeave(t) \/ \E e \in Events : SendEvent(t, e)
  \/ SendEvent(CONTROL_TOPIC, EV_HEARTBEAT)
  \/ \E f \in Malformed : SendOther(f)
  \/ \E s \in sockets : Kick(s[1], s[2])

Spec == Init /\ [][Next]_vars

(***************************************************************************)
(* Properties.                                                             *)
(***************************************************************************)

\* A client that waits on refs waits for the right thing: a frame with a ref
\* causes one reply with that ref (none when its handler chose Reply::None), a
\* frame without one causes no reply and at most one stg:error, and a frame
\* that is no envelope exactly one stg:error (on_message, reply, error_reply).
OneAnswerPerRef ==
  \A i \in DOMAIN answers :
    LET a == answers[i] IN
    IF a.hush THEN a.n = 0
    ELSE IF a.err THEN a.n = 1 /\ a.refs = {NONE}
    ELSE IF a.ref # NONE THEN a.n = 1 /\ a.refs = {a.ref}
    ELSE a.n <= 1 /\ a.refs \subseteq {NONE}

\* Once every frame has been read, the client knows its memberships, join_ref
\* included: refused rejoins, leaves under way when a kick comes and kicks from
\* handlers leave no topic that one side believes joined and the other does
\* not.  (A kick through the Socket of an earlier membership ends the present
\* one under the old join_ref, which the client is told to discard.)
ViewsAgree ==
  (up = <<>> /\ down = <<>>) => \A t \in Topics \ crossed : view[t] = joins[t]

=============================================================================
