------------------------------ MODULE Reactor ------------------------------
(***************************************************************************)
(* One shard of the WebSocket engine (sutegi-ws/src/reactor.rs): the slab  *)
(* of connections with its generations, the injection queue with its wake  *)
(* byte, the admission counters shared with the HTTP workers, the close    *)
(* handshake and the once-a-second sweep.                                  *)
(*                                                                         *)
(* The shard thread's calls nest (a frame answers, the answer flushes, the *)
(* flush removes), so they are operators from shard state to shard state;  *)
(* an action is one event, command, parked connection or sweep.  Frames    *)
(* are their kinds, an output queue is its length, time is a number of     *)
(* sweeps.  Tokens count from 1.                                           *)
(***************************************************************************)
EXTENDS Integers, Sequences, FiniteSets, SequencesExt

CONSTANTS
    Conns,          \* sockets the HTTP workers upgrade
    Ips, IpOf,      \* their source addresses
    MaxTotal,       \* WsConfig::max_connections
    MaxPerIp,       \* WsConfig::max_connections_per_ip
    MaxBuffered,    \* WsConfig::max_buffered, in frames
    FramesPerWake,  \* FRAMES_PER_WAKE
    Grace,          \* CLOSE_GRACE, in sweeps
    PingAfter,      \* ping_interval, in sweeps
    IdleAfter,      \* idle_timeout, in sweeps
    PeerStates,     \* what a client may turn to: "reading", "stalled", "gone"
    Frames,         \* the kinds of frame the clients send
    MaxFrames,      \* bound: frames sent by all clients together
    MaxCmds         \* bound: commands injected through Conn handles

VARIABLES
    worker,     \* conn -> where its HTTP worker is in WsRuntime::adopt
    sender,     \* a Conn handle is inside inject, past the push
    cmds,       \* commands injected so far
    inbox,      \* ShardShared::inbox
    pipe,       \* there is a byte in the wake pipe
    pending,    \* ShardShared::wake_pending
    pc,         \* where Shard::run is in its loop
    batch,      \* events left of this poll
    todo,       \* commands, then parked tokens, left of this iteration
    s,          \* the shard: slab, gens, free, parked, and the counters
    wire,       \* conn -> frames its client sent, not yet read
    peer,       \* conn -> "reading", "stalled", "gone"
    sent,       \* frames sent so far
    handle,     \* conn -> the (token, gen) of its Conn handle
    misrouted,  \* a command acted on a connection it was not addressed to
    reclaimed   \* reclaim_slab has dropped a slot

vars == <<worker, sender, cmds, inbox, pipe, pending, pc, batch, todo, s,
          wire, peer, sent, handle, misrouted, reclaimed>>

workerVars == <<worker, sender, cmds>>
shardVars  == <<inbox, pipe, pending, pc, batch, todo, handle, misrouted, reclaimed>>
clientVars == <<wire, peer, sent>>

Empty == [id |-> "nobody"]
Wake  == 0

Init ==
    /\ worker = [c \in Conns |-> "idle"]
    /\ sender = FALSE /\ cmds = 0
    /\ inbox = <<>> /\ pipe = FALSE /\ pending = FALSE
    /\ pc = "wait" /\ batch = {} /\ todo = <<>>
    /\ s = [slab |-> <<>>, gens |-> <<>>, free |-> <<>>, parked |-> <<>>,
            total |-> 0, perIp |-> [i \in Ips |-> 0],
            closed |-> [c \in Conns |-> 0]]
    /\ wire = [c \in Conns |-> <<>>]
    /\ peer = [c \in Conns |-> "reading"]
    /\ sent = 0
    /\ handle = [c \in Conns |-> <<0, 0>>]
    /\ misrouted = FALSE /\ reclaimed = FALSE

-----------------------------------------------------------------------------
(* The shard thread's calls.                                               *)

Held(st, t) == t <= Len(st.slab) /\ st.slab[t] # Empty

Release(st, c) == [st EXCEPT !.total = @ - 1, !.perIp[IpOf[c]] = @ - 1]

Live(st, t, g) == t <= Len(st.slab) /\ st.gens[t] = g /\ st.slab[t] # Empty

\* Mutant: the generation is not bumped when the slot is freed.
RemoveConn_SameGen(st, t) ==
    IF st.slab[t] = Empty THEN st
    ELSE LET c == st.slab[t].id IN
         [st EXCEPT !.slab[t] = Empty, !.free = Append(@, t), !.closed[c] = @ + 1,
                    !.total = @ - 1, !.perIp[IpOf[c]] = @ - 1]

RemoveConn(st, t) ==
    IF st.slab[t] = Empty THEN st
    ELSE LET c == st.slab[t].id IN
         Release([st EXCEPT !.slab[t] = Empty, !.gens[t] = @ + 1,
                            !.free = Append(@, t), !.closed[c] = @ + 1], c)

FlushOut(st, t) ==
    IF ~Held(st, t) THEN st
    ELSE LET c == st.slab[t] IN
         IF c.out > 0 /\ peer[c.id] = "stalled" THEN st
         ELSE IF (c.out > 0 /\ peer[c.id] = "gone") \/ c.peerClosed
              THEN RemoveConn(st, t)
              ELSE [st EXCEPT !.slab[t].out = 0]

Enqueue(st, t) ==
    IF st.slab[t] = Empty THEN st
    ELSE IF st.slab[t].out + 1 > MaxBuffered THEN RemoveConn(st, t)
    ELSE FlushOut([st EXCEPT !.slab[t].out = @ + 1], t)

BeginClose(st, t) ==
    IF st.slab[t] = Empty \/ st.slab[t].closing THEN st
    ELSE LET q == Enqueue(st, t) IN
         IF q.slab[t] = Empty THEN q
         ELSE [q EXCEPT !.slab[t].closing = TRUE, !.slab[t].left = Grace]

HandleFrame(st, t, f) ==
    CASE f = "ping"  -> Enqueue(st, t)
      [] f = "pong"  -> [st EXCEPT !.slab[t].awaiting = FALSE]
      [] f = "data"  -> st
      [] f = "close" ->
            IF st.slab[t].closing THEN RemoveConn(st, t)
            ELSE Enqueue([st EXCEPT !.slab[t].closing = TRUE,
                                    !.slab[t].left = Grace,
                                    !.slab[t].peerClosed = TRUE], t)

\* A frame that does not decode ends the parse and leaves the buffer as it was.
ParseStep(acc, f, t) ==
    IF acc.stop \/ acc.st.slab[t] = Empty THEN acc
    ELSE IF f = "bad" THEN [acc EXCEPT !.st = BeginClose(@, t), !.stop = TRUE]
    ELSE [acc EXCEPT !.st = HandleFrame(@, t, f), !.used = @ + 1]

ParseFrames(st, t) ==
    LET rbuf == st.slab[t].rbuf
        cap  == IF Len(rbuf) < FramesPerWake THEN Len(rbuf) ELSE FramesPerWake
        Parse[i \in 0 .. cap] ==
            IF i = 0 THEN [st |-> st, used |-> 0, stop |-> FALSE]
            ELSE ParseStep(Parse[i - 1], rbuf[i], t)
        acc  == Parse[cap]
    IN  IF acc.st.slab[t] = Empty \/ acc.stop THEN acc.st
        ELSE [acc.st EXCEPT
                !.slab[t].rbuf = SubSeq(@, acc.used + 1, Len(@)),
                !.parked = IF Len(rbuf) > acc.used THEN Append(@, t) ELSE @]

HandleReadable(st, t, frames, fin) ==
    LET fed == [st EXCEPT !.slab[t].rbuf = @ \o frames,
                          !.slab[t].quiet = IF frames = <<>> THEN @ ELSE 0,
                          !.slab[t].awaiting = IF frames = <<>> THEN @ ELSE FALSE]
        parsed == ParseFrames(fed, t)
    IN  IF fin THEN RemoveConn(parsed, t) ELSE parsed

Adopted(st, t, c, leftover) ==
    ParseFrames([st EXCEPT !.slab[t] =
        [id |-> c, rbuf |-> leftover, out |-> 0, closing |-> FALSE, left |-> 0,
         peerClosed |-> FALSE, quiet |-> 0, awaiting |-> FALSE]], t)

TakeSlot(st) ==
    IF st.free # <<>>
    THEN [token |-> Last(st.free), st |-> [st EXCEPT !.free = Front(@)]]
    ELSE [token |-> Len(st.slab) + 1,
          st |-> [st EXCEPT !.slab = Append(@, Empty), !.gens = Append(@, 0)]]

-----------------------------------------------------------------------------
(* The HTTP workers and the holders of Conn handles.                       *)

\* Admission::reserve, first half: count, and give the count back past the cap.
ReserveTotal(c) ==
    /\ worker[c] = "idle"
    /\ s' = [s EXCEPT !.total = @ + 1]
    /\ worker' = [worker EXCEPT ![c] =
                    IF s.total >= MaxTotal THEN "refusing" ELSE "counted"]
    /\ UNCHANGED <<sender, cmds, shardVars, clientVars>>

ReserveRefused(c) ==
    /\ worker[c] = "refusing"
    /\ s' = [s EXCEPT !.total = @ - 1]
    /\ worker' = [worker EXCEPT ![c] = "refused"]
    /\ UNCHANGED <<sender, cmds, shardVars, clientVars>>

ReserveIp(c) ==
    /\ worker[c] = "counted"
    /\ LET full == s.perIp[IpOf[c]] >= MaxPerIp IN
       /\ s' = IF full THEN s ELSE [s EXCEPT !.perIp[IpOf[c]] = @ + 1]
       /\ worker' = [worker EXCEPT ![c] = IF full THEN "refusing" ELSE "admitted"]
    /\ UNCHANGED <<sender, cmds, shardVars, clientVars>>

\* ShardShared::inject pushes under the lock, then raises the wake flag.
InjectAdopt(c) ==
    /\ worker[c] = "admitted"
    /\ worker' = [worker EXCEPT ![c] = "pushed"]
    /\ inbox' = Append(inbox, [kind |-> "adopt", conn |-> c])
    /\ UNCHANGED <<sender, cmds, pipe, pending, pc, batch, todo, s, handle,
                   misrouted, reclaimed, clientVars>>

RaiseWake ==
    /\ pending' = TRUE
    /\ pipe' = (pipe \/ ~pending)

WakeAdopt(c) ==
    /\ worker[c] = "pushed"
    /\ worker' = [worker EXCEPT ![c] = "handed"]
    /\ RaiseWake
    /\ UNCHANGED <<sender, cmds, inbox, pc, batch, todo, s, handle,
                   misrouted, reclaimed, clientVars>>

\* Conn::send_shared, broadcast and Conn::close, from any thread and at any
\* time after on_open handed out the Conn.
InjectCmd(c, kind) ==
    /\ ~sender /\ cmds < MaxCmds /\ handle[c][1] # 0
    /\ sender' = TRUE
    /\ cmds' = cmds + 1
    /\ inbox' = Append(inbox, [kind |-> kind, conn |-> c,
                               token |-> handle[c][1], gen |-> handle[c][2]])
    /\ UNCHANGED <<worker, pipe, pending, pc, batch, todo, s, handle,
                   misrouted, reclaimed, clientVars>>

WakeCmd ==
    /\ sender
    /\ sender' = FALSE
    /\ RaiseWake
    /\ UNCHANGED <<worker, cmds, inbox, pc, batch, todo, s, handle,
                   misrouted, reclaimed, clientVars>>

-----------------------------------------------------------------------------
(* The clients.                                                            *)

ClientSend(c, f) ==
    /\ sent < MaxFrames /\ worker[c] = "handed" /\ s.closed[c] = 0 /\ peer[c] # "gone"
    /\ sent' = sent + 1
    /\ wire' = [wire EXCEPT ![c] = Append(@, f)]
    /\ UNCHANGED <<workerVars, shardVars, s, peer>>

ClientChange(c, how) ==
    /\ handle[c][1] # 0 /\ s.closed[c] = 0 /\ peer[c] \notin {"gone", how}
    /\ peer' = [peer EXCEPT ![c] = how]
    /\ UNCHANGED <<workerVars, shardVars, s, wire, sent>>

-----------------------------------------------------------------------------
(* Shard::run.                                                             *)

Readable(t) == Held(s, t) /\ (wire[s.slab[t].id] # <<>> \/ peer[s.slab[t].id] = "gone")
Writable(t) == Held(s, t) /\ s.slab[t].out > 0 /\ peer[s.slab[t].id] # "stalled"

Wait ==
    /\ pc = "wait"
    /\ pc' = "events"
    /\ batch' = {t \in DOMAIN s.slab : Readable(t) \/ Writable(t)}
                 \cup (IF pipe THEN {Wake} ELSE {})
    /\ UNCHANGED <<workerVars, inbox, pipe, pending, todo, s, handle,
                   misrouted, reclaimed, clientVars>>

WakeEvent ==
    /\ pc = "events" /\ Wake \in batch
    /\ batch' = batch \ {Wake}
    /\ pipe' = FALSE /\ pending' = FALSE
    /\ UNCHANGED <<workerVars, inbox, pc, todo, s, handle, misrouted, reclaimed,
                   clientVars>>

SocketEvent(t) ==
    /\ pc = "events" /\ t \in batch \ {Wake}
    /\ batch' = batch \ {t}
    /\ IF ~Held(s, t) THEN UNCHANGED <<s, wire>>
       ELSE LET c == s.slab[t].id
                gone == peer[c] = "gone"
            IN  /\ s' = FlushOut(HandleReadable(s, t, wire[c], gone), t)
                /\ wire' = [wire EXCEPT ![c] = <<>>]
    /\ UNCHANGED <<workerVars, inbox, pipe, pending, pc, todo, handle,
                   misrouted, reclaimed, peer, sent>>

DrainInbox ==
    /\ pc = "events" /\ batch = {}
    /\ pc' = "commands"
    /\ todo' = inbox /\ inbox' = <<>>
    /\ UNCHANGED <<workerVars, pipe, pending, batch, s, handle, misrouted,
                   reclaimed, clientVars>>

Adopt ==
    /\ pc = "commands" /\ todo # <<>> /\ Head(todo).kind = "adopt"
    /\ todo' = Tail(todo)
    /\ LET c == Head(todo).conn
           slot == TakeSlot(s)
       IN  \/ /\ s' = Adopted(slot.st, slot.token, c, wire[c])
              /\ wire' = [wire EXCEPT ![c] = <<>>]
              /\ handle' = [handle EXCEPT ![c] = <<slot.token, slot.st.gens[slot.token]>>]
           \/ /\ s' = Release(s, c)       \* set_nonblocking failed
              /\ UNCHANGED <<handle, wire>>
           \/ /\ s' = Release([slot.st EXCEPT !.free = Append(@, slot.token)], c)
              /\ UNCHANGED <<handle, wire>>  \* the poller refused the socket
    /\ UNCHANGED <<workerVars, inbox, pipe, pending, pc, batch, misrouted,
                   reclaimed, peer, sent>>

Command ==
    /\ pc = "commands" /\ todo # <<>> /\ Head(todo).kind # "adopt"
    /\ todo' = Tail(todo)
    /\ LET cmd == Head(todo)
           live == Live(s, cmd.token, cmd.gen)
       IN  /\ s' = IF ~live THEN s
                   ELSE IF cmd.kind = "send" THEN Enqueue(s, cmd.token)
                   ELSE BeginClose(s, cmd.token)
           /\ misrouted' = (misrouted \/ (live /\ s.slab[cmd.token].id # cmd.conn))
    /\ UNCHANGED <<workerVars, inbox, pipe, pending, pc, batch, handle,
                   reclaimed, clientVars>>

TakeParked ==
    /\ pc = "commands" /\ todo = <<>>
    /\ pc' = "parked"
    /\ todo' = s.parked
    /\ s' = [s EXCEPT !.parked = <<>>]
    /\ UNCHANGED <<workerVars, inbox, pipe, pending, batch, handle, misrouted,
                   reclaimed, clientVars>>

\* parse_frames indexes the slab: a token past its end panics the thread.
Resume ==
    /\ pc = "parked" /\ todo # <<>>
    /\ IF Head(todo) > Len(s.slab)
       THEN pc' = "dead" /\ UNCHANGED <<s, todo>>
       ELSE /\ s' = IF Held(s, Head(todo)) THEN ParseFrames(s, Head(todo)) ELSE s
            /\ todo' = Tail(todo)
            /\ UNCHANGED pc
    /\ UNCHANGED <<workerVars, inbox, pipe, pending, batch, handle, misrouted,
                   reclaimed, clientVars>>

\* Shard::tick, less than a second after the last sweep.
NoSweep ==
    /\ pc = "parked" /\ todo = <<>>
    /\ pc' = "wait"
    /\ UNCHANGED <<workerVars, inbox, pipe, pending, batch, todo, s, handle,
                   misrouted, reclaimed, clientVars>>

\* Mutant: the sweep skips closing connections altogether.
Expired_NeverClosing(t) == LET c == s.slab[t] IN
    ~c.closing /\ c.quiet >= IdleAfter

Expired(t) == LET c == s.slab[t] IN
    IF c.closing THEN c.left = 0 ELSE c.quiet >= IdleAfter

PingDue(t) == LET c == s.slab[t] IN
    ~c.closing /\ ~Expired(t) /\ c.quiet >= PingAfter /\ ~c.awaiting

Aged(c) == IF c = Empty THEN c
           ELSE IF c.closing THEN [c EXCEPT !.left = IF @ > 0 THEN @ - 1 ELSE 0]
           ELSE [c EXCEPT !.quiet = IF @ < IdleAfter THEN @ + 1 ELSE @]

Ping(st, t) ==
    IF st.slab[t] = Empty THEN st
    ELSE Enqueue([st EXCEPT !.slab[t].awaiting = TRUE], t)

\* The expired slots are dropped in turn, then the idle ones pinged in turn.
Swept(st) ==
    LET n == Len(st.slab)
        Gone[t \in 0 .. n] ==
            IF t = 0 THEN st
            ELSE IF st.slab[t] # Empty /\ Expired(t) THEN RemoveConn(Gone[t - 1], t)
            ELSE Gone[t - 1]
        Pinged[t \in 0 .. n] ==
            IF t = 0 THEN Gone[n]
            ELSE IF st.slab[t] # Empty /\ PingDue(t) THEN Ping(Pinged[t - 1], t)
            ELSE Pinged[t - 1]
    IN  [Pinged[n] EXCEPT !.slab = [t \in DOMAIN @ |-> Aged(@[t])]]

\* The free tail of the slab is given back.
ReclaimSlab(st) ==
    LET len == CHOOSE n \in 0 .. Len(st.slab) :
                 /\ n > 0 => st.slab[n] # Empty
                 /\ \A t \in DOMAIN st.slab : t > n => st.slab[t] = Empty
        Retained[i \in 0 .. Len(st.free)] ==
            IF i = 0 THEN <<>>
            ELSE IF st.free[i] <= len THEN Append(Retained[i - 1], st.free[i])
            ELSE Retained[i - 1]
    IN  [st EXCEPT !.slab = SubSeq(@, 1, len), !.gens = SubSeq(@, 1, len),
                   !.free = Retained[Len(st.free)]]

Sweep ==
    /\ pc = "parked" /\ todo = <<>>
    /\ pc' = "wait"
    /\ s' = ReclaimSlab(Swept(s))
    /\ reclaimed' = (reclaimed \/ Len(s'.slab) < Len(s.slab))
    /\ UNCHANGED <<workerVars, inbox, pipe, pending, batch, todo, handle,
                   misrouted, clientVars>>

ShardStep ==
    \/ Wait \/ WakeEvent \/ \E t \in batch : SocketEvent(t)
    \/ DrainInbox \/ Adopt \/ Command \/ TakeParked \/ Resume

WorkerStep(c) ==
    \/ ReserveTotal(c) \/ ReserveRefused(c) \/ ReserveIp(c)
    \/ InjectAdopt(c) \/ WakeAdopt(c)

Next ==
    \/ ShardStep \/ NoSweep \/ Sweep \/ WakeCmd
    \/ \E c \in Conns :
          \/ WorkerStep(c)
          \/ \E kind \in {"send", "close"} : InjectCmd(c, kind)
          \/ \E f \in Frames : ClientSend(c, f)
          \/ \E how \in PeerStates : ClientChange(c, how)

\* The shard thread and the threads inside inject keep running, and a second
\* passes again and again, so the sweep is reached again and again.
Fairness ==
    /\ WF_vars(ShardStep \/ NoSweep \/ Sweep) /\ SF_vars(Sweep)
    /\ WF_vars(WakeCmd) /\ \A c \in Conns : WF_vars(WorkerStep(c))

Spec == Init /\ [][Next]_vars /\ Fairness

-----------------------------------------------------------------------------
(* Properties.                                                             *)

Slots == DOMAIN s.slab
Attached == {s.slab[t].id : t \in {u \in Slots : s.slab[u] # Empty}}
Queued == {c \in Conns : \E i \in DOMAIN inbox : inbox[i] = [kind |-> "adopt", conn |-> c]}
    \cup (IF pc = "commands"
          THEN {c \in Conns : \E i \in DOMAIN todo : todo[i] = [kind |-> "adopt", conn |-> c]}
          ELSE {})

\* The slab is sound between two calls of the shard thread: one generation per
\* slot, the free list names each empty slot once and no other, no connection
\* sits in two slots, and no connection buffers more than max_buffered.
TypeOK ==
    /\ Len(s.gens) = Len(s.slab)
    /\ IsInjective(s.free)
    /\ ToSet(s.free) = {t \in Slots : s.slab[t] = Empty}
    /\ \A t, u \in Slots : s.slab[t] # Empty /\ s.slab[t].id = s.slab[u].id => t = u
    /\ \A t \in Slots : s.slab[t] # Empty => s.slab[t].out \in 0 .. MaxBuffered
    /\ pc \in {"wait", "events", "commands", "parked", "dead"}

\* Every reservation made before the upgrade is owned by a worker on its way,
\* a queued adoption or a live slot, and by one of them only: no early return
\* of adopt and no way a connection ends leaks or double-frees a slot.
SlotsAccountedFor ==
    LET inReserve == {c \in Conns : worker[c] = "admitted"} \cup Queued \cup Attached
        counted == {c \in Conns : worker[c] \in {"counted", "refusing"}}
    IN  /\ s.total = Cardinality(inReserve) + Cardinality(counted)
        /\ \A i \in Ips : s.perIp[i] = Cardinality({c \in inReserve : IpOf[c] = i})

\* "The count moves atomically at admission time": however the workers
\* interleave, the connections admitted never pass the global or per-IP cap.
CapsAreHard ==
    LET admitted == {c \in Conns : worker[c] = "admitted"} \cup Queued \cup Attached
    IN  /\ Cardinality(admitted) <= MaxTotal
        /\ \A i \in Ips : Cardinality({c \in admitted : IpOf[c] = i}) <= MaxPerIp

\* A shard about to block with commands queued has a wake byte waiting, once
\* the threads that queued them have left inject.
NoLostWake ==
    (pc = "wait" /\ inbox # <<>> /\ ~sender /\ \A c \in Conns : worker[c] # "pushed")
        => pipe

\* on_close runs once for every connection that was opened and is no longer
\* attached, and for no other.
ClosedOnce ==
    \A c \in Conns : s.closed[c] = IF handle[c][1] # 0 /\ c \notin Attached THEN 1 ELSE 0

\* A command injected through a Conn handle acts on that connection or on
\* nothing, as long as the slab has not been truncated.
HandlesReachTheirOwner == misrouted => reclaimed

\* Every adopted connection ends: a silent peer is pinged and dropped, a close
\* handshake that is not answered is cut off, a reader too slow is dropped.
ConnectionsEnd ==
    \A c \in Conns : [](c \in Attached => <>(c \notin Attached \/ pc = "dead"))
=============================================================================
