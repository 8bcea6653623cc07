---------------------------- MODULE ServerProofs ----------------------------
(***************************************************************************)
(* What the servers keep, whatever their size: the HTTP server for any     *)
(* workers, clients and kinds of requests, accounts for any workers,       *)
(* addresses, links and tokens, mail for any addresses and texts, a shard  *)
(* of the WebSocket engine for any connections, caps and frames, the web   *)
(* service for any routes, tools, requests and workers.                    *)
(***************************************************************************)
EXTENDS HttpServer, FiniteSetTheorems, SequenceTheorems, WellFoundedInduction, TLAPS

CONSTANTS AccountWorkers, Written, Normal, ReuseIds, MaxPersons, MaxLinks,
          MaxTokens
CONSTANTS Addrs, Bad, Contents, Transports, None, MaxCalls, MaxSends
CONSTANTS Conns, Ips, IpOf, MaxTotal, MaxPerIp, MaxBuffered, FramesPerWake,
          Grace, PingAfter, IdleAfter, PeerStates, Frames, MaxFrames, MaxCmds
CONSTANTS WebWorkers, Listeners, Requests, AppRoutes, Tools, MaxServed, Panics,
          Words, Threads, Capacity, MaxClock, MaxAdmitted, UpgradeWorkers,
          MaxUpgraded, MaxUpgrades

VARIABLES users, persons, highest, accWorker, accLinks, tokens, accClock, acted
VARIABLES transport, creds, caps, draft, asked, script, sending, relay, box,
          result, sends
VARIABLES reWorker, sender, cmds, inbox, pipe, pending, rePc, batch, todo, shard,
          wire, peer, reSent, handle, misrouted, reclaimed
VARIABLES webWorker, stage, answer, in_flight, total, class, panicked, served,
          last, main, webShutdown, listener, webClock, bucket, read, admitted,
          rewound, phase, upgradeTotal, upgradeLast, adopted, cut, seen

Accounts == INSTANCE Accounts
  WITH Workers <- AccountWorkers, worker <- accWorker, links <- accLinks,
       clock <- accClock

Mail == INSTANCE Mail

Reactor == INSTANCE Reactor
  WITH worker <- reWorker, pc <- rePc, sent <- reSent, s <- shard

Web == INSTANCE WebService
  WITH Workers <- WebWorkers, MaxRequests <- MaxServed, MaxTotal <- MaxUpgraded,
       worker <- webWorker, clock <- webClock, shutdown <- webShutdown,
       dropped <- cut

(***************************************************************************)
(* The HTTP server.  A connection is in one place at a time - the backlog, *)
(* the acceptor's hand, the queue, a worker - and its state is the one the *)
(* place stands for.  That nothing accepted is left behind by a drain is   *)
(* inductive with it: a worker leaves on an empty queue, and the acceptor  *)
(* returns behind the last of them.                                        *)
(***************************************************************************)

\* There is a worker (workers.max(1)), a name for nobody, and a connection takes
\* at least one request (keep_alive_max.max(1)).
HttpConstants ==
  /\ Workers # {}
  /\ Nobody \notin Workers /\ Nobody \notin Clients
  /\ KeepAliveMax \in Nat \ {0}

HttpTypes ==
  /\ backlog \in Seq(Clients) /\ queue \in Seq(Clients)
  /\ acceptor \in {"poll", "accept", "handing", "joining", "returned"}
  /\ handing \in Clients \cup {Nobody}
  /\ worker \in [Workers -> [pc : {"lock", "recv", "serve", "exited"},
                             conn : Clients \cup {Nobody}, served : Nat]]
  /\ conn \in [Clients -> {"idle", "waiting", "accepted", "closed", "detached"}]
  /\ sent \in [Clients -> Seq(Kinds)]
  /\ replies \in [Clients -> Seq(Nat)]

\* No place holds a connection that another place, or another slot of the same
\* place, holds too.
HeldOnce ==
  /\ \A i, j \in DOMAIN backlog : backlog[i] = backlog[j] => i = j
  /\ \A i, j \in DOMAIN queue : queue[i] = queue[j] => i = j
  /\ \A v, w \in Workers : worker[v].conn = worker[w].conn /\ worker[v].conn # Nobody => v = w
  /\ \A i \in DOMAIN queue : queue[i] # handing
  /\ \A w \in Workers : worker[w].conn # Nobody =>
       worker[w].conn # handing /\ \A i \in DOMAIN queue : queue[i] # worker[w].conn

\* Who is in a place has the state the place stands for, and the other way round.
HeldAsTold ==
  /\ \A i \in DOMAIN backlog : conn[backlog[i]] = "waiting"
  /\ \A i \in DOMAIN queue : conn[queue[i]] = "accepted"
  /\ handing # Nobody => conn[handing] = "accepted"
  /\ \A w \in Workers : worker[w].conn # Nobody => conn[worker[w].conn] = "accepted"
  /\ \A w \in Workers : worker[w].pc = "serve" <=> worker[w].conn # Nobody
  /\ \A c \in Clients : conn[c] = "accepted" =>
       \/ handing = c
       \/ \E i \in DOMAIN queue : queue[i] = c
       \/ \E w \in Workers : worker[w].conn = c

\* The acceptor holds a connection only while it hands it over; the pool is
\* dropped behind what is queued.
DrainInOrder ==
  /\ handing # Nobody <=> acceptor = "handing"
  /\ \A w \in Workers : worker[w].pc = "exited" =>
       queue = <<>> /\ acceptor \in {"joining", "returned"}
  /\ acceptor = "returned" => \A w \in Workers : worker[w].pc = "exited"

\* Answers follow the requests, and only a request that keeps the connection
\* has another one answered behind it.
AnswersFollow ==
  /\ \A c \in Clients :
       /\ Len(replies[c]) <= Len(sent[c]) /\ Len(replies[c]) <= KeepAliveMax
       /\ conn[c] \in {"idle", "waiting"} => replies[c] = <<>>
       /\ \A i \in DOMAIN replies[c] :
            /\ replies[c][i] = Answer(sent[c][i])
            /\ (i < Len(replies[c]) \/ conn[c] = "accepted") =>
                 sent[c][i] \in {"keep", "panic"}
       /\ handing = c => replies[c] = <<>>
       /\ \A i \in DOMAIN queue : queue[i] = c => replies[c] = <<>>
  /\ \A w \in Workers : worker[w].conn # Nobody =>
       /\ worker[w].served = Len(replies[worker[w].conn])
       /\ worker[w].served < KeepAliveMax

\* Inductive.
HttpInv == HttpTypes /\ HeldOnce /\ HeldAsTold /\ DrainInOrder /\ AnswersFollow

LEMMA HttpInit == ASSUME HttpConstants, Init PROVE HttpInv
<1>1. HttpTypes
  BY DEF Init, HttpTypes, Free
<1>2. HeldOnce /\ HeldAsTold /\ DrainInOrder
  BY DEF Init, Free, HeldOnce, HeldAsTold, DrainInOrder
<1>3. AnswersFollow
  BY DEF Init, Free, AnswersFollow, HttpConstants
<1> QED
  BY <1>1, <1>2, <1>3 DEF HttpInv

LEMMA ConnectKeeps ==
  ASSUME HttpConstants, HttpInv, NEW c \in Clients, Connect(c) PROVE HttpInv'
<1> USE DEF HttpInv
<1>1. HttpTypes'
  BY DEF HttpTypes, Connect
<1>2. DOMAIN backlog' = 1..Len(backlog) + 1 /\ DOMAIN backlog = 1..Len(backlog)
      /\ \A i \in DOMAIN backlog' :
           backlog'[i] = IF i = Len(backlog) + 1 THEN c ELSE backlog[i]
  BY DEF HttpTypes, Connect
<1>3. HeldOnce'
  BY <1>2 DEF HttpTypes, HeldOnce, HeldAsTold, Connect
<1>4. HeldAsTold'
  <2>1. /\ conn[c] = "idle" /\ \A d \in Clients : conn'[d] = IF d = c THEN "waiting" ELSE conn[d]
        /\ UNCHANGED <<handing, queue, worker>>
    BY DEF Connect, HttpTypes
  <2>2. /\ \A i \in DOMAIN backlog : backlog[i] \in Clients
        /\ \A i \in DOMAIN queue : queue[i] \in Clients
        /\ \A w \in Workers : worker[w].conn \in Clients \cup {Nobody}
        /\ handing \in Clients \cup {Nobody}
    BY DEF HttpTypes
  <2>3. \A i \in DOMAIN backlog' : conn'[backlog'[i]] = "waiting"
    BY <1>2, <2>1, <2>2 DEF HeldAsTold
  <2>4. /\ \A i \in DOMAIN queue' : conn'[queue'[i]] = "accepted"
        /\ handing' # Nobody => conn'[handing'] = "accepted"
        /\ \A w \in Workers : worker'[w].conn # Nobody => conn'[worker'[w].conn] = "accepted"
    BY <2>1, <2>2 DEF HeldAsTold
  <2> QED
    BY <2>1, <2>3, <2>4 DEF HeldAsTold
<1>5. DrainInOrder'
  BY DEF DrainInOrder, Connect
<1>6. AnswersFollow'
  BY DEF HttpTypes, AnswersFollow, Connect, HeldAsTold
<1> QED
  BY <1>1, <1>3, <1>4, <1>5, <1>6

LEMMA SendKeeps ==
  ASSUME HttpConstants, HttpInv, NEW c \in Clients, NEW k \in Kinds, SendRequest(c, k)
  PROVE  HttpInv'
<1> USE DEF HttpInv
<1>1. HttpTypes'
  BY DEF HttpTypes, SendRequest, accVars
<1>2. HeldOnce' /\ HeldAsTold' /\ DrainInOrder'
  BY DEF HeldOnce, HeldAsTold, DrainInOrder, SendRequest, accVars
<1>3. \A d \in Clients : Len(sent[d]) <= Len(sent'[d])
        /\ \A i \in 1..Len(sent[d]) : sent'[d][i] = sent[d][i]
  BY DEF HttpTypes, SendRequest
<1>4. AnswersFollow'
  <2>1. \A d \in Clients : Len(replies[d]) \in Nat /\ DOMAIN replies[d] = 1..Len(replies[d])
          /\ Len(sent[d]) \in Nat /\ Len(sent'[d]) \in Nat
    <3>1. \A d \in Clients : replies[d] \in Seq(Nat) /\ sent[d] \in Seq(Kinds)
      BY DEF HttpTypes
    <3>2. \A d \in Clients : sent'[d] \in Seq(Kinds)
      BY <1>1 DEF HttpTypes
    <3> QED
      BY <3>1, <3>2
  <2>2. /\ UNCHANGED <<replies, conn, handing, queue, worker>>
    BY DEF SendRequest, accVars
  <2>3. \A d \in Clients : \A i \in DOMAIN replies[d] : sent'[d][i] = sent[d][i]
    <3>1. ASSUME NEW d \in Clients PROVE Len(replies[d]) <= Len(sent[d])
      BY DEF AnswersFollow
    <3>2. ASSUME NEW d \in Clients, NEW i \in DOMAIN replies[d] PROVE i \in 1..Len(sent[d])
      BY <3>1, <2>1
    <3> QED
      BY <3>2, <1>3
  <2>4. \A d \in Clients : Len(replies[d]) <= Len(sent'[d])
    BY <1>3, <2>1 DEF AnswersFollow
  <2> QED
    BY <2>2, <2>3, <2>4 DEF AnswersFollow
<1> QED
  BY <1>1, <1>2, <1>4

LEMMA AcceptorKeeps ==
  ASSUME HttpConstants, HttpInv, AcceptorStep PROVE HttpInv'
<1> USE DEF HttpInv
<1>1. CASE Check
  BY <1>1 DEF Check, HttpTypes, HeldOnce, HeldAsTold, DrainInOrder, AnswersFollow
<1>2. CASE Accept
  <2>1. CASE backlog = <<>>
    BY <1>2, <2>1 DEF Accept, HttpTypes, HeldOnce, HeldAsTold, DrainInOrder, AnswersFollow
  <2>2. CASE backlog # <<>>
    <3> DEFINE c == Head(backlog)
    <3>1. /\ c \in Clients /\ c # Nobody /\ conn[c] = "waiting" /\ c = backlog[1]
          /\ Len(backlog) \in Nat \ {0} /\ DOMAIN backlog = 1..Len(backlog)
      BY <2>2 DEF HttpTypes, HeldAsTold, HttpConstants
    <3>2. /\ acceptor = "accept" /\ acceptor' = "handing" /\ handing' = c
          /\ backlog' = Tail(backlog)
          /\ conn' = [conn EXCEPT ![c] = "accepted"]
          /\ UNCHANGED <<shutdown, queue, lock, worker, sent, replies, gone>>
          /\ handing = Nobody
      BY <1>2, <2>2 DEF Accept, DrainInOrder
    <3>3. HttpTypes'
      BY <3>1, <3>2 DEF HttpTypes
    <3>4. DOMAIN backlog' = 1..Len(backlog) - 1
          /\ \A i \in DOMAIN backlog' : backlog'[i] = backlog[i + 1] /\ i + 1 \in DOMAIN backlog
      BY <3>1, <3>2 DEF HttpTypes
    <3>5. \A i \in DOMAIN backlog' : backlog'[i] # c
      BY <3>1, <3>4 DEF HeldOnce
    <3> HIDE DEF c
    <3>6. HeldOnce'
      <4>1. \A i, j \in DOMAIN backlog' : backlog'[i] = backlog'[j] => i = j
        BY <3>4, <3>1 DEF HeldOnce
      <4>2. \A i \in DOMAIN queue : queue[i] # c
        BY <3>1 DEF HeldAsTold
      <4>3. \A w \in Workers : worker[w].conn # c
        BY <3>1 DEF HeldAsTold
      <4> QED
        BY <4>1, <4>2, <4>3, <3>2 DEF HeldOnce
    <3>7. HeldAsTold'
      <4>1. \A d \in Clients : conn'[d] = IF d = c THEN "accepted" ELSE conn[d]
        BY <3>1, <3>2 DEF HttpTypes
      <4>2. \A i \in DOMAIN backlog' : backlog'[i] \in Clients
        BY <3>3 DEF HttpTypes
      <4>3. \A i \in DOMAIN queue : queue[i] \in Clients
        BY DEF HttpTypes
      <4>4. \A w \in Workers : worker[w].conn \in Clients \cup {Nobody}
        BY DEF HttpTypes
      <4>5. \A i \in DOMAIN backlog' : conn'[backlog'[i]] = "waiting"
        BY <4>1, <4>2, <3>4, <3>5 DEF HeldAsTold
      <4>6. /\ \A i \in DOMAIN queue : conn'[queue[i]] = "accepted"
            /\ conn'[c] = "accepted"
            /\ \A w \in Workers : worker[w].conn # Nobody => conn'[worker[w].conn] = "accepted"
        BY <4>1, <4>3, <4>4, <3>1 DEF HeldAsTold
      <4>7. \A d \in Clients : conn'[d] = "accepted" =>
              \/ handing' = d
              \/ \E i \in DOMAIN queue : queue[i] = d
              \/ \E w \in Workers : worker[w].conn = d
        BY <4>1, <3>2 DEF HeldAsTold, HttpConstants
      <4>8. \A w \in Workers : worker[w].pc = "serve" <=> worker[w].conn # Nobody
        BY DEF HeldAsTold
      <4> QED
        BY <4>5, <4>6, <4>7, <4>8, <3>2 DEF HeldAsTold
    <3>8. DrainInOrder'
      BY <3>1, <3>2 DEF DrainInOrder
    <3>9. AnswersFollow'
      <4>1. \A d \in Clients : conn'[d] = IF d = c THEN "accepted" ELSE conn[d]
        BY <3>1, <3>2 DEF HttpTypes
      <4>2. replies[c] = <<>> /\ DOMAIN replies[c] = {}
        BY <3>1 DEF AnswersFollow
      <4> QED
        BY <4>1, <4>2, <3>1, <3>2 DEF AnswersFollow
    <3> QED
      BY <3>3, <3>6, <3>7, <3>8, <3>9
  <2> QED
    BY <2>1, <2>2
<1>3. CASE Execute
  <2>1. handing \in Clients /\ handing # Nobody /\ Len(queue) \in Nat /\ DOMAIN queue = 1..Len(queue)
    BY <1>3 DEF Execute, DrainInOrder, HttpTypes, HttpConstants
  <2>2. /\ DOMAIN queue' = 1..Len(queue) + 1
        /\ \A i \in DOMAIN queue' : queue'[i] = IF i = Len(queue) + 1 THEN handing ELSE queue[i]
    BY <1>3, <2>1 DEF Execute, HttpTypes
  <2>3. HttpTypes'
    BY <1>3, <2>1 DEF Execute, HttpTypes
  <2>4. /\ handing' = Nobody /\ acceptor = "handing" /\ acceptor' = "poll"
        /\ UNCHANGED <<backlog, shutdown, lock, worker, conn, sent, replies, gone>>
    BY <1>3 DEF Execute
  <2>5. Nobody \notin Clients /\ \A i \in DOMAIN queue' : queue'[i] \in Clients
    BY <2>3 DEF HttpTypes, HttpConstants
  <2>6. HeldOnce'
    BY <2>1, <2>2, <2>4, <2>5 DEF HeldOnce
  <2>7. HeldAsTold'
    <3>1. \A c \in Clients : conn[c] = "accepted" =>
            \/ \E i \in DOMAIN queue' : queue'[i] = c
            \/ \E w \in Workers : worker[w].conn = c
      <4> SUFFICES ASSUME NEW c \in Clients, conn[c] = "accepted"
                   PROVE  (\E i \in DOMAIN queue' : queue'[i] = c)
                          \/ \E w \in Workers : worker[w].conn = c
        OBVIOUS
      <4>1. CASE handing = c
        <5>1. Len(queue) + 1 \in DOMAIN queue'
          BY <2>1, <2>2
        <5> QED
          BY <5>1, <4>1, <2>2
      <4>2. CASE \E i \in DOMAIN queue : queue[i] = c
        <5>1. PICK i \in DOMAIN queue : queue[i] = c
          BY <4>2
        <5>2. i \in DOMAIN queue' /\ queue'[i] = c
          BY <5>1, <2>1, <2>2
        <5> QED
          BY <5>2
      <4>3. CASE \E w \in Workers : worker[w].conn = c
        BY <4>3
      <4> QED
        BY <4>1, <4>2, <4>3 DEF HeldAsTold
    <3>2. \A i \in DOMAIN queue' : conn[queue'[i]] = "accepted"
      BY <2>1, <2>2 DEF HeldAsTold
    <3> QED
      BY <3>1, <3>2, <2>4 DEF HeldAsTold
  <2>8. DrainInOrder'
    BY <2>4 DEF DrainInOrder
  <2>9. AnswersFollow'
    BY <2>1, <2>2, <2>4, <2>5 DEF AnswersFollow
  <2> QED
    BY <2>3, <2>6, <2>7, <2>8, <2>9
<1>4. CASE Joined
  BY <1>4 DEF Joined, HttpTypes, HeldOnce, HeldAsTold, DrainInOrder, AnswersFollow
<1> QED
  BY <1>1, <1>2, <1>3, <1>4 DEF AcceptorStep

\* A worker that has nothing in hand changes its place only.
LEMMA TurnKeeps ==
  ASSUME HttpConstants, HttpInv, NEW w \in Workers, LockReceiver(w) \/ Disconnected(w)
  PROVE  HttpInv'
<1> USE DEF HttpInv
<1>1. PICK p \in {"recv", "exited"} :
        /\ worker' = [worker EXCEPT ![w].pc = p]
        /\ p = "exited" => queue = <<>> /\ acceptor \in {"joining", "returned"}
        /\ p = "recv" => worker[w].pc = "lock"
  BY DEF LockReceiver, Disconnected
<1>2. UNCHANGED <<backlog, acceptor, handing, queue, conn, sent, replies>>
  BY DEF LockReceiver, Disconnected, accVars
<1>3. worker[w].pc \in {"lock", "recv"} /\ worker[w].conn = Nobody
  BY DEF LockReceiver, Disconnected, HeldAsTold
<1>4. /\ worker'[w].pc = p
      /\ \A v \in Workers : /\ worker'[v].conn = worker[v].conn
                            /\ worker'[v].served = worker[v].served
                            /\ v # w => worker'[v].pc = worker[v].pc
  BY <1>1 DEF HttpTypes
<1>5. HttpTypes'
  BY <1>1, <1>2 DEF HttpTypes
<1>6. HeldOnce' /\ HeldAsTold'
  BY <1>2, <1>3, <1>4, <1>1 DEF HeldOnce, HeldAsTold
<1>7. DrainInOrder'
  BY <1>2, <1>3, <1>4, <1>1 DEF DrainInOrder
<1>8. AnswersFollow'
  BY <1>2, <1>4 DEF AnswersFollow
<1> QED
  BY <1>5, <1>6, <1>7, <1>8

LEMMA RecvKeeps ==
  ASSUME HttpConstants, HttpInv, NEW w \in Workers, Recv(w) PROVE HttpInv'
<1> USE DEF HttpInv
<1> DEFINE c == Head(queue)
<1>1. /\ c \in Clients /\ c # Nobody /\ c = queue[1] /\ conn[c] = "accepted"
      /\ Len(queue) \in Nat \ {0} /\ DOMAIN queue = 1..Len(queue) /\ 1 \in DOMAIN queue
  BY DEF Recv, HttpTypes, HeldAsTold, HttpConstants
<1>2. /\ worker[w].pc = "recv" /\ queue # <<>> /\ queue' = Tail(queue)
      /\ worker' = [worker EXCEPT ![w] = [pc |-> "serve", conn |-> c, served |-> 0]]
      /\ UNCHANGED <<backlog, acceptor, handing, shutdown, conn, sent, replies, gone>>
  BY DEF Recv, accVars
<1> HIDE DEF c
<1>3. HttpTypes'
  BY <1>1, <1>2 DEF HttpTypes
<1>4. /\ worker'[w].pc = "serve" /\ worker'[w].conn = c /\ worker'[w].served = 0
      /\ \A v \in Workers \ {w} : worker'[v] = worker[v]
  BY <1>2 DEF HttpTypes
<1>5. /\ DOMAIN queue' = 1..Len(queue) - 1
      /\ \A i \in DOMAIN queue' : queue'[i] = queue[i + 1] /\ i + 1 \in DOMAIN queue
  <2>1. queue \in Seq(Clients) /\ queue # <<>> /\ queue' = Tail(queue)
    BY <1>2 DEF HttpTypes
  <2> QED
    BY <2>1
<1>6. \A i \in DOMAIN queue' : queue'[i] # c
  BY <1>1, <1>5 DEF HeldOnce
<1>7. HeldOnce'
  <2>1. \A i, j \in DOMAIN queue' : queue'[i] = queue'[j] => i = j
    BY <1>5, <1>1 DEF HeldOnce
  <2>2. \A u, v \in Workers : worker'[u].conn = worker'[v].conn /\ worker'[u].conn # Nobody => u = v
    BY <1>1, <1>4 DEF HeldOnce
  <2>3. c # handing
    BY <1>1 DEF HeldOnce
  <2>4. \A v \in Workers : worker'[v].conn # Nobody =>
          worker'[v].conn # handing /\ \A i \in DOMAIN queue' : queue'[i] # worker'[v].conn
    BY <1>1, <1>4, <1>5, <1>6, <2>3 DEF HeldOnce
  <2> QED
    BY <2>1, <2>2, <2>4, <1>2, <1>5 DEF HeldOnce
<1>8. HeldAsTold'
  <2>1. \A d \in Clients : conn[d] = "accepted" =>
          \/ handing = d
          \/ \E i \in DOMAIN queue' : queue'[i] = d
          \/ \E v \in Workers : worker'[v].conn = d
    <3> SUFFICES ASSUME NEW d \in Clients, conn[d] = "accepted", handing # d
                 PROVE  (\E i \in DOMAIN queue' : queue'[i] = d)
                        \/ \E v \in Workers : worker'[v].conn = d
      OBVIOUS
    <3>1. CASE d = c
      BY <3>1, <1>4
    <3>2. CASE d # c /\ \E i \in DOMAIN queue : queue[i] = d
      <4>1. PICK i \in DOMAIN queue : queue[i] = d
        BY <3>2
      <4>2. i - 1 \in DOMAIN queue' /\ queue'[i - 1] = d
        BY <4>1, <3>2, <1>1, <1>5
      <4> QED
        BY <4>2
    <3>3. CASE \E v \in Workers : worker[v].conn = d
      <4>1. PICK v \in Workers : worker[v].conn = d
        BY <3>3
      <4>2. v # w
        BY <4>1, <1>2 DEF HeldAsTold, HttpConstants
      <4> QED
        BY <4>1, <4>2, <1>4
    <3> QED
      BY <3>1, <3>2, <3>3 DEF HeldAsTold
  <2>2. \A i \in DOMAIN queue' : conn[queue'[i]] = "accepted"
    BY <1>5 DEF HeldAsTold
  <2> QED
    BY <2>1, <2>2, <1>1, <1>2, <1>4 DEF HeldAsTold
<1>9. DrainInOrder'
  BY <1>2, <1>4, <1>1 DEF DrainInOrder
<1>10. AnswersFollow'
  <2>1. replies[c] = <<>> /\ Len(replies[c]) = 0
    BY <1>1 DEF AnswersFollow
  <2> QED
    BY <2>1, <1>1, <1>2, <1>4, <1>5 DEF AnswersFollow, HttpConstants
<1> QED
  BY <1>3, <1>7, <1>8, <1>9, <1>10

\* A connection that ends leaves its worker free, whatever was written last.
LEMMA EndKeeps ==
  ASSUME HttpConstants, HttpInv, NEW w \in Workers, worker[w].pc = "serve",
         NEW c \in Clients, c = worker[w].conn,
         NEW how \in {"closed", "detached"}, End(w, c, how),
         UNCHANGED <<backlog, acceptor, handing, queue, sent>>,
         replies' \in [Clients -> Seq(Nat)],
         \A d \in Clients : d # c => replies'[d] = replies[d],
         \/ replies'[c] = replies[c]
         \/ /\ Pending(c) /\ replies'[c] = Append(replies[c], Answer(NextRequest(c)))
  PROVE  HttpInv'
<1> USE DEF HttpInv
<1>1. /\ worker' = [worker EXCEPT ![w] = Free] /\ conn' = [conn EXCEPT ![c] = how]
      /\ c # Nobody /\ conn[c] = "accepted"
  BY DEF End, HttpConstants, HeldAsTold
<1>2. /\ worker'[w].pc = "lock" /\ worker'[w].conn = Nobody
      /\ \A v \in Workers \ {w} : worker'[v] = worker[v] /\ worker'[v].conn # c
      /\ \A d \in Clients : conn'[d] = IF d = c THEN how ELSE conn[d]
  BY <1>1 DEF HttpTypes, Free, HeldOnce
<1>3. HttpTypes'
  BY <1>1 DEF HttpTypes, Free
<1>4. c # handing /\ \A i \in DOMAIN queue : queue[i] # c
  BY <1>1 DEF HeldOnce
<1>5. HeldOnce'
  BY <1>2 DEF HeldOnce
<1>6. HeldAsTold'
  <2>1. /\ \A i \in DOMAIN backlog : backlog[i] # c /\ backlog[i] \in Clients
        /\ \A i \in DOMAIN queue : queue[i] \in Clients
        /\ handing \in Clients \cup {Nobody}
        /\ \A v \in Workers : worker[v].conn \in Clients \cup {Nobody}
    BY <1>1 DEF HeldAsTold, HttpTypes
  <2>2. \A d \in Clients : conn'[d] = "accepted" =>
          \/ handing = d
          \/ \E i \in DOMAIN queue : queue[i] = d
          \/ \E v \in Workers : worker'[v].conn = d
    BY <1>2 DEF HeldAsTold
  <2> QED
    BY <2>1, <2>2, <1>1, <1>2, <1>4 DEF HeldAsTold
<1>7. DrainInOrder'
  BY <1>2 DEF DrainInOrder
<1>8. AnswersFollow'
  <2>1. /\ Len(replies[c]) < KeepAliveMax /\ KeepAliveMax \in Nat
        /\ \A d \in Clients : Len(replies[d]) \in Nat /\ DOMAIN replies[d] = 1..Len(replies[d])
    BY <1>1 DEF AnswersFollow, HttpTypes, HttpConstants
  <2>2. /\ Len(replies'[c]) <= Len(sent[c]) /\ Len(replies'[c]) <= KeepAliveMax
        /\ \A i \in DOMAIN replies'[c] :
             /\ replies'[c][i] = Answer(sent[c][i])
             /\ i < Len(replies'[c]) => sent[c][i] \in {"keep", "panic"}
    <3>1. CASE replies'[c] = replies[c]
      BY <3>1, <2>1, <1>1 DEF AnswersFollow
    <3>2. CASE Pending(c) /\ replies'[c] = Append(replies[c], Answer(NextRequest(c)))
      <4>1. /\ Len(sent[c]) \in Nat /\ Len(sent[c]) > Len(replies[c])
            /\ NextRequest(c) = sent[c][Len(replies[c]) + 1]
        BY <3>2 DEF Pending, NextRequest, HttpTypes
      <4>2. /\ Len(replies'[c]) = Len(replies[c]) + 1
            /\ DOMAIN replies'[c] = 1..Len(replies[c]) + 1
            /\ \A i \in DOMAIN replies'[c] : replies'[c][i] =
                 IF i = Len(replies[c]) + 1 THEN Answer(NextRequest(c)) ELSE replies[c][i]
        BY <3>2 DEF HttpTypes, Answer
      <4>3. /\ Len(replies'[c]) <= Len(sent[c]) /\ Len(replies'[c]) <= KeepAliveMax
        BY <4>1, <4>2, <2>1
      <4>4. ASSUME NEW i \in DOMAIN replies'[c]
            PROVE  /\ replies'[c][i] = Answer(sent[c][i])
                   /\ i < Len(replies'[c]) => sent[c][i] \in {"keep", "panic"}
        <5>1. CASE i = Len(replies[c]) + 1
          BY <5>1, <4>1, <4>2, <2>1
        <5>2. CASE i # Len(replies[c]) + 1
          <6>1. i \in DOMAIN replies[c] /\ conn[c] = "accepted"
            BY <5>2, <4>2, <2>1, <1>1
          <6>2. replies[c][i] = Answer(sent[c][i]) /\ sent[c][i] \in {"keep", "panic"}
            BY <6>1, <1>1 DEF AnswersFollow
          <6> QED
            BY <6>2, <5>2, <4>2
        <5> QED
          BY <5>1, <5>2
      <4> QED
        BY <4>3, <4>4
    <3> QED
      BY <3>1, <3>2
  <2>3. \A d \in Clients \ {c} :
       /\ Len(replies'[d]) <= Len(sent'[d]) /\ Len(replies'[d]) <= KeepAliveMax
       /\ conn'[d] \in {"idle", "waiting"} => replies'[d] = <<>>
       /\ \A i \in DOMAIN replies'[d] :
            /\ replies'[d][i] = Answer(sent'[d][i])
            /\ (i < Len(replies'[d]) \/ conn'[d] = "accepted") =>
                 sent'[d][i] \in {"keep", "panic"}
       /\ handing' = d => replies'[d] = <<>>
       /\ \A i \in DOMAIN queue' : queue'[i] = d => replies'[d] = <<>>
    <3>1. \A d \in Clients \ {c} : conn'[d] = conn[d] /\ replies'[d] = replies[d]
      BY <1>2 DEF HttpTypes
    <3>2. UNCHANGED <<sent, handing, queue>>
      BY <1>2
    <3> QED
      BY <3>1, <3>2 DEF AnswersFollow
  <2>4. \A v \in Workers : worker'[v].conn # Nobody =>
       /\ worker'[v].served = Len(replies'[worker'[v].conn])
       /\ worker'[v].served < KeepAliveMax
    <3>1. \A v \in Workers : worker[v].conn \in Clients \cup {Nobody}
      BY DEF HttpTypes
    <3> QED
      BY <3>1, <1>2 DEF AnswersFollow
  <2> QED
    BY <2>2, <2>3, <2>4, <1>2, <1>4 DEF AnswersFollow
<1> QED
  BY <1>3, <1>5, <1>6, <1>7, <1>8

LEMMA ServeKeeps ==
  ASSUME HttpConstants, HttpInv, NEW w \in Workers, Serve(w) PROVE HttpInv'
<1> USE DEF HttpInv
<1> DEFINE c == worker[w].conn
           k == NextRequest(c)
<1>1. worker[w].pc = "serve" /\ c \in Clients /\ c # Nobody /\ Pending(c)
      /\ UNCHANGED <<backlog, acceptor, handing, queue, sent>>
  BY DEF Serve, accVars, HttpTypes, HeldAsTold
<1>2. replies' = IF c \in gone THEN replies ELSE [replies EXCEPT ![c] = Append(@, Answer(k))]
  BY DEF Serve
<1>3. /\ replies' \in [Clients -> Seq(Nat)]
      /\ \A d \in Clients : d # c => replies'[d] = replies[d]
      /\ c \notin gone => replies'[c] = Append(replies[c], Answer(k))
      /\ c \in gone => replies' = replies
  BY <1>1, <1>2 DEF HttpTypes, Answer
<1>4. CASE c \notin gone /\ Persist(k, worker[w].served)
  <2>1. worker' = [worker EXCEPT ![w].served = @ + 1] /\ UNCHANGED conn
    BY <1>4 DEF Serve
  <2>2. /\ worker'[w].served = worker[w].served + 1
        /\ \A v \in Workers : /\ worker'[v].pc = worker[v].pc /\ worker'[v].conn = worker[v].conn
                              /\ v # w => worker'[v] = worker[v]
    BY <2>1 DEF HttpTypes
  <2>3. HttpTypes'
    <3>1. worker' \in [Workers -> [pc : {"lock", "recv", "serve", "exited"},
                                   conn : Clients \cup {Nobody}, served : Nat]]
      <4>1. worker[w].served + 1 \in Nat
        BY DEF HttpTypes
      <4> QED
        BY <4>1, <2>1 DEF HttpTypes
    <3> QED
      BY <3>1, <1>1, <1>3, <2>1 DEF HttpTypes
  <2>4. HeldOnce' /\ HeldAsTold' /\ DrainInOrder'
    BY <1>1, <2>1, <2>2 DEF HeldOnce, HeldAsTold, DrainInOrder
  <2>5. /\ conn[c] = "accepted" /\ c # handing /\ \A i \in DOMAIN queue : queue[i] # c
        /\ \A v \in Workers : v # w => worker[v].conn # c
    BY <1>1 DEF HeldAsTold, HeldOnce
  <2>6. /\ Len(replies[c]) \in Nat /\ DOMAIN replies[c] = 1..Len(replies[c])
        /\ Len(sent[c]) \in Nat /\ Len(sent[c]) > Len(replies[c])
        /\ k = sent[c][Len(replies[c]) + 1]
        /\ worker[w].served = Len(replies[c]) /\ KeepAliveMax \in Nat
        /\ Len(replies[c]) + 1 < KeepAliveMax /\ k \in {"keep", "panic"}
    BY <1>1, <1>4 DEF Pending, NextRequest, Persist, HttpTypes, AnswersFollow, HttpConstants
  <2>7. /\ Len(replies'[c]) = Len(replies[c]) + 1
        /\ DOMAIN replies'[c] = 1..Len(replies[c]) + 1
        /\ \A i \in DOMAIN replies'[c] : replies'[c][i] =
             IF i = Len(replies[c]) + 1 THEN Answer(k) ELSE replies[c][i]
    <3>1. replies[c] \in Seq(Nat) /\ Answer(k) \in Nat /\ Len(replies[c]) \in Nat
      BY <1>1 DEF HttpTypes, Answer
    <3>2. replies'[c] = Append(replies[c], Answer(k))
      BY <1>3, <1>4
    <3> HIDE DEF c, k
    <3> QED
      BY <3>1, <3>2
  <2> HIDE DEF c, k
  <2>8. AnswersFollow'
    <3>1. /\ Len(replies'[c]) <= Len(sent[c]) /\ Len(replies'[c]) <= KeepAliveMax
          /\ \A i \in DOMAIN replies'[c] :
               replies'[c][i] = Answer(sent[c][i]) /\ sent[c][i] \in {"keep", "panic"}
      <4>1. \A i \in DOMAIN replies[c] :
              replies[c][i] = Answer(sent[c][i]) /\ sent[c][i] \in {"keep", "panic"}
        BY <1>1, <2>5 DEF AnswersFollow
      <4>2. \A i \in DOMAIN replies'[c] : i = Len(replies[c]) + 1 \/ i \in DOMAIN replies[c]
        <5>1. DOMAIN replies'[c] = 1..Len(replies[c]) + 1
          BY <2>7
        <5>2. DOMAIN replies[c] = 1..Len(replies[c]) /\ Len(replies[c]) \in Nat
          BY <2>5
        <5> QED
          BY <5>1, <5>2
      <4> QED
        BY <4>1, <4>2, <2>5, <2>6, <2>7
    <3>2. \A d \in Clients \ {c} :
       /\ Len(replies'[d]) <= Len(sent'[d]) /\ Len(replies'[d]) <= KeepAliveMax
       /\ conn'[d] \in {"idle", "waiting"} => replies'[d] = <<>>
       /\ \A i \in DOMAIN replies'[d] :
            /\ replies'[d][i] = Answer(sent'[d][i])
            /\ (i < Len(replies'[d]) \/ conn'[d] = "accepted") =>
                 sent'[d][i] \in {"keep", "panic"}
       /\ handing' = d => replies'[d] = <<>>
       /\ \A i \in DOMAIN queue' : queue'[i] = d => replies'[d] = <<>>
      BY <1>1, <1>3, <2>1 DEF AnswersFollow
    <3>3. \A v \in Workers : worker'[v].conn # Nobody =>
       /\ worker'[v].served = Len(replies'[worker'[v].conn])
       /\ worker'[v].served < KeepAliveMax
      <4> SUFFICES ASSUME NEW v \in Workers, worker[v].conn # Nobody
                   PROVE  /\ worker'[v].served = Len(replies'[worker[v].conn])
                          /\ worker'[v].served < KeepAliveMax
        BY <2>2
      <4>1. CASE v = w
        BY <4>1, <2>2, <2>6, <2>7 DEF c
      <4>2. CASE v # w
        BY <4>2, <2>2, <2>5, <1>3 DEF AnswersFollow, HttpTypes
      <4> QED
        BY <4>1, <4>2
    <3>4. conn[c] = "accepted" /\ UNCHANGED <<conn, handing, queue, sent>>
      BY <1>1, <2>1, <2>5
    <3> QED
      BY <3>1, <3>2, <3>3, <3>4, <2>5 DEF AnswersFollow
  <2> QED
    BY <2>3, <2>4, <2>8
<1>5. CASE ~(c \notin gone /\ Persist(k, worker[w].served))
  <2>1. PICK how \in {"closed", "detached"} : End(w, c, how)
    BY <1>5 DEF Serve
  <2>2. \/ replies'[c] = replies[c]
        \/ Pending(c) /\ replies'[c] = Append(replies[c], Answer(k))
    BY <1>1, <1>3
  <2> QED
    BY <1>1, <1>3, <2>1, <2>2, EndKeeps
<1> QED
  BY <1>4, <1>5

LEMMA HttpNext ==
  ASSUME HttpConstants, HttpInv, [Next]_vars PROVE HttpInv'
<1>1. CASE AcceptorStep
  BY <1>1, AcceptorKeeps
<1>2. CASE Shutdown \/ (\E c \in Clients : HangUp(c)) \/ UNCHANGED vars
  <2>1. UNCHANGED <<backlog, acceptor, handing, queue, worker, conn, sent, replies>>
    BY <1>2 DEF Shutdown, HangUp, vars, accVars
  <2> QED
    BY <2>1 DEF HttpInv, HttpTypes, HeldOnce, HeldAsTold, DrainInOrder, AnswersFollow
<1>3. ASSUME NEW w \in Workers, WorkerStep(w) PROVE HttpInv'
  <2>1. CASE IdleOut(w)
    <3>1. /\ worker[w].pc = "serve" /\ worker[w].conn \in Clients
          /\ End(w, worker[w].conn, "closed")
          /\ UNCHANGED <<backlog, acceptor, handing, queue, sent, replies>>
      BY <2>1 DEF IdleOut, accVars, HttpInv, HttpTypes, HeldAsTold
    <3>2. replies' \in [Clients -> Seq(Nat)] /\ \A d \in Clients : replies'[d] = replies[d]
      BY <3>1 DEF HttpInv, HttpTypes
    <3> QED
      BY <3>1, <3>2, EndKeeps
  <2> QED
    BY <1>3, <2>1, TurnKeeps, RecvKeeps, ServeKeeps DEF WorkerStep
<1>4. ASSUME NEW c \in Clients, Connect(c) \/ \E k \in Kinds : SendRequest(c, k)
      PROVE  HttpInv'
  BY <1>4, ConnectKeeps, SendKeeps
<1> QED
  BY <1>1, <1>2, <1>3, <1>4 DEF Next

\* What the run checks follows from the invariant.
LEMMA HttpSafe ==
  ASSUME HttpConstants, HttpInv
  PROVE  OneOwner /\ WorkersStay /\ RepliesInOrder /\ DrainServesAccepted
<1> USE DEF HttpInv
<1>1. OneOwner
  <2> SUFFICES ASSUME NEW c \in Clients
               PROVE  Cardinality(Serving(c)) + (IF handing = c THEN 1 ELSE 0)
                        + Cardinality({i \in DOMAIN queue : queue[i] = c})
                      = IF conn[c] = "accepted" THEN 1 ELSE 0
    BY DEF OneOwner
  <2> DEFINE Slots == {i \in DOMAIN queue : queue[i] = c}
  <2>0. c # Nobody
    BY DEF HttpConstants
  <2>1. Serving(c) = {} \/ \E w \in Workers : Serving(c) = {w} /\ worker[w].conn = c
    BY <2>0 DEF Serving, HeldOnce
  <2>2. Slots = {} \/ \E i \in DOMAIN queue : Slots = {i} /\ queue[i] = c
    BY DEF HeldOnce
  <2>3. Cardinality({}) = 0
    BY FS_EmptySet
  <2>4. \A x : Cardinality({x}) = 1
    BY FS_Singleton
  <2>5. CASE \E w \in Workers : worker[w].conn = c
    <3>1. Cardinality(Serving(c)) = 1 /\ Slots = {} /\ handing # c /\ conn[c] = "accepted"
      <4>1. PICK w \in Workers : worker[w].conn = c
        BY <2>5
      <4>2. Serving(c) = {w}
        BY <2>0, <4>1 DEF Serving, HeldOnce
      <4>3. Slots = {} /\ handing # c
        BY <2>0, <4>1 DEF HeldOnce
      <4>4. conn[c] = "accepted"
        BY <2>0, <4>1 DEF HeldAsTold
      <4> QED
        BY <4>2, <4>3, <4>4, <2>4
    <3> QED
      BY <3>1, <2>3
  <2>6. CASE Slots # {}
    <3>1. PICK i \in DOMAIN queue : Slots = {i} /\ queue[i] = c
      BY <2>2, <2>6
    <3>2. Serving(c) = {} /\ handing # c /\ conn[c] = "accepted"
      BY <2>0, <3>1 DEF Serving, HeldOnce, HeldAsTold
    <3>3. Cardinality(Slots) = 1
      BY <3>1, <2>4
    <3> QED
      BY <3>2, <3>3, <2>3
  <2>7. CASE Slots = {} /\ ~\E w \in Workers : worker[w].conn = c
    <3>1. Serving(c) = {} /\ (handing = c <=> conn[c] = "accepted")
      BY <2>0, <2>7 DEF Serving, HeldAsTold
    <3> QED
      BY <3>1, <2>7, <2>3
  <2> QED
    BY <2>5, <2>6, <2>7
<1>2. WorkersStay
  BY DEF WorkersStay, DrainInOrder
<1>3. RepliesInOrder
  BY DEF RepliesInOrder, AnswersFollow
<1>4. DrainServesAccepted
  <2> SUFFICES ASSUME acceptor = "returned"
               PROVE  (\A c \in Clients : conn[c] # "accepted") /\ queue = <<>> /\ handing = Nobody
    BY DEF DrainServesAccepted
  <2>1. queue = <<>> /\ DOMAIN queue = {} /\ handing = Nobody
    BY DEF DrainInOrder, HttpConstants
  <2>2. \A w \in Workers : worker[w].conn = Nobody
    BY DEF DrainInOrder, HeldAsTold, HttpTypes
  <2> QED
    BY <2>1, <2>2 DEF HeldAsTold, HttpConstants
<1> QED
  BY <1>1, <1>2, <1>3, <1>4

THEOREM HttpInductive ==
  ASSUME HttpConstants
  PROVE  Spec => []HttpInv
<1>1. Init => HttpInv
  BY HttpInit
<1>2. HttpInv /\ [Next]_vars => HttpInv'
  BY HttpNext
<1> QED
  BY <1>1, <1>2, PTL DEF Spec

\* A connection taken from the backlog is in the acceptor's hand, in the queue
\* or with one worker, until it has ended; whatever handlers do, no worker is
\* lost before the pool is dropped (serve_until, ThreadPool).
THEOREM ConnectionsHaveOneOwner ==
  ASSUME HttpConstants
  PROVE  Spec => [](OneOwner /\ WorkersStay)
<1>1. HttpInv => OneOwner /\ WorkersStay
  BY HttpSafe
<1> QED
  BY <1>1, HttpInductive, PTL

\* A kept-alive connection answers its requests in order and stops at the first
\* that closes it or at keep_alive_max (handle_connection).
THEOREM AnswersInOrder ==
  ASSUME HttpConstants
  PROVE  Spec => []RepliesInOrder
<1>1. HttpInv => RepliesInOrder
  BY HttpSafe
<1> QED
  BY <1>1, HttpInductive, PTL

\* serve_until returns with nothing it accepted left unserved.
THEOREM DrainLeavesNothing ==
  ASSUME HttpConstants
  PROVE  Spec => []DrainServesAccepted
<1>1. HttpInv => DrainServesAccepted
  BY HttpSafe
<1> QED
  BY <1>1, HttpInductive, PTL

(***************************************************************************)
(* Accounts.  The unique index keeps the addresses apart.  A link or a     *)
(* token means a person by the id of a row: as long as ids are not given   *)
(* out again, whoever stands under the id is the one it was made for.      *)
(***************************************************************************)

AccountsConstants == MaxPersons \in Nat /\ ReuseIds \in BOOLEAN

Emails == {Normal[t] : t \in Written} \cup {"none"}
User == [email : Emails, verified : BOOLEAN, person : Nat]

AccountTypes ==
  /\ users \in [Accounts!Ids -> User]
  /\ persons \in 0..MaxPersons /\ highest \in Nat /\ highest <= persons
  /\ accWorker \in [AccountWorkers -> [op : {"idle", "insert", "set_email", "confirm"},
                             id : Nat, email : Emails]]

\* A row's id is one that was given out, its person one that registered.
RowsInv == \A i \in Accounts!Rows : i <= highest /\ users[i].person \in 1..persons

\* A link and a token, and a worker that follows a link, mean the person their
\* id stands for, or nobody when the row is gone: the id is not given again.
IdsMeanOnePerson ==
  /\ \A l \in accLinks : l.uid \in 1..highest
       /\ (l.uid \in Accounts!Rows => users[l.uid].person = l.person)
  /\ \A t \in tokens : t.uid \in 1..highest
       /\ (t.uid \in Accounts!Rows => users[t.uid].person = t.person)
  /\ \A w \in AccountWorkers : accWorker[w].op = "confirm" => accWorker[w].id \in 1..highest
       /\ (accWorker[w].id \in Accounts!Rows => \E l \in accLinks : l.person = users[accWorker[w].id].person)

\* Inductive; the last part only where ids are not reused.
AccountsInv ==
  /\ AccountTypes /\ RowsInv /\ Accounts!EmailsUnique
  /\ ~ReuseIds => IdsMeanOnePerson /\ Accounts!VerifiedWasMailed /\ Accounts!TokensReachTheirOwner

\* A set of numbers with a bound has a largest one.
LEMMA MaxOfNumbers ==
  ASSUME NEW S \in SUBSET Nat, S # {}, NEW b \in Nat, \A x \in S : x <= b
  PROVE  Accounts!Max(S) \in S /\ \A x \in S : x <= Accounts!Max(S)
<1> DEFINE T == {b - x : x \in S}
<1>1. \A x \in S : x \in Nat /\ b - x \in Nat
  OBVIOUS
<1>2. T \subseteq Nat /\ T # {}
  BY <1>1
<1>3. PICK m \in T : \A y \in T : ~(<<y, m>> \in OpToRel(<, Nat))
  <2> HIDE DEF T
  <2> QED
    BY <1>2, NatLessThanWellFounded, WFMin
<1>4. \A y \in T : ~(y < m)
  BY <1>2, <1>3 DEF OpToRel
<1>5. PICK z \in S : m = b - z
  BY <1>3
<1>6. \A x \in S : x <= z
  <2> SUFFICES ASSUME NEW x \in S PROVE x <= z
    OBVIOUS
  <2>1. ~(b - x < b - z)
    BY <1>4, <1>5
  <2> QED
    BY <2>1, <1>1
<1>7. \E x \in S : \A y \in S : x >= y
  BY <1>6, <1>1
<1>8. Accounts!Max(S) \in S /\ \A y \in S : Accounts!Max(S) >= y
  BY <1>7 DEF Accounts!Max
<1> QED
  BY <1>8, <1>1

LEMMA NextIdIsNew ==
  ASSUME AccountsConstants, AccountTypes, RowsInv, persons < MaxPersons
  PROVE  /\ Accounts!NextId \in Accounts!Ids /\ Accounts!NextId \notin Accounts!Rows /\ Accounts!NextId <= highest + 1
         /\ ~ReuseIds => Accounts!NextId = highest + 1
         /\ Accounts!Max({highest, Accounts!NextId}) \in Nat /\ Accounts!Max({highest, Accounts!NextId}) <= highest + 1
         /\ highest <= Accounts!Max({highest, Accounts!NextId}) /\ Accounts!NextId <= Accounts!Max({highest, Accounts!NextId})
<1>1. Accounts!Rows \cup {0} \in SUBSET Nat /\ \A x \in Accounts!Rows \cup {0} : x <= highest
  BY DEF AccountTypes, RowsInv, Accounts!Rows, Accounts!Ids
<1>2. highest \in Nat /\ persons \in Nat /\ highest <= persons /\ MaxPersons \in Nat
  BY DEF AccountTypes, AccountsConstants
<1>3. Accounts!Max(Accounts!Rows \cup {0}) \in Accounts!Rows \cup {0} /\ \A x \in Accounts!Rows \cup {0} : x <= Accounts!Max(Accounts!Rows \cup {0})
  BY <1>1, <1>2, MaxOfNumbers
<1>4. Accounts!NextId \in Nat \ {0} /\ Accounts!NextId <= highest + 1 /\ Accounts!NextId \notin Accounts!Rows
      /\ (~ReuseIds => Accounts!NextId = highest + 1)
  <2>1. CASE ReuseIds
    BY <2>1, <1>1, <1>2, <1>3 DEF Accounts!NextId
  <2>2. CASE ~ReuseIds
    BY <2>2, <1>1, <1>2 DEF Accounts!NextId
  <2> QED
    BY <2>1, <2>2
<1>5. {highest, Accounts!NextId} \in SUBSET Nat /\ \A x \in {highest, Accounts!NextId} : x <= highest + 1
  BY <1>2, <1>4
<1>6. Accounts!Max({highest, Accounts!NextId}) \in {highest, Accounts!NextId}
      /\ \A x \in {highest, Accounts!NextId} : x <= Accounts!Max({highest, Accounts!NextId})
  <2>1. {highest, Accounts!NextId} # {} /\ highest + 1 \in Nat
    BY <1>2
  <2> QED
    BY <2>1, <1>5, MaxOfNumbers
<1> QED
  BY <1>2, <1>4, <1>5, <1>6 DEF Accounts!Ids

LEMMA AccountsInit == ASSUME AccountsConstants, Accounts!Init PROVE AccountsInv
<1>1. AccountTypes
  BY DEF Accounts!Init, AccountTypes, AccountsConstants, User, Emails, Accounts!None, Accounts!Idle
<1>2. Accounts!Rows = {}
  BY DEF Accounts!Init, Accounts!Rows
<1>3. \A w \in AccountWorkers : accWorker[w].op = "idle"
  BY DEF Accounts!Init, Accounts!Idle
<1> QED
  BY <1>1, <1>2, <1>3 DEF Accounts!Init, AccountsInv, RowsInv, Accounts!EmailsUnique,
     IdsMeanOnePerson,
     Accounts!VerifiedWasMailed, Accounts!TokensReachTheirOwner

\* What a step of one worker that writes nothing has to show.
LEMMA WorkerMoves ==
  ASSUME AccountsConstants, AccountsInv, NEW w \in AccountWorkers,
         UNCHANGED <<users, persons, highest, accLinks, tokens, acted>>,
         NEW op \in {"idle", "insert", "set_email", "confirm"}, NEW id \in Nat,
         NEW email \in Emails, Accounts!Become(w, op, id, email),
         ~ReuseIds /\ op = "confirm" => id \in 1..highest
           /\ (id \in Accounts!Rows => \E l \in accLinks : l.person = users[id].person)
  PROVE  AccountsInv'
<1>1. accWorker' = [accWorker EXCEPT ![w] = [op |-> op, id |-> id, email |-> email]]
      /\ Accounts!Rows' = Accounts!Rows
  BY DEF Accounts!Become, Accounts!Rows
<1>2. AccountTypes'
  BY <1>1 DEF AccountsInv, AccountTypes
<1>3. /\ accWorker'[w].op = op /\ accWorker'[w].id = id
      /\ \A v \in AccountWorkers \ {w} : accWorker'[v] = accWorker[v]
  BY <1>1 DEF AccountsInv, AccountTypes
<1>4. RowsInv' /\ Accounts!EmailsUnique'
  BY <1>1 DEF AccountsInv, RowsInv, Accounts!EmailsUnique
<1>5. ~ReuseIds => IdsMeanOnePerson'
  BY <1>1, <1>3 DEF AccountsInv, IdsMeanOnePerson
<1>6. ~ReuseIds => Accounts!VerifiedWasMailed' /\ Accounts!TokensReachTheirOwner'
  BY <1>1 DEF AccountsInv, Accounts!VerifiedWasMailed, Accounts!TokensReachTheirOwner
<1> QED
  BY <1>2, <1>4, <1>5, <1>6 DEF AccountsInv

LEMMA LooksKeep ==
  ASSUME AccountsConstants, AccountsInv, NEW w \in AccountWorkers,
         \/ \E text \in Written : Accounts!register_with(w, text) \/ \E i \in Accounts!Ids : Accounts!set_email(w, i, text)
         \/ \E l \in accLinks : Accounts!confirm_email(w, l)
  PROVE  AccountsInv'
<1>0. Accounts!Ids \subseteq Nat /\ Accounts!Rows \subseteq Accounts!Ids /\ "none" \in Emails /\ 0 \in Nat
      /\ \A text \in Written : Accounts!normalize_email(text) \in Emails
  BY DEF Accounts!Ids, Accounts!Rows, Emails, Accounts!normalize_email
<1>1. ASSUME NEW text \in Written, Accounts!register_with(w, text) PROVE AccountsInv'
  BY <1>0, <1>1, WorkerMoves DEF Accounts!register_with
<1>2. ASSUME NEW text \in Written, NEW i \in Accounts!Ids, Accounts!set_email(w, i, text) PROVE AccountsInv'
  BY <1>0, <1>2, WorkerMoves DEF Accounts!set_email
<1>3. ASSUME NEW l \in accLinks, Accounts!confirm_email(w, l) PROVE AccountsInv'
  <2>1. l.uid \in Nat /\ l.uid \in Accounts!Rows /\ Accounts!Become(w, "confirm", l.uid, "none")
        /\ UNCHANGED <<users, persons, highest, accLinks, tokens, acted>>
    BY <1>0, <1>3 DEF Accounts!confirm_email
  <2>2. ~ReuseIds => l.uid \in 1..highest /\ l.person = users[l.uid].person
    BY <2>1 DEF AccountsInv, IdsMeanOnePerson
  <2> QED
    BY <1>0, <2>1, <2>2, WorkerMoves
<1> QED
  BY <1>1, <1>2, <1>3

LEMMA InsertKeeps ==
  ASSUME AccountsConstants, AccountsInv, NEW w \in AccountWorkers,
         Accounts!insert(w) PROVE AccountsInv'
<1>0. "none" \in Emails /\ 0 \in Nat /\ Accounts!Done(w) /\ UNCHANGED <<accLinks, tokens, accClock, acted>>
  BY DEF Emails, Accounts!insert
<1>1. CASE Accounts!find_by_email(accWorker[w].email) # {} \/ persons = MaxPersons
  BY <1>0, <1>1, WorkerMoves DEF Accounts!insert, Accounts!Done
<1>2. CASE Accounts!find_by_email(accWorker[w].email) = {} /\ persons # MaxPersons
  <2> DEFINE n == Accounts!NextId
             e == accWorker[w].email
  <2>1. /\ persons' = persons + 1
        /\ users' = [users EXCEPT ![n] = [email |-> e, verified |-> FALSE, person |-> persons + 1]]
        /\ highest' = Accounts!Max({highest, n})
        /\ accWorker' = [accWorker EXCEPT ![w] = [op |-> "idle", id |-> 0, email |-> "none"]]
    BY <1>0, <1>2 DEF Accounts!insert, Accounts!Done, Accounts!Become
  <2>2. persons < MaxPersons /\ persons \in Nat /\ MaxPersons \in Nat /\ highest \in Nat
        /\ highest <= persons /\ e \in Emails
    BY <1>2 DEF AccountsInv, AccountTypes, AccountsConstants
  <2>3. /\ n \in Accounts!Ids /\ n \notin Accounts!Rows /\ n <= highest + 1 /\ (~ReuseIds => n = highest + 1)
        /\ highest' \in Nat /\ highest' <= highest + 1 /\ highest <= highest' /\ n <= highest'
    BY <2>1, <2>2, NextIdIsNew DEF AccountsInv
  <2> HIDE DEF n, e
  <2>4. AccountTypes'
    BY <1>0, <2>1, <2>2, <2>3 DEF AccountsInv, AccountTypes, User
  <2>5. /\ users'[n] = [email |-> e, verified |-> FALSE, person |-> persons + 1]
        /\ \A i \in Accounts!Ids \ {n} : users'[i] = users[i]
    BY <2>1, <2>3 DEF AccountsInv, AccountTypes
  <2>6. users'[n] # Accounts!None
    BY <2>5, <2>2 DEF Accounts!None
  <2>7. Accounts!Rows' = Accounts!Rows \cup {n} /\ \A i \in Accounts!Rows : users'[i] = users[i] /\ i # n
    BY <2>3, <2>5, <2>6 DEF Accounts!Rows
  <2>8. RowsInv'
    <3>1. \A i \in Accounts!Rows : i <= highest' /\ users'[i].person \in 1..persons'
      <4> SUFFICES ASSUME NEW i \in Accounts!Rows PROVE i <= highest' /\ users'[i].person \in 1..persons'
        OBVIOUS
      <4>1. i \in Nat /\ i <= highest /\ users[i].person \in 1..persons
        BY DEF AccountsInv, RowsInv, Accounts!Rows, Accounts!Ids
      <4> QED
        BY <4>1, <2>1, <2>2, <2>3, <2>7
    <3>2. n <= highest' /\ users'[n].person \in 1..persons'
      BY <2>1, <2>2, <2>3, <2>5
    <3> QED
      BY <3>1, <3>2, <2>7 DEF RowsInv
  <2>9. Accounts!EmailsUnique'
    <3>1. \A i \in Accounts!Rows : users[i].email # e
      BY <1>2 DEF Accounts!find_by_email, e
    <3> QED
      BY <3>1, <2>5, <2>7 DEF AccountsInv, Accounts!EmailsUnique
  <2>10. ASSUME ~ReuseIds PROVE IdsMeanOnePerson' /\ Accounts!VerifiedWasMailed' /\ Accounts!TokensReachTheirOwner'
    <3>1. n = highest + 1 /\ \A x \in 1..highest : x # n /\ x \in 1..highest'
      BY <2>2, <2>3, <2>10
    <3>2. /\ accWorker'[w].op = "idle" /\ \A v \in AccountWorkers \ {w} : accWorker'[v] = accWorker[v]
      BY <2>1 DEF AccountsInv, AccountTypes
    <3>3. IdsMeanOnePerson'
      BY <1>0, <2>7, <2>10, <3>1, <3>2 DEF AccountsInv, IdsMeanOnePerson
    <3>4. Accounts!VerifiedWasMailed'
      BY <1>0, <2>5, <2>7, <2>10 DEF AccountsInv, Accounts!VerifiedWasMailed
    <3> QED
      BY <1>0, <2>10, <3>3, <3>4 DEF AccountsInv, Accounts!TokensReachTheirOwner
  <2> QED
    BY <2>4, <2>8, <2>9, <2>10 DEF AccountsInv
<1> QED
  BY <1>1, <1>2

\* An UPDATE of one row, by a worker that is done with it.
LEMMA UpdateKeeps ==
  ASSUME AccountsConstants, AccountsInv, NEW w \in AccountWorkers, NEW i \in Accounts!Rows,
         NEW e \in Emails, NEW v \in BOOLEAN,
         users' = [users EXCEPT ![i].email = e, ![i].verified = v],
         UNCHANGED <<persons, highest, accLinks, tokens, acted>>, Accounts!Done(w),
         Accounts!find_by_email(e) \subseteq {i},
         ~ReuseIds /\ v => \E l \in accLinks : l.person = users[i].person
  PROVE  AccountsInv'
<1>1. i \in Accounts!Ids /\ users[i] \in User
  BY DEF Accounts!Rows, AccountsInv, AccountTypes
<1>2. /\ users'[i] = [email |-> e, verified |-> v, person |-> users[i].person]
      /\ users'[i].email = e /\ users'[i].verified = v /\ users'[i].person = users[i].person
      /\ \A j \in Accounts!Ids : j # i => users'[j] = users[j]
  BY <1>1 DEF AccountsInv, AccountTypes, User
<1>3. accWorker' = [accWorker EXCEPT ![w] = [op |-> "idle", id |-> 0, email |-> "none"]]
  BY DEF Accounts!Done, Accounts!Become
<1>4. "none" \in Emails /\ 0 \in Nat
  BY DEF Emails
<1>5. AccountTypes'
  BY <1>1, <1>3, <1>4 DEF AccountsInv, AccountTypes, User
<1>6. users'[i] # Accounts!None
  BY <1>2 DEF AccountsInv, RowsInv, Accounts!None
<1>7. Accounts!Rows' = Accounts!Rows
  BY <1>1, <1>2, <1>6 DEF Accounts!Rows
<1>8. \A j \in Accounts!Rows : /\ j \in Accounts!Ids /\ users'[j].person = users[j].person
                               /\ j # i => users'[j] = users[j]
  <2> SUFFICES ASSUME NEW j \in Accounts!Rows
               PROVE  /\ j \in Accounts!Ids /\ users'[j].person = users[j].person
                      /\ j # i => users'[j] = users[j]
    OBVIOUS
  <2>1. j \in Accounts!Ids
    BY DEF Accounts!Rows
  <2>2. CASE j = i
    BY <2>1, <2>2, <1>2
  <2>3. CASE j # i
    <3>1. users'[j] = users[j]
      BY <2>1, <2>3, <1>2
    <3> QED
      BY <2>1, <3>1, <2>3
  <2> QED
    BY <2>2, <2>3
<1>9. RowsInv'
  BY <1>7, <1>8 DEF AccountsInv, RowsInv
<1>10. Accounts!EmailsUnique'
  <2>1. \A j \in Accounts!Rows : j # i => users[j].email # e
    BY DEF Accounts!find_by_email
  <2> SUFFICES ASSUME NEW j \in Accounts!Rows, NEW k \in Accounts!Rows, j # k
               PROVE  users'[j].email # users'[k].email
    BY <1>7 DEF Accounts!EmailsUnique
  <2>2. CASE j = i
    BY <2>1, <2>2, <1>2, <1>8
  <2>3. CASE k = i
    BY <2>1, <2>3, <1>2, <1>8
  <2>4. CASE j # i /\ k # i
    BY <2>4, <1>8 DEF AccountsInv, Accounts!EmailsUnique
  <2> QED
    BY <2>2, <2>3, <2>4
<1>11. ASSUME ~ReuseIds PROVE IdsMeanOnePerson' /\ Accounts!VerifiedWasMailed' /\ Accounts!TokensReachTheirOwner'
  <2>1. accWorker'[w].op = "idle" /\ \A u \in AccountWorkers \ {w} : accWorker'[u] = accWorker[u]
    BY <1>3 DEF AccountsInv, AccountTypes
  <2>2. IdsMeanOnePerson'
    <3>1. IdsMeanOnePerson /\ \A j \in Accounts!Rows : users'[j].person = users[j].person
      BY <1>8, <1>11 DEF AccountsInv
    <3>2. \A u \in AccountWorkers : accWorker'[u].op = "confirm" => accWorker'[u] = accWorker[u]
      BY <2>1
    <3>3. /\ \A l \in accLinks : l.uid \in 1..highest
               /\ (l.uid \in Accounts!Rows => users'[l.uid].person = l.person)
          /\ \A t \in tokens : t.uid \in 1..highest
               /\ (t.uid \in Accounts!Rows => users'[t.uid].person = t.person)
      BY <3>1 DEF IdsMeanOnePerson
    <3>4. \A u \in AccountWorkers : accWorker'[u].op = "confirm" => accWorker'[u].id \in 1..highest
            /\ (accWorker'[u].id \in Accounts!Rows => \E l \in accLinks : l.person = users'[accWorker'[u].id].person)
      <4> SUFFICES ASSUME NEW u \in AccountWorkers, accWorker'[u].op = "confirm"
                   PROVE  accWorker'[u].id \in 1..highest
                     /\ (accWorker'[u].id \in Accounts!Rows =>
                           \E l \in accLinks : l.person = users'[accWorker'[u].id].person)
        OBVIOUS
      <4>1. accWorker'[u] = accWorker[u]
        BY <3>2
      <4>2. accWorker[u].id \in 1..highest
            /\ (accWorker[u].id \in Accounts!Rows => \E l \in accLinks : l.person = users[accWorker[u].id].person)
        BY <3>1, <4>1 DEF IdsMeanOnePerson
      <4> QED
        BY <3>1, <4>1, <4>2
    <3> QED
      BY <3>3, <3>4, <1>7 DEF IdsMeanOnePerson
  <2>3. Accounts!VerifiedWasMailed'
    <3> SUFFICES ASSUME NEW j \in Accounts!Rows, users'[j].verified
                 PROVE  \E l \in accLinks : l.person = users'[j].person
      BY <1>7 DEF Accounts!VerifiedWasMailed
    <3>1. CASE j = i
      BY <3>1, <1>2, <1>11
    <3>2. CASE j # i
      BY <3>2, <1>8, <1>11 DEF AccountsInv, Accounts!VerifiedWasMailed
    <3> QED
      BY <3>1, <3>2
  <2> QED
    BY <1>11, <2>2, <2>3 DEF AccountsInv, Accounts!TokensReachTheirOwner
<1> QED
  BY <1>5, <1>9, <1>10, <1>11 DEF AccountsInv

LEMMA WritesKeep ==
  ASSUME AccountsConstants, AccountsInv, NEW w \in AccountWorkers,
         Accounts!UpdateEmail(w) \/ Accounts!mark_verified(w)
  PROVE  AccountsInv'
<1>0. "none" \in Emails /\ 0 \in Nat /\ Accounts!Done(w)
      /\ UNCHANGED <<persons, highest, accLinks, tokens, acted>>
      /\ accWorker[w].email \in Emails
  BY DEF Emails, Accounts!UpdateEmail, Accounts!mark_verified, AccountsInv, AccountTypes
<1>1. CASE users' = users
  BY <1>0, <1>1, WorkerMoves DEF Accounts!Done
<1>2. CASE Accounts!UpdateEmail(w) /\ users' # users
  BY <1>0, <1>2, UpdateKeeps DEF Accounts!UpdateEmail
<1>3. CASE Accounts!mark_verified(w) /\ users' # users
  <2> DEFINE i == accWorker[w].id
  <2>1. i \in Accounts!Rows /\ users' = [users EXCEPT ![i].verified = TRUE] /\ accWorker[w].op = "confirm"
    BY <1>3 DEF Accounts!mark_verified
  <2>2. i \in Accounts!Ids /\ users[i] \in User /\ users[i].email \in Emails
    BY <2>1 DEF Accounts!Rows, AccountsInv, AccountTypes, User
  <2>3. users' = [users EXCEPT ![i].email = users[i].email, ![i].verified = TRUE]
    BY <2>1, <2>2 DEF AccountsInv, AccountTypes, User
  <2>4. Accounts!find_by_email(users[i].email) \subseteq {i}
    BY <2>1 DEF Accounts!find_by_email, AccountsInv, Accounts!EmailsUnique
  <2>5. ~ReuseIds => \E l \in accLinks : l.person = users[i].person
    BY <2>1 DEF AccountsInv, IdsMeanOnePerson
  <2> QED
    BY <1>0, <2>1, <2>2, <2>3, <2>4, <2>5, UpdateKeeps
<1> QED
  BY <1>1, <1>2, <1>3

LEMMA DeleteKeeps ==
  ASSUME AccountsConstants, AccountsInv, NEW i \in Accounts!Ids,
         Accounts!delete(i) PROVE AccountsInv'
<1>1. /\ i \in Accounts!Rows /\ users' = [users EXCEPT ![i] = Accounts!None]
      /\ UNCHANGED <<persons, highest, accWorker, accLinks, tokens, accClock, acted>>
  BY DEF Accounts!delete
<1>2. AccountTypes'
  BY <1>1 DEF AccountsInv, AccountTypes, User, Accounts!None, Emails
<1>3. Accounts!Rows' = Accounts!Rows \ {i} /\ \A j \in Accounts!Rows' : users'[j] = users[j]
  BY <1>1 DEF Accounts!Rows, AccountsInv, AccountTypes
<1>4. RowsInv' /\ Accounts!EmailsUnique'
  BY <1>1, <1>3 DEF AccountsInv, RowsInv, Accounts!EmailsUnique
<1>5. ~ReuseIds => IdsMeanOnePerson' /\ Accounts!VerifiedWasMailed' /\ Accounts!TokensReachTheirOwner'
  BY <1>1, <1>3 DEF AccountsInv, IdsMeanOnePerson, Accounts!VerifiedWasMailed,
     Accounts!TokensReachTheirOwner
<1> QED
  BY <1>2, <1>4, <1>5 DEF AccountsInv

\* Links and tokens are made for a row, and go.
LEMMA PapersKeep ==
  ASSUME AccountsConstants, AccountsInv,
         UNCHANGED <<users, persons, highest, accWorker>>,
         \A l \in accLinks : l \in accLinks',
         \A l \in accLinks' \ accLinks : \E i \in Accounts!Rows : l.uid = i /\ l.person = users[i].person,
         \A t \in tokens' \ tokens : \E i \in Accounts!Rows : t.uid = i /\ t.person = users[i].person,
         \/ acted' = acted
         \/ \E t \in tokens : t.uid \in Accounts!Rows /\ acted' = [token |-> t, user |-> users[t.uid]]
  PROVE  AccountsInv'
<1>1. Accounts!Rows' = Accounts!Rows /\ AccountTypes' /\ RowsInv' /\ Accounts!EmailsUnique'
  BY DEF Accounts!Rows, AccountsInv, AccountTypes, RowsInv, Accounts!EmailsUnique
<1>2. ASSUME ~ReuseIds PROVE IdsMeanOnePerson' /\ Accounts!VerifiedWasMailed' /\ Accounts!TokensReachTheirOwner'
  <2>1. \A i \in Accounts!Rows : i \in 1..highest
    BY DEF AccountsInv, AccountTypes, RowsInv, Accounts!Rows, Accounts!Ids
  <2>2. IdsMeanOnePerson'
    BY <1>1, <1>2, <2>1 DEF AccountsInv, IdsMeanOnePerson
  <2>3. Accounts!VerifiedWasMailed'
    BY <1>1, <1>2 DEF AccountsInv, Accounts!VerifiedWasMailed
  <2>4. Accounts!TokensReachTheirOwner'
    BY <1>2 DEF AccountsInv, IdsMeanOnePerson, Accounts!TokensReachTheirOwner
  <2> QED
    BY <2>2, <2>3, <2>4
<1> QED
  BY <1>1, <1>2 DEF AccountsInv

LEMMA AccountsNext ==
  ASSUME AccountsConstants, AccountsInv, [Accounts!Next]_(Accounts!vars) PROVE AccountsInv'
<1>1. ASSUME NEW i \in Accounts!Ids, Accounts!send_verification(i) \/ Accounts!revoke_all(i) \/ Accounts!issue(i, 0) \/ Accounts!issue(i, 1)
      PROVE AccountsInv'
  <2>1. CASE Accounts!send_verification(i)
    BY <2>1, PapersKeep DEF Accounts!send_verification, Accounts!mint
  <2>2. CASE Accounts!revoke_all(i)
    BY <2>2, PapersKeep DEF Accounts!revoke_all
  <2>3. CASE Accounts!issue(i, 0) \/ Accounts!issue(i, 1)
    BY <2>3, PapersKeep DEF Accounts!issue
  <2> QED
    BY <1>1, <2>1, <2>2, <2>3
<1>2. ASSUME NEW t \in tokens, Accounts!token_user(t) \/ Accounts!revoke(t) PROVE AccountsInv'
  BY <1>2, PapersKeep DEF Accounts!token_user, Accounts!revoke
<1>3. CASE Accounts!Tick \/ UNCHANGED Accounts!vars
  BY <1>3, PapersKeep DEF Accounts!Tick, Accounts!vars
<1> QED
  BY <1>1, <1>2, <1>3, LooksKeep, InsertKeeps, WritesKeep, DeleteKeeps DEF Accounts!Next

LEMMA AccountsSafe ==
  ASSUME AccountsConstants, AccountsInv
  PROVE  /\ Accounts!TypeOK /\ Accounts!EmailsUnique
         /\ ~ReuseIds => Accounts!VerifiedWasMailed /\ Accounts!TokensReachTheirOwner
  BY DEF AccountsInv, AccountTypes, RowsInv, Accounts!TypeOK

THEOREM AccountsInductive ==
  ASSUME AccountsConstants
  PROVE  Accounts!Spec => []AccountsInv
<1>1. Accounts!Init => AccountsInv
  BY AccountsInit
<1>2. AccountsInv /\ [Accounts!Next]_(Accounts!vars) => AccountsInv'
  BY AccountsNext
<1> QED
  BY <1>1, <1>2, PTL DEF Accounts!Spec

\* An address is that of one account, however the looks and the writes of
\* registrations and renamings overlap, on either database (UserStore).
THEOREM AddressesAreUnique ==
  ASSUME AccountsConstants
  PROVE  Accounts!Spec => []Accounts!EmailsUnique
<1>1. AccountsInv => Accounts!EmailsUnique
  BY AccountsSafe
<1> QED
  BY <1>1, AccountsInductive, PTL

\* Where the database never repeats an id, who is verified was mailed a link,
\* and a token acts for the account it was issued to (confirm_email, verify).
THEOREM PapersMeanTheirOwner ==
  ASSUME AccountsConstants, ~ReuseIds
  PROVE  Accounts!Spec => [](Accounts!VerifiedWasMailed /\ Accounts!TokensReachTheirOwner)
<1>1. AccountsInv => Accounts!VerifiedWasMailed /\ Accounts!TokensReachTheirOwner
  BY AccountsSafe
<1> QED
  BY <1>1, AccountsInductive, PTL

(***************************************************************************)
(* Mail.  The SMTP client goes through its commands in order; how far it   *)
(* is tells what the relay has taken, and until the text is acknowledged   *)
(* nothing is in delivery.                                                 *)
(***************************************************************************)

Email == [from : Addrs \cup {None, Mail!DefaultFrom}, to : Seq(Addrs), cc : Seq(Addrs),
          bcc : Seq(Addrs), bad : BOOLEAN]
Chars == STRING \cup {"."}
Text == Seq(Seq(Chars))
Calls == Seq({"from", "to", "cc", "bcc"} \X (Addrs \cup {Bad}))
Sending == [email : Email, lines : Text, asked : Calls, before : Nat]

MailConstants ==
  /\ Bad \notin Addrs
  /\ Contents \subseteq Text
  /\ None \notin Sending

Verbs == {"connect", "EHLO", "AUTH PLAIN", "AUTH LOGIN", "user", "pass", "MAIL", "RCPT",
          "DATA", ".", "QUIT"}
Commands == [verb : Verbs, arg : Addrs \cup {None, Mail!DefaultFrom} \cup Text]
Message == [rcpts : SUBSET Addrs, text : Text,
            headers : [from : Addrs \cup {None, Mail!DefaultFrom}, to : Seq(Addrs), cc : Seq(Addrs)]]

MailTypes ==
  /\ draft \in Email /\ asked \in Calls
  /\ script \in Seq(Commands) /\ box \in Seq(Message)
  /\ sending \in Sending \cup {None}

\* What a draft, or the message under way, owes to the calls that built it.
Everyone(e) == Mail!ToSet(e.to) \cup Mail!ToSet(e.cc) \cup Mail!ToSet(e.bcc)
BuiltBy(e, calls) ==
  /\ Mail!Wanted(calls) = Everyone(e)
  /\ \A a \in Mail!ToSet(e.to) \cup Mail!ToSet(e.cc) :
       \E i \in DOMAIN calls : calls[i][1] \in {"to", "cc"} /\ calls[i][2] = a
  /\ (\E i \in DOMAIN calls : calls[i] = <<"to", Bad>>) => e.bad

\* The message a send is to put into delivery.
Parcel(x) == [rcpts |-> Mail!Wanted(x.asked), text |-> x.lines, headers |-> Mail!Headers(x.email)]

\* The number of the MAIL command, and of recipients.
MailAt == Len(Mail!Login) + 3
Count(e) == Len(Mail!recipients(e))

\* The recipients of the first k commands, when m is the number of MAIL.
Accepted(e, m, k) == {Mail!recipients(e)[j] : j \in {i \in 1..Count(e) : m + i <= k}}

\* What the relay holds and has put into delivery behind the first k commands.
Progress(x, k) ==
  LET m == MailAt
      n == Count(x.email)
  IN /\ m <= k /\ k < m + n + 2 => relay = Accepted(x.email, m, k)
     /\ k < m + n + 2 => Len(box) = x.before
     /\ k >= m + n + 2 => Len(box) = x.before + 1 /\ box[x.before + 1] = Parcel(x)

\* The script is what is left of the dialogue behind these commands.
Behind(x, k) ==
  /\ k < MailAt + Count(x.email) + 3
  /\ Len(script) = MailAt + Count(x.email) + 3 - k
  /\ \A i \in 1..Len(script) : script[i] = Mail!Smtp(x.email, x.lines)[k + i]

Dialogue == \E k \in Nat : Behind(sending, k) /\ Progress(sending, k)

SendingInv ==
  sending # None =>
    BuiltBy(sending.email, sending.asked) /\ Mail!validate(sending.email) /\ Dialogue

MailInv ==
  /\ MailTypes /\ BuiltBy(draft, asked) /\ SendingInv
  /\ Mail!AllOrNothing /\ Mail!BccStaysHidden /\ Mail!InvalidSurfaces

-----------------------------------------------------------------------------
(* Sequences and texts.                                                    *)

LEMMA Concatenated ==
  ASSUME NEW S, NEW s \in Seq(S), NEW t \in Seq(S)
  PROVE  /\ s \o t \in Seq(S) /\ Len(s \o t) = Len(s) + Len(t)
         /\ Len(s) \in Nat /\ Len(t) \in Nat
         /\ \A i \in 1..Len(s) + Len(t) :
              (s \o t)[i] = IF i <= Len(s) THEN s[i] ELSE t[i - Len(s)]
OBVIOUS

LEMMA OneMoreDot ==
  ASSUME NEW l \in Seq(Chars), l # <<>>
  PROVE  /\ (<<".">> \o l) \in Seq(Chars) /\ Len(<<".">> \o l) > 1
         /\ (<<".">> \o l)[1] = "." /\ Tail(<<".">> \o l) = l
<1> DEFINE t == <<".">>
           d == t \o l
<1>1. "." \in Chars
  BY DEF Chars
<1>2. t \in Seq(Chars) /\ Len(t) = 1 /\ t[1] = "."
  BY <1>1
<1>3. Len(l) \in Nat \ {0} /\ DOMAIN l = 1..Len(l)
  OBVIOUS
<1> HIDE DEF t
<1>4. /\ d \in Seq(Chars) /\ Len(d) = 1 + Len(l)
      /\ \A i \in 1..(1 + Len(l)) : d[i] = IF i <= 1 THEN t[i] ELSE l[i - 1]
  <2>1. /\ d \in Seq(Chars) /\ Len(d) = Len(t) + Len(l)
        /\ \A i \in 1..(Len(t) + Len(l)) : d[i] = IF i <= Len(t) THEN t[i] ELSE l[i - Len(t)]
    BY <1>2, Concatenated
  <2> QED
    BY <2>1, <1>2
<1> HIDE DEF d
<1>5. d # <<>> /\ Len(d) > 1 /\ d[1] = "."
  BY <1>2, <1>3, <1>4
<1>6. Tail(d) \in Seq(Chars) /\ Len(Tail(d)) = Len(l)
      /\ \A i \in 1..Len(l) : Tail(d)[i] = d[i + 1]
  BY <1>3, <1>4, <1>5
<1>7. \A i \in 1..Len(l) : Tail(d)[i] = l[i]
  <2> SUFFICES ASSUME NEW i \in 1..Len(l) PROVE Tail(d)[i] = l[i]
    OBVIOUS
  <2>1. i + 1 \in 1..(1 + Len(l)) /\ ~(i + 1 <= 1) /\ (i + 1) - 1 = i
    BY <1>3
  <2>2. d[i + 1] = l[i]
    BY <2>1, <1>4
  <2> QED
    BY <2>2, <1>6
<1>8. Tail(d) = l
  BY <1>3, <1>6, <1>7
<1> QED
  BY <1>4, <1>5, <1>8 DEF d, t

\* The dots put in front of the lines of a text are the ones the relay takes off:
\* it receives every text whole, lines that are a single dot included (dot_stuff).
THEOREM DotsComeOff ==
  ASSUME NEW lines \in Text
  PROVE  Mail!Received(Mail!dot_stuff(lines)) = lines
<1> DEFINE n == Len(lines)
           stuffed == Mail!dot_stuff(lines)
           all == Append(stuffed, <<".">>)
<1>1. n \in Nat /\ DOMAIN lines = 1..n /\ \A i \in 1..n : lines[i] \in Seq(Chars)
  BY DEF Text
<1>2. \A i \in 1..n : lines[i] # <<>> =>
        /\ (<<".">> \o lines[i]) \in Seq(Chars)
        /\ Len(<<".">> \o lines[i]) > 1
        /\ (<<".">> \o lines[i])[1] = "."
        /\ Tail(<<".">> \o lines[i]) = lines[i]
  BY <1>1, OneMoreDot
<1>3. stuffed \in Seq(Seq(Chars)) /\ Len(stuffed) = n
      /\ \A i \in 1..n : stuffed[i] = IF lines[i] # <<>> /\ lines[i][1] = "."
                                      THEN <<".">> \o lines[i] ELSE lines[i]
  BY <1>1, <1>2 DEF Mail!dot_stuff, Text
<1> HIDE DEF stuffed
<1>31. <<".">> \in Seq(Chars)
  <2>1. "." \in Chars
    BY DEF Chars
  <2> QED
    BY <2>1
<1>4. all \in Seq(Seq(Chars)) /\ Len(all) = n + 1 /\ DOMAIN all = 1..n + 1
      /\ all[n + 1] = <<".">> /\ \A i \in 1..n : all[i] = stuffed[i]
  BY <1>1, <1>3, <1>31
<1> HIDE DEF all
<1>5. \A i \in 1..n : all[i] # <<".">>
  <2> SUFFICES ASSUME NEW i \in 1..n, stuffed[i] = <<".">> PROVE FALSE
    BY <1>4
  <2>1. Len(<<".">>) = 1 /\ <<".">>[1] = "." /\ <<".">> # <<>>
    OBVIOUS
  <2>2. CASE lines[i] # <<>> /\ lines[i][1] = "."
    <3>1. stuffed[i] = <<".">> \o lines[i]
      BY <2>2, <1>3
    <3>2. Len(<<".">> \o lines[i]) > 1
      BY <2>2, <1>2
    <3> QED
      BY <2>1, <3>1, <3>2
  <2>3. CASE ~(lines[i] # <<>> /\ lines[i][1] = ".")
    BY <2>1, <2>3, <1>3
  <2> QED
    BY <2>2, <2>3
<1> DEFINE E(i) == i \in DOMAIN all /\ all[i] = <<".">> /\ \A j \in 1..(i - 1) : all[j] # <<".">>
<1>6. E(n + 1) /\ \A i : E(i) => i = n + 1
  <2>1. 1..(n + 1 - 1) = 1..n /\ n + 1 \in 1..n + 1 /\ \A i \in 1..n + 1 : i \in 1..n \/ i = n + 1
    BY <1>1
  <2> QED
    BY <2>1, <1>4, <1>5
<1>7. (CHOOSE i \in DOMAIN all : all[i] = <<".">> /\ \A j \in 1..(i - 1) : all[j] # <<".">>) = n + 1
  BY <1>6, <1>4
<1>8. Mail!Received(stuffed) =
        [i \in 1..n |-> IF all[i] # <<>> /\ all[i][1] = "." THEN Tail(all[i]) ELSE all[i]]
  <2> DEFINE end == CHOOSE i \in DOMAIN all : all[i] = <<".">> /\ \A j \in 1..(i - 1) : all[j] # <<".">>
  <2>1. Mail!Received(stuffed) =
          [i \in 1..(end - 1) |-> IF all[i] # <<>> /\ all[i][1] = "." THEN Tail(all[i]) ELSE all[i]]
    BY DEF Mail!Received, all
  <2>2. end = n + 1
    BY <1>7
  <2> HIDE DEF end
  <2>3. 1..(end - 1) = 1..n
    BY <2>2, <1>1
  <2> QED
    BY <2>1, <2>3
<1>9. \A i \in 1..n : (IF all[i] # <<>> /\ all[i][1] = "." THEN Tail(all[i]) ELSE all[i]) = lines[i]
  <2> SUFFICES ASSUME NEW i \in 1..n
               PROVE  (IF all[i] # <<>> /\ all[i][1] = "." THEN Tail(all[i]) ELSE all[i]) = lines[i]
    OBVIOUS
  <2>1. CASE lines[i] # <<>> /\ lines[i][1] = "."
    <3>1. all[i] = <<".">> \o lines[i] /\ all[i] # <<>> /\ all[i][1] = "."
      <4>1. all[i] = <<".">> \o lines[i]
        BY <2>1, <1>3, <1>4
      <4>2. Len(<<".">> \o lines[i]) > 1 /\ (<<".">> \o lines[i])[1] = "." /\ Len(<<>>) = 0
        BY <2>1, <1>2
      <4>3. <<".">> \o lines[i] # <<>>
        BY <4>2
      <4> QED
        BY <4>1, <4>2, <4>3
    <3> QED
      BY <3>1, <2>1, <1>2
  <2>2. CASE ~(lines[i] # <<>> /\ lines[i][1] = ".")
    BY <2>2, <1>3, <1>4
  <2> QED
    BY <2>1, <2>2
<1>10. Mail!Received(stuffed) = [i \in 1..n |-> lines[i]]
  BY <1>8, <1>9
<1> QED
  BY <1>10, <1>1 DEF stuffed, Text

LEMMA StuffedIsText ==
  ASSUME NEW lines \in Text PROVE Mail!dot_stuff(lines) \in Text
<1>1. \A i \in DOMAIN lines : lines[i] \in Seq(Chars)
        /\ (lines[i] # <<>> => <<".">> \o lines[i] \in Seq(Chars))
  BY OneMoreDot DEF Text
<1> QED
  <2>1. Len(lines) \in Nat /\ DOMAIN lines = 1..Len(lines)
    BY DEF Text
  <2>2. \A i \in 1..Len(lines) :
          (IF lines[i] # <<>> /\ lines[i][1] = "." THEN <<".">> \o lines[i] ELSE lines[i])
            \in Seq(Chars)
    BY <1>1, <2>1
  <2> QED
    BY <2>1, <2>2 DEF Mail!dot_stuff, Text

\* The recipients of an email, in their order.
LEMMA RecipientsOf ==
  ASSUME NEW e \in Email
  PROVE  /\ Mail!recipients(e) \in Seq(Addrs) /\ Count(e) \in Nat
         /\ Mail!ToSet(Mail!recipients(e)) = Everyone(e) /\ Everyone(e) \in SUBSET Addrs
<1>1. e.to \in Seq(Addrs) /\ e.cc \in Seq(Addrs) /\ e.bcc \in Seq(Addrs)
  BY DEF Email
<1>2. \A s, t \in Seq(Addrs) : s \o t \in Seq(Addrs) /\ Mail!ToSet(s \o t) = Mail!ToSet(s) \cup Mail!ToSet(t)
  <2> TAKE s, t \in Seq(Addrs)
  <2>1. /\ s \o t \in Seq(Addrs) /\ Len(s \o t) = Len(s) + Len(t)
        /\ Len(s) \in Nat /\ Len(t) \in Nat
        /\ \A i \in 1..Len(s) + Len(t) :
              (s \o t)[i] = IF i <= Len(s) THEN s[i] ELSE t[i - Len(s)]
    BY Concatenated
  <2>2. DOMAIN s = 1..Len(s) /\ DOMAIN t = 1..Len(t) /\ DOMAIN (s \o t) = 1..Len(s) + Len(t)
    BY <2>1
  <2>3. \A i \in DOMAIN (s \o t) : (s \o t)[i] \in Mail!ToSet(s) \cup Mail!ToSet(t)
    BY <2>1, <2>2 DEF Mail!ToSet
  <2>4. \A i \in DOMAIN s : i \in DOMAIN (s \o t) /\ (s \o t)[i] = s[i]
    BY <2>1, <2>2
  <2>5. \A i \in DOMAIN t : i + Len(s) \in DOMAIN (s \o t) /\ (s \o t)[i + Len(s)] = t[i]
    BY <2>1, <2>2
  <2>6. Mail!ToSet(s \o t) \subseteq Mail!ToSet(s) \cup Mail!ToSet(t)
    BY <2>3 DEF Mail!ToSet
  <2>7. Mail!ToSet(s) \subseteq Mail!ToSet(s \o t)
    BY <2>4 DEF Mail!ToSet
  <2>8. Mail!ToSet(t) \subseteq Mail!ToSet(s \o t)
    BY <2>5 DEF Mail!ToSet
  <2> QED
    BY <2>1, <2>6, <2>7, <2>8
<1>3. \A s \in Seq(Addrs) : Mail!ToSet(s) \in SUBSET Addrs
  BY DEF Mail!ToSet
<1>4. Mail!recipients(e) \in Seq(Addrs) /\ Mail!ToSet(Mail!recipients(e)) = Everyone(e)
  <2>1. e.to \o e.cc \in Seq(Addrs) /\ Mail!ToSet(e.to \o e.cc) = Mail!ToSet(e.to) \cup Mail!ToSet(e.cc)
    BY <1>1, <1>2
  <2>2. (e.to \o e.cc) \o e.bcc \in Seq(Addrs)
        /\ Mail!ToSet((e.to \o e.cc) \o e.bcc) = Mail!ToSet(e.to \o e.cc) \cup Mail!ToSet(e.bcc)
    BY <1>1, <1>2, <2>1
  <2> QED
    BY <2>1, <2>2 DEF Mail!recipients, Everyone
<1> QED
  BY <1>1, <1>3, <1>4 DEF Count, Everyone

-----------------------------------------------------------------------------
(* The dialogue.                                                           *)

LEMMA SmtpSteps ==
  ASSUME NEW e \in Email, NEW lines \in Text
  PROVE  LET S == Mail!Smtp(e, lines)
             m == MailAt
             n == Count(e)
         IN /\ m \in Nat \ {0, 1, 2} /\ n \in Nat
            /\ S \in Seq(Commands) /\ Len(S) = m + n + 3
            /\ \A i \in 1..(m - 1) : S[i].verb \notin {"MAIL", "RCPT", ".", "QUIT"}
            /\ S[m].verb = "MAIL"
            /\ \A j \in 1..n : S[m + j] = Mail!Cmd("RCPT", Mail!recipients(e)[j])
            /\ S[m + n + 1].verb = "DATA"
            /\ S[m + n + 2] = Mail!Cmd(".", Mail!dot_stuff(lines))
            /\ S[m + n + 3].verb = "QUIT"
<1> DEFINE m == MailAt
           n == Count(e)
           A == <<Mail!Cmd("connect", None), Mail!Cmd("EHLO", None)>>
           B == <<Mail!Cmd("MAIL", e.from)>>
           R == [i \in DOMAIN Mail!recipients(e) |-> Mail!Cmd("RCPT", Mail!recipients(e)[i])]
           C == <<Mail!Cmd("DATA", None), Mail!Cmd(".", Mail!dot_stuff(lines)), Mail!Cmd("QUIT", None)>>
<1>1. A \in Seq(Commands) /\ Len(A) = 2 /\ \A i \in 1..2 : A[i].verb \in {"connect", "EHLO"}
  BY DEF Commands, Verbs, Mail!Cmd
<1>2. Mail!Login \in Seq(Commands) /\ Len(Mail!Login) \in Nat
      /\ \A i \in 1..Len(Mail!Login) : Mail!Login[i].verb \in {"AUTH PLAIN", "AUTH LOGIN", "user", "pass"}
  <2>1. \A v \in {"AUTH PLAIN", "AUTH LOGIN", "user", "pass"} : Mail!Cmd(v, None) \in Commands
    BY DEF Commands, Verbs, Mail!Cmd
  <2>2. CASE Mail!Login = <<>>
    BY <2>2
  <2>3. CASE Mail!Login = <<Mail!Cmd("AUTH PLAIN", None)>>
    <3>1. Mail!Cmd("AUTH PLAIN", None) \in Commands /\ Mail!Cmd("AUTH PLAIN", None).verb = "AUTH PLAIN"
      BY <2>1 DEF Mail!Cmd
    <3>2. ASSUME NEW x \in Commands
          PROVE <<x>> \in Seq(Commands) /\ Len(<<x>>) = 1 /\ \A i \in 1..1 : <<x>>[i] = x
      OBVIOUS
    <3> QED
      BY <3>1, <3>2, <2>3
  <2>4. CASE Mail!Login = <<Mail!Cmd("AUTH LOGIN", None), Mail!Cmd("user", None), Mail!Cmd("pass", None)>>
    <3>1. /\ Mail!Cmd("AUTH LOGIN", None) \in Commands /\ Mail!Cmd("AUTH LOGIN", None).verb = "AUTH LOGIN"
          /\ Mail!Cmd("user", None) \in Commands /\ Mail!Cmd("user", None).verb = "user"
          /\ Mail!Cmd("pass", None) \in Commands /\ Mail!Cmd("pass", None).verb = "pass"
      BY <2>1 DEF Mail!Cmd
    <3>2. ASSUME NEW x \in Commands, NEW y \in Commands, NEW z \in Commands
          PROVE <<x, y, z>> \in Seq(Commands) /\ Len(<<x, y, z>>) = 3
                /\ \A i \in 1..3 : <<x, y, z>>[i] \in {x, y, z}
      OBVIOUS
    <3>3. /\ Mail!Login \in Seq(Commands) /\ Len(Mail!Login) = 3
          /\ \A i \in 1..3 : Mail!Login[i] \in {Mail!Cmd("AUTH LOGIN", None), Mail!Cmd("user", None),
                                          Mail!Cmd("pass", None)}
      BY <3>1, <3>2, <2>4
    <3>4. \A x \in {Mail!Cmd("AUTH LOGIN", None), Mail!Cmd("user", None), Mail!Cmd("pass", None)} :
            x.verb \in {"AUTH PLAIN", "AUTH LOGIN", "user", "pass"}
      BY <3>1
    <3>5. \A i \in 1..3 : Mail!Login[i].verb \in {"AUTH PLAIN", "AUTH LOGIN", "user", "pass"}
      BY <3>3, <3>4
    <3>6. Mail!Login \in Seq(Commands) /\ Len(Mail!Login) = 3
      BY <3>3
    <3>7. Len(Mail!Login) \in Nat /\ 1..Len(Mail!Login) = 1..3
      BY <3>6
    <3> QED
      BY <3>5, <3>6, <3>7
  <2> QED
    BY <2>2, <2>3, <2>4 DEF Mail!Login
<1>3. B \in Seq(Commands) /\ Len(B) = 1 /\ B[1].verb = "MAIL"
  BY DEF Commands, Verbs, Mail!Cmd, Email
<1>4. R \in Seq(Commands) /\ Len(R) = n /\ n \in Nat
      /\ \A j \in 1..n : R[j] = Mail!Cmd("RCPT", Mail!recipients(e)[j])
  <2>1. Mail!recipients(e) \in Seq(Addrs) /\ n \in Nat /\ n = Len(Mail!recipients(e))
    BY RecipientsOf DEF Count
  <2>2. DOMAIN Mail!recipients(e) = 1..n /\ \A j \in 1..n : Mail!Cmd("RCPT", Mail!recipients(e)[j]) \in Commands
    BY <2>1 DEF Commands, Verbs, Mail!Cmd
  <2> QED
    BY <2>1, <2>2
<1>5. C \in Seq(Commands) /\ Len(C) = 3 /\ C[1].verb = "DATA" /\ C[3].verb = "QUIT"
      /\ C[2] = Mail!Cmd(".", Mail!dot_stuff(lines))
  <2>1. Mail!dot_stuff(lines) \in Text
    BY StuffedIsText
  <2> QED
    BY <2>1 DEF Commands, Verbs, Mail!Cmd
<1>6. Mail!Smtp(e, lines) = A \o Mail!Login \o B \o R \o C
  BY DEF Mail!Smtp
<1> HIDE DEF A, B, R, C, n
<1>61. Len(Mail!Login) \in Nat /\ m = Len(Mail!Login) + 3
  BY <1>2 DEF MailAt
<1> HIDE DEF m
<1>62. m \in Nat \ {0, 1, 2} /\ Len(Mail!Login) = m - 3 /\ n \in Nat
  BY <1>61, <1>4
<1>7. /\ A \o Mail!Login \in Seq(Commands) /\ Len(A \o Mail!Login) = m - 1
      /\ \A i \in 1..(m - 1) : (A \o Mail!Login)[i].verb \notin {"MAIL", "RCPT", ".", "QUIT"}
  <2>1. /\ A \o Mail!Login \in Seq(Commands) /\ Len(A \o Mail!Login) = 2 + Len(Mail!Login)
        /\ \A i \in 1..(2 + Len(Mail!Login)) :
             (A \o Mail!Login)[i] = IF i <= 2 THEN A[i] ELSE Mail!Login[i - 2]
    <3>1. /\ A \o Mail!Login \in Seq(Commands) /\ Len(A \o Mail!Login) = Len(A) + Len(Mail!Login)
          /\ \A i \in 1..(Len(A) + Len(Mail!Login)) :
               (A \o Mail!Login)[i] = IF i <= Len(A) THEN A[i] ELSE Mail!Login[i - Len(A)]
      <4>1. A \in Seq(Commands) /\ Mail!Login \in Seq(Commands)
        BY <1>1, <1>2
      <4> QED
        BY <4>1, Concatenated
    <3> QED
      BY <3>1, <1>1
  <2>2. ASSUME NEW i \in 1..(2 + Len(Mail!Login))
        PROVE  (A \o Mail!Login)[i].verb \notin {"MAIL", "RCPT", ".", "QUIT"}
    <3>1. CASE i <= 2
      <4>1. i \in 1..2 /\ (A \o Mail!Login)[i] = A[i]
        BY <2>1, <3>1
      <4> QED
        BY <4>1, <1>1
    <3>2. CASE ~(i <= 2)
      <4>1. i - 2 \in 1..Len(Mail!Login)
        BY <3>2, <1>61
      <4>2. (A \o Mail!Login)[i] = Mail!Login[i - 2]
        BY <2>1, <3>2
      <4> QED
        BY <4>1, <4>2, <1>2
    <3> QED
      BY <3>1, <3>2
  <2>3. 2 + Len(Mail!Login) = m - 1
    BY <1>61
  <2> QED
    BY <2>1, <2>2, <2>3
<1> DEFINE D == A \o Mail!Login
           F == D \o B
           G == F \o R
<1>8. /\ F \in Seq(Commands) /\ Len(F) = m
      /\ \A i \in 1..m : F[i] = IF i <= m - 1 THEN D[i] ELSE B[i - (m - 1)]
  <2> HIDE DEF D
  <2>1. /\ F \in Seq(Commands) /\ Len(F) = Len(D) + Len(B)
        /\ \A i \in 1..(Len(D) + Len(B)) : F[i] = IF i <= Len(D) THEN D[i] ELSE B[i - Len(D)]
    BY <1>3, <1>7, Concatenated DEF D
  <2> QED
    <3>1. Len(D) = m - 1 /\ Len(B) = 1
      BY <1>3, <1>7 DEF D
    <3>2. m - 1 + 1 = m
      BY <1>62
    <3> QED
      BY <2>1, <3>1, <3>2
<1> HIDE DEF F
<1>9. /\ G \in Seq(Commands) /\ Len(G) = m + n
      /\ \A i \in 1..(m + n) : G[i] = IF i <= m THEN F[i] ELSE R[i - m]
  <2>1. /\ G \in Seq(Commands) /\ Len(G) = Len(F) + Len(R)
        /\ \A i \in 1..(Len(F) + Len(R)) : G[i] = IF i <= Len(F) THEN F[i] ELSE R[i - Len(F)]
    BY <1>4, <1>8, Concatenated
  <2> QED
    BY <2>1, <1>4, <1>8
<1> HIDE DEF G
<1>10. /\ Mail!Smtp(e, lines) \in Seq(Commands) /\ Len(Mail!Smtp(e, lines)) = m + n + 3
       /\ \A i \in 1..(m + n + 3) :
            Mail!Smtp(e, lines)[i] = IF i <= m + n THEN G[i] ELSE C[i - (m + n)]
  <2>1. Mail!Smtp(e, lines) = G \o C
    BY <1>6 DEF F, G
  <2>2. /\ G \o C \in Seq(Commands) /\ Len(G \o C) = Len(G) + Len(C)
        /\ \A i \in 1..(Len(G) + Len(C)) :
             (G \o C)[i] = IF i <= Len(G) THEN G[i] ELSE C[i - Len(G)]
    BY <1>5, <1>9, Concatenated
  <2> QED
    BY <2>1, <2>2, <1>5, <1>9
<1> DEFINE S == Mail!Smtp(e, lines)
<1>111. /\ S \in Seq(Commands) /\ Len(S) = m + n + 3
        /\ \A i \in 1..(m + n + 3) : S[i] = IF i <= m + n THEN G[i] ELSE C[i - (m + n)]
  BY <1>10
<1> HIDE DEF S, D
<1>12. \A i \in 1..(m - 1) : S[i].verb \notin {"MAIL", "RCPT", ".", "QUIT"}
  <2> SUFFICES ASSUME NEW i \in 1..(m - 1) PROVE S[i] = D[i]
    BY <1>7 DEF D
  <2> QED
    <3>1. i \in 1..m /\ i <= m - 1 /\ i \in 1..(m + n) /\ i <= m /\ i \in 1..(m + n + 3)
          /\ i <= m + n
      BY <1>62
    <3> QED
      BY <3>1, <1>8, <1>9, <1>111
<1>13. S[m].verb = "MAIL"
  <2>1. S[m] = B[1]
    <3>1. m \in 1..m /\ ~(m <= m - 1) /\ m - (m - 1) = 1 /\ m <= m /\ m <= m + n
          /\ m \in 1..(m + n) /\ m \in 1..(m + n + 3)
      BY <1>62
    <3> QED
      BY <3>1, <1>8, <1>9, <1>111
  <2> QED
    BY <2>1, <1>3
<1>14. \A j \in 1..n : S[m + j] = Mail!Cmd("RCPT", Mail!recipients(e)[j])
  <2> SUFFICES ASSUME NEW j \in 1..n, NEW i, i = m + j PROVE S[i] = R[j]
    BY <1>4
  <2>1. i \in 1..(m + n) /\ i \in 1..(m + n + 3) /\ i <= m + n
        /\ ~(i <= m) /\ i - m = j
    BY <1>62
  <2> QED
    BY <2>1, <1>9, <1>111
<1>15. S[m + n + 1] = C[1] /\ S[m + n + 2] = C[2] /\ S[m + n + 3] = C[3]
  <2>1. ASSUME NEW j \in 1..3, NEW i, i = m + n + j PROVE S[i] = C[j]
    <3>1. i \in 1..(m + n + 3) /\ ~(i <= m + n) /\ i - (m + n) = j
      BY <1>62, <2>1
    <3> QED
      BY <3>1, <1>111
  <2> QED
    BY <2>1
<1> QED
  BY <1>5, <1>111, <1>62, <1>12, <1>13, <1>14, <1>15 DEF S, m, n

-----------------------------------------------------------------------------
(* The steps.                                                              *)

\* What a send that has ended may say, and what the properties make of it.
LEMMA ToldTruly ==
  ASSUME NEW x \in Sending, BuiltBy(x.email, x.asked),
         NEW ok \in BOOLEAN, NEW lost \in BOOLEAN,
         result' = [ok |-> ok, email |-> x.email, lines |-> x.lines, asked |-> x.asked,
                    lost |-> lost, before |-> x.before],
         box' \in Seq(Message),
         \/ ~ok /\ Len(box') = x.before
         \/ /\ Mail!validate(x.email) /\ (ok \/ lost)
            /\ Len(box') = x.before + 1 /\ box'[x.before + 1] = Parcel(x)
  PROVE  Mail!AllOrNothing' /\ Mail!BccStaysHidden' /\ Mail!InvalidSurfaces'
<1>1. x.before \in Nat /\ result'.before = x.before /\ result'.asked = x.asked
      /\ result'.ok = ok /\ result'.lost = lost /\ result'.lines = x.lines
  BY DEF Sending
<1>2. CASE ~ok /\ Len(box') = x.before
  <2>1. Mail!Delivered' = <<>>
    BY <1>1, <1>2 DEF Mail!Delivered
  <2> QED
    BY <2>1, <1>1, <1>2 DEF Mail!AllOrNothing, Mail!BccStaysHidden, Mail!InvalidSurfaces
<1>3. CASE /\ Mail!validate(x.email) /\ (ok \/ lost)
           /\ Len(box') = x.before + 1 /\ box'[x.before + 1] = Parcel(x)
  <2>1. Len(Mail!Delivered') = 1 /\ Mail!Delivered'[1] = Parcel(x)
    <3>1. /\ SubSeq(box', x.before + 1, x.before + 1) \in Seq(Message)
          /\ Len(SubSeq(box', x.before + 1, x.before + 1)) = 1
          /\ SubSeq(box', x.before + 1, x.before + 1)[1] = box'[x.before + 1]
      BY <1>1, <1>3
    <3> QED
      BY <3>1, <1>1, <1>3 DEF Mail!Delivered
  <2>2. Mail!AllOrNothing'
    BY <2>1, <1>1, <1>3 DEF Mail!AllOrNothing, Parcel
  <2>3. Mail!BccStaysHidden'
    <3>1. /\ Mail!Delivered'[1].headers.to = x.email.to /\ Mail!Delivered'[1].headers.cc = x.email.cc
      BY <2>1 DEF Parcel, Mail!Headers
    <3>2. \A a \in Mail!ToSet(x.email.to) \cup Mail!ToSet(x.email.cc) :
            a \in {x.asked[i][2] : i \in {j \in DOMAIN x.asked : x.asked[j][1] \in {"to", "cc"}}}
      BY DEF BuiltBy
    <3> QED
      BY <3>1, <3>2, <1>1 DEF Mail!BccStaysHidden
  <2>4. Mail!InvalidSurfaces'
    BY <1>1, <1>3 DEF Mail!InvalidSurfaces, BuiltBy, Mail!validate
  <2> QED
    BY <2>2, <2>3, <2>4
<1> QED
  BY <1>2, <1>3

\* While nothing ends, nothing new is told.
LEMMA NothingTold ==
  ASSUME MailInv, \/ sending' # None
                  \/ UNCHANGED <<result, box>> /\ sending = None
  PROVE  Mail!AllOrNothing' /\ Mail!BccStaysHidden' /\ Mail!InvalidSurfaces'
<1>1. CASE sending' # None
  BY <1>1 DEF Mail!AllOrNothing, Mail!BccStaysHidden, Mail!InvalidSurfaces
<1>2. CASE UNCHANGED <<result, box>> /\ sending = None
  <2>1. Mail!Delivered' = Mail!Delivered
    BY <1>2 DEF Mail!Delivered
  <2> QED
    BY <1>2, <2>1 DEF MailInv, Mail!AllOrNothing, Mail!BccStaysHidden, Mail!InvalidSurfaces
<1> QED
  BY <1>1, <1>2

LEMMA Appended ==
  ASSUME NEW S, NEW s \in Seq(S), NEW a \in S
  PROVE  /\ Append(s, a) \in Seq(S)
         /\ Mail!ToSet(Append(s, a)) = Mail!ToSet(s) \cup {a}
         /\ DOMAIN Append(s, a) = DOMAIN s \cup {Len(s) + 1}
         /\ Append(s, a)[Len(s) + 1] = a
         /\ \A i \in DOMAIN s : Append(s, a)[i] = s[i] /\ i # Len(s) + 1
<1>1. /\ Append(s, a) \in Seq(S) /\ Len(s) \in Nat
      /\ DOMAIN s = 1..Len(s) /\ DOMAIN Append(s, a) = 1..Len(s) + 1
      /\ Append(s, a)[Len(s) + 1] = a
      /\ \A i \in DOMAIN s : Append(s, a)[i] = s[i]
  OBVIOUS
<1>2. DOMAIN Append(s, a) = DOMAIN s \cup {Len(s) + 1} /\ \A i \in DOMAIN s : i # Len(s) + 1
  BY <1>1
<1>3. Mail!ToSet(Append(s, a)) = Mail!ToSet(s) \cup {a}
  BY <1>1, <1>2 DEF Mail!ToSet
<1> QED
  BY <1>1, <1>2, <1>3

LEMMA BuildKeeps ==
  ASSUME MailConstants, MailInv, Mail!Build PROVE MailInv'
<1>1. PICK a \in Addrs \cup {Bad}, f \in {"from", "to", "cc", "bcc"} :
        /\ draft' = CASE f = "to" -> Mail!to(a) [] f = "cc" -> Mail!cc(a) [] f = "bcc" -> Mail!bcc(a) [] OTHER -> Mail!from(a)
        /\ asked' = Append(asked, <<f, a>>)
  BY DEF Mail!Build
<1>2. sending = None /\ UNCHANGED <<Mail!sites, script, sending, relay, box, result, sends>>
  BY DEF Mail!Build
<1>3. draft \in Email /\ asked \in Calls
  BY DEF MailInv, MailTypes
<1>4. /\ draft.to \in Seq(Addrs) /\ draft.cc \in Seq(Addrs) /\ draft.bcc \in Seq(Addrs)
      /\ DOMAIN draft = {"from", "to", "cc", "bcc", "bad"}
  BY <1>3 DEF Email
<1>5. /\ asked' \in Calls
      /\ DOMAIN asked' = DOMAIN asked \cup {Len(asked) + 1}
      /\ asked'[Len(asked) + 1] = <<f, a>>
      /\ \A i \in DOMAIN asked : asked'[i] = asked[i] /\ i # Len(asked) + 1
  BY <1>1, <1>3, Appended DEF Calls
<1>6. Mail!Wanted(asked') = Mail!Wanted(asked) \cup (IF f # "from" /\ a # Bad THEN {a} ELSE {})
  BY <1>5 DEF Mail!Wanted
<1>7. /\ draft' \in Email
      /\ draft'.to = (IF f = "to" /\ a # Bad THEN Append(draft.to, a) ELSE draft.to)
      /\ draft'.cc = (IF f = "cc" /\ a # Bad THEN Append(draft.cc, a) ELSE draft.cc)
      /\ draft'.bcc = (IF f = "bcc" /\ a # Bad THEN Append(draft.bcc, a) ELSE draft.bcc)
      /\ draft'.bad = (draft.bad \/ (f = "to" /\ a = Bad))
  <2>1. a # Bad => Append(draft.to, a) \in Seq(Addrs) /\ Append(draft.cc, a) \in Seq(Addrs)
                   /\ Append(draft.bcc, a) \in Seq(Addrs)
    BY <1>4, Appended
  <2>2. CASE f = "to"
    BY <1>1, <1>3, <2>1, <2>2 DEF Mail!to, Email
  <2>3. CASE f = "cc"
    BY <1>1, <1>3, <2>1, <2>3 DEF Mail!cc, Email
  <2>4. CASE f = "bcc"
    BY <1>1, <1>3, <2>1, <2>4 DEF Mail!bcc, Email
  <2>5. CASE f = "from"
    BY <1>1, <1>3, <2>1, <2>5 DEF Mail!from, Email
  <2> QED
    BY <2>2, <2>3, <2>4, <2>5
<1>8. BuiltBy(draft', asked')
  <2>1. BuiltBy(draft, asked)
    BY DEF MailInv
  <2>2. \A s \in Seq(Addrs) : a # Bad => Mail!ToSet(Append(s, a)) = Mail!ToSet(s) \cup {a}
    BY Appended
  <2>3. Everyone(draft') = Everyone(draft) \cup (IF f # "from" /\ a # Bad THEN {a} ELSE {})
    BY <1>4, <1>7, <2>2 DEF Everyone
  <2>4. \A b \in Mail!ToSet(draft'.to) \cup Mail!ToSet(draft'.cc) :
          b \in Mail!ToSet(draft.to) \cup Mail!ToSet(draft.cc) \/ (b = a /\ f \in {"to", "cc"})
    BY <1>4, <1>7, <2>2
  <2>5. \A b \in Mail!ToSet(draft'.to) \cup Mail!ToSet(draft'.cc) :
          \E i \in DOMAIN asked' : asked'[i][1] \in {"to", "cc"} /\ asked'[i][2] = b
    BY <2>1, <2>4, <1>5 DEF BuiltBy
  <2>6. (\E i \in DOMAIN asked' : asked'[i] = <<"to", Bad>>) => draft'.bad
    <3> SUFFICES ASSUME NEW i \in DOMAIN asked', asked'[i] = <<"to", Bad>> PROVE draft'.bad
      OBVIOUS
    <3>1. CASE i \in DOMAIN asked
      <4>1. asked[i] = <<"to", Bad>>
        BY <3>1, <1>5
      <4>2. draft.bad
        BY <4>1, <3>1, <2>1 DEF BuiltBy
      <4> QED
        BY <4>2, <1>7
    <3>2. CASE i = Len(asked) + 1
      <4>1. <<f, a>> = <<"to", Bad>>
        BY <3>2, <1>5
      <4>2. f = "to" /\ a = Bad
        BY <4>1
      <4> QED
        BY <4>2, <1>7
    <3> QED
      BY <3>1, <3>2, <1>5
  <2> QED
    BY <2>1, <2>3, <2>5, <2>6, <1>6 DEF BuiltBy
<1>9. MailTypes'
  BY <1>2, <1>5, <1>7 DEF MailInv, MailTypes
<1> QED
  BY <1>2, <1>8, <1>9, NothingTold DEF MailInv, SendingInv

\* The commands of a dialogue, one by one.
LEMMA HeadOfScript ==
  ASSUME MailConstants, MailTypes, sending # None,
         NEW k \in Nat, Behind(sending, k)
  PROVE  LET c == Head(script)
             m == MailAt
             n == Count(sending.email)
         IN /\ c = Mail!Smtp(sending.email, sending.lines)[k + 1] /\ script # <<>>
            /\ sending \in Sending
            /\ m \in Nat \ {0, 1, 2} /\ n \in Nat
            /\ c.verb = "MAIL" <=> k + 1 = m
            /\ c.verb = "RCPT" <=> m < k + 1 /\ k + 1 <= m + n
            /\ c.verb = "." <=> k + 1 = m + n + 2
            /\ c.verb = "QUIT" <=> k + 1 = m + n + 3
            /\ c.verb = "RCPT" => c = Mail!Cmd("RCPT", Mail!recipients(sending.email)[k + 1 - m])
            /\ c.verb = "." => c = Mail!Cmd(".", Mail!dot_stuff(sending.lines))
<1> DEFINE e == sending.email
           lines == sending.lines
           S == Mail!Smtp(e, lines)
           m == MailAt
           n == Count(e)
           c == Head(script)
<1>1. sending \in Sending /\ e \in Email /\ lines \in Text
  BY DEF MailTypes, Sending
<1>2. /\ m \in Nat \ {0, 1, 2} /\ n \in Nat
      /\ S \in Seq(Commands) /\ Len(S) = m + n + 3
      /\ \A i \in 1..(m - 1) : S[i].verb \notin {"MAIL", "RCPT", ".", "QUIT"}
      /\ S[m].verb = "MAIL"
      /\ \A j \in 1..n : S[m + j] = Mail!Cmd("RCPT", Mail!recipients(e)[j])
      /\ S[m + n + 1].verb = "DATA"
      /\ S[m + n + 2] = Mail!Cmd(".", Mail!dot_stuff(lines))
      /\ S[m + n + 3].verb = "QUIT"
  BY <1>1, SmtpSteps
<1>3. /\ k < m + n + 3 /\ Len(script) = m + n + 3 - k
      /\ \A i \in 1..Len(script) : script[i] = S[k + i]
  BY DEF Behind
<1> HIDE DEF S, m, n, e, lines
<1>4. Len(script) \in Nat \ {0} /\ 1 \in 1..Len(script)
  BY <1>2, <1>3
<1>5. c = S[k + 1] /\ script # <<>> /\ k + 1 <= m + n + 3
  <2>1. c = script[1] /\ script # <<>>
    BY <1>4 DEF MailTypes
  <2> QED
    BY <2>1, <1>2, <1>3, <1>4
<1> HIDE DEF c
<1> DEFINE Told == /\ c.verb = "MAIL" <=> k + 1 = m
                   /\ c.verb = "RCPT" <=> m < k + 1 /\ k + 1 <= m + n
                   /\ c.verb = "." <=> k + 1 = m + n + 2
                   /\ c.verb = "QUIT" <=> k + 1 = m + n + 3
                   /\ c.verb = "RCPT" => c = Mail!Cmd("RCPT", Mail!recipients(e)[k + 1 - m])
                   /\ c.verb = "." => c = Mail!Cmd(".", Mail!dot_stuff(lines))
<1>6. ASSUME k + 1 < m PROVE Told
  <2>1. k + 1 \in 1..(m - 1)
    BY <1>6, <1>2
  <2>2. c.verb \notin {"MAIL", "RCPT", ".", "QUIT"}
    BY <2>1, <1>2, <1>5
  <2>3. Told
    BY <2>2, <1>2, <1>6
  <2> QED
    BY <2>3
<1>7. ASSUME k + 1 = m PROVE Told
  <2>1. c.verb = "MAIL"
    BY <1>7, <1>2, <1>5
  <2> QED
    BY <2>1, <1>2, <1>7
<1>8. ASSUME m < k + 1 /\ k + 1 <= m + n PROVE Told
  <2>1. k + 1 - m \in 1..n /\ m + (k + 1 - m) = k + 1
    <3>1. k \in Nat /\ m \in Nat /\ n \in Nat
      BY <1>2
    <3> QED
      BY <3>1, <1>8
  <2>2. S[m + (k + 1 - m)] = Mail!Cmd("RCPT", Mail!recipients(e)[k + 1 - m])
    BY <2>1, <1>2
  <2>3. c = Mail!Cmd("RCPT", Mail!recipients(e)[k + 1 - m])
    BY <2>1, <2>2, <1>5
  <2>4. c.verb = "RCPT"
    BY <2>3 DEF Mail!Cmd
  <2> QED
    BY <2>3, <2>4, <1>2, <1>8
<1>9. ASSUME k + 1 = m + n + 1 PROVE Told
  <2>1. c.verb = "DATA"
    BY <1>9, <1>2, <1>5
  <2> QED
    <3>1. /\ ~(k + 1 = m) /\ ~(k + 1 <= m + n) /\ ~(k + 1 = m + n + 2) /\ ~(k + 1 = m + n + 3)
      BY <1>2, <1>9
    <3> QED
      BY <2>1, <3>1
<1>10. ASSUME k + 1 = m + n + 2 PROVE Told
  <2>1. c = Mail!Cmd(".", Mail!dot_stuff(lines))
    BY <1>2, <1>5, <1>10
  <2>2. c.verb = "."
    BY <2>1 DEF Mail!Cmd
  <2> QED
    BY <2>1, <2>2, <1>2, <1>10
<1>11. ASSUME k + 1 = m + n + 3 PROVE Told
  <2>1. c.verb = "QUIT"
    BY <1>11, <1>2, <1>5
  <2> QED
    BY <2>1, <1>2, <1>11
<1>12. Told
  <2>1. k + 1 < m \/ k + 1 = m \/ (m < k + 1 /\ k + 1 <= m + n) \/ k + 1 = m + n + 1
        \/ k + 1 = m + n + 2 \/ k + 1 = m + n + 3
    BY <1>2, <1>5
  <2> HIDE DEF Told
  <2> QED
    BY <2>1, <1>6, <1>7, <1>8, <1>9, <1>10, <1>11
<1> QED
  BY <1>1, <1>2, <1>5, <1>12 DEF S, m, n, c, e, lines

\* The relay acts on the next command, or only says goodbye.
LEMMA RelayActs ==
  ASSUME MailConstants, MailTypes, NEW x \in Sending, x = sending, sending # None,
         BuiltBy(x.email, x.asked), NEW k \in Nat, Behind(x, k), Progress(x, k),
         UNCHANGED Mail!sites,
         Mail!Acts(Head(script)) \/ (UNCHANGED <<relay, box>> /\ Head(script).verb = "QUIT")
  PROVE  box' \in Seq(Message) /\ Progress(x, k + 1)'
<1> DEFINE c == Head(script)
           m == MailAt
           n == Count(x.email)
           R(l) == Accepted(x.email, m, l)
<1>1. /\ m \in Nat \ {0, 1, 2} /\ n \in Nat
      /\ c.verb = "MAIL" <=> k + 1 = m
      /\ c.verb = "RCPT" <=> m < k + 1 /\ k + 1 <= m + n
      /\ c.verb = "." <=> k + 1 = m + n + 2
      /\ c.verb = "QUIT" <=> k + 1 = m + n + 3
      /\ c.verb = "RCPT" => c = Mail!Cmd("RCPT", Mail!recipients(x.email)[k + 1 - m])
      /\ c.verb = "." => c = Mail!Cmd(".", Mail!dot_stuff(x.lines))
  BY HeadOfScript
<1>2. MailAt' = m
  BY DEF Mail!sites, MailAt, Mail!Login
<1>3. /\ m <= k /\ k < m + n + 2 => relay = R(k)
      /\ k < m + n + 2 => Len(box) = x.before
      /\ k >= m + n + 2 => Len(box) = x.before + 1 /\ box[x.before + 1] = Parcel(x)
  BY DEF Progress
<1>4. /\ x.email \in Email /\ x.lines \in Text /\ x.before \in Nat
      /\ Mail!recipients(x.email) \in Seq(Addrs) /\ DOMAIN Mail!recipients(x.email) = 1..n
      /\ Mail!ToSet(Mail!recipients(x.email)) = Mail!Wanted(x.asked) /\ Mail!Wanted(x.asked) \in SUBSET Addrs
  BY RecipientsOf DEF Sending, BuiltBy, Count
<1>5. box \in Seq(Message)
  BY DEF MailTypes
<1>6. k + 1 <= m + n + 3
  <2>1. k < m + n + 3
    BY DEF Behind
  <2> QED
    BY <2>1, <1>1
<1>7. SUFFICES /\ box' \in Seq(Message)
               /\ m <= k + 1 /\ k + 1 < m + n + 2 => relay' = R(k + 1)
               /\ k + 1 < m + n + 2 => Len(box') = x.before
               /\ k + 1 >= m + n + 2 => Len(box') = x.before + 1 /\ box'[x.before + 1] = Parcel(x)
  BY <1>2 DEF Progress
<1> HIDE DEF c, m, n
<1>71. R(m) = {}
  <2>1. {i \in 1..n : m + i <= m} = {}
    BY <1>1
  <2> QED
    BY <2>1 DEF Accepted, n
<1>72. ASSUME m <= k, k + 1 <= m + n
       PROVE  R(k + 1) = R(k) \cup {Mail!recipients(x.email)[k + 1 - m]}
  <2>1. /\ k + 1 - m \in 1..n
        /\ {i \in 1..n : m + i <= k + 1} = {i \in 1..n : m + i <= k} \cup {k + 1 - m}
    BY <1>1, <1>72
  <2> QED
    BY <2>1 DEF Accepted, n
<1>73. \A l \in Nat : l >= m + n => R(l) = Mail!ToSet(Mail!recipients(x.email))
  <2> SUFFICES ASSUME NEW l \in Nat, l >= m + n PROVE R(l) = Mail!ToSet(Mail!recipients(x.email))
    OBVIOUS
  <2>1. {i \in 1..n : m + i <= l} = 1..n
    BY <1>1
  <2> QED
    BY <2>1, <1>4 DEF Accepted, n, Mail!ToSet
<1> HIDE DEF R
<1>8. CASE k + 1 < m
  <2>1. UNCHANGED <<relay, box>>
    BY <1>1, <1>8 DEF Mail!Acts, c
  <2> QED
    BY <2>1, <1>1, <1>3, <1>5, <1>8
<1>9. CASE k + 1 = m
  <2>1. c.verb = "MAIL" /\ c.verb # "QUIT"
    BY <1>1, <1>9
  <2>2. relay' = Mail!Idle /\ box' = box
    BY <2>1 DEF Mail!Acts, c
  <2>3. R(k + 1) = {}
    BY <1>9, <1>71
  <2> QED
    BY <2>2, <2>3, <1>1, <1>3, <1>5, <1>9 DEF Mail!Idle
<1>10. CASE m < k + 1 /\ k + 1 <= m + n
  <2>1. c.verb = "RCPT" /\ c.verb # "QUIT" /\ c.arg = Mail!recipients(x.email)[k + 1 - m]
    BY <1>1, <1>10 DEF Mail!Cmd
  <2>2. relay' = relay \cup {Mail!recipients(x.email)[k + 1 - m]} /\ box' = box
    BY <2>1 DEF Mail!Acts, c
  <2>3. m <= k
    BY <1>1, <1>10
  <2>4. R(k + 1) = R(k) \cup {Mail!recipients(x.email)[k + 1 - m]}
    BY <2>3, <1>10, <1>72
  <2>5. relay = R(k)
    BY <1>1, <1>3, <1>10
  <2> QED
    BY <2>2, <2>4, <2>5, <1>1, <1>3, <1>5, <1>10
<1>11. CASE k + 1 = m + n + 1
  <2>1. UNCHANGED <<relay, box>>
    BY <1>1, <1>11 DEF Mail!Acts, c
  <2>2. k \in Nat /\ k + 1 \in Nat /\ k >= m + n /\ k + 1 >= m + n
    BY <1>1, <1>11
  <2>3. R(k + 1) = R(k)
    BY <2>2, <1>73
  <2> QED
    BY <2>1, <2>3, <1>1, <1>3, <1>5, <1>11
<1>12. CASE k + 1 = m + n + 2
  <2>1. c.verb = "." /\ c.verb # "QUIT" /\ c.arg = Mail!dot_stuff(x.lines)
    BY <1>1, <1>12 DEF Mail!Cmd
  <2>2. box' = Append(box, [rcpts |-> relay, text |-> Mail!Received(c.arg), headers |-> Mail!Headers(x.email)])
    BY <2>1 DEF Mail!Acts, c
  <2>3. relay = Mail!Wanted(x.asked)
    <3>1. relay = R(k) /\ k >= m + n
      BY <1>1, <1>3, <1>12
    <3>2. R(k) = Mail!ToSet(Mail!recipients(x.email))
      BY <3>1, <1>73
    <3> QED
      BY <3>1, <3>2, <1>4
  <2>4. Mail!Received(c.arg) = x.lines
    BY <2>1, <1>4, DotsComeOff
  <2>5. Parcel(x) \in Message
    BY <1>4 DEF Parcel, Message, Mail!Headers, Email
  <2>6. box' = Append(box, Parcel(x))
    BY <2>2, <2>3, <2>4 DEF Parcel
  <2>7. Len(box) = x.before
    BY <1>1, <1>3, <1>12
  <2>8. /\ box' \in Seq(Message) /\ Len(box') = x.before + 1
        /\ box'[x.before + 1] = Parcel(x)
    BY <2>5, <2>6, <2>7, <1>4, <1>5
  <2> QED
    BY <2>8, <1>1, <1>12
<1>13. CASE k + 1 = m + n + 3
  <2>1. c.verb = "QUIT"
    BY <1>1, <1>13
  <2>2. UNCHANGED <<relay, box>>
    BY <2>1 DEF Mail!Acts, c
  <2> QED
    BY <2>2, <1>1, <1>3, <1>5, <1>13
<1> QED
  BY <1>1, <1>6, <1>8, <1>9, <1>10, <1>11, <1>12, <1>13

\* A send that ends, by its last command or before.
LEMMA DoneKeeps ==
  ASSUME MailConstants, MailInv, sending # None, NEW ok \in BOOLEAN, NEW lost \in BOOLEAN,
         Mail!Done(ok, lost), UNCHANGED <<draft, asked>>, box' \in Seq(Message),
         \/ ~ok /\ Len(box') = sending.before
         \/ /\ ok \/ lost
            /\ Len(box') = sending.before + 1 /\ box'[sending.before + 1] = Parcel(sending)
  PROVE  MailInv'
<1>1. PICK x \in Sending : x = sending
  BY DEF MailInv, MailTypes
<1>2. /\ BuiltBy(x.email, x.asked) /\ Mail!validate(x.email)
  BY <1>1 DEF MailInv, SendingInv
<1>3. /\ result' = [ok |-> ok, email |-> x.email, lines |-> x.lines, asked |-> x.asked,
                    lost |-> lost, before |-> x.before]
      /\ sending' = None /\ script' = <<>>
  BY <1>1 DEF Mail!Done
<1>4. Mail!AllOrNothing' /\ Mail!BccStaysHidden' /\ Mail!InvalidSurfaces'
  BY <1>1, <1>2, <1>3, ToldTruly
<1>5. MailTypes'
  BY <1>3 DEF MailInv, MailTypes
<1>6. BuiltBy(draft', asked')
  BY DEF MailInv
<1> QED
  BY <1>3, <1>4, <1>5, <1>6 DEF MailInv, SendingInv

LEMMA DialogueKeeps ==
  ASSUME MailConstants, MailInv, Mail!command \/ Mail!Breaks PROVE MailInv'
<1>1. sending # None /\ script # <<>> /\ UNCHANGED <<Mail!sites, draft, asked, sends>>
  BY DEF Mail!command, Mail!Breaks
<1>2. PICK x \in Sending : x = sending
  BY <1>1 DEF MailInv, MailTypes
<1>3. /\ BuiltBy(x.email, x.asked) /\ Mail!validate(x.email) /\ MailTypes /\ box \in Seq(Message)
  BY <1>1, <1>2 DEF MailInv, SendingInv, MailTypes
<1>4. PICK k \in Nat : Behind(x, k) /\ Progress(x, k)
  BY <1>1, <1>2 DEF MailInv, SendingInv, Dialogue
<1> DEFINE c == Head(script)
           m == MailAt
           n == Count(x.email)
<1>5. /\ m \in Nat \ {0, 1, 2} /\ n \in Nat
      /\ c.verb = "QUIT" <=> k + 1 = m + n + 3
  BY <1>1, <1>2, <1>3, <1>4, HeadOfScript
<1>6. k < m + n + 3 /\ Len(script) = m + n + 3 - k
  BY <1>4 DEF Behind
<1>7. ASSUME Mail!Acts(c) \/ (UNCHANGED <<relay, box>> /\ c.verb = "QUIT")
      PROVE  /\ box' \in Seq(Message) /\ Progress(x, k + 1)'
             /\ k + 1 < m + n + 2 => Len(box') = x.before
             /\ k + 1 >= m + n + 2 => Len(box') = x.before + 1 /\ box'[x.before + 1] = Parcel(x)
  <2>1. box' \in Seq(Message) /\ Progress(x, k + 1)'
    BY <1>1, <1>2, <1>3, <1>4, <1>7, RelayActs
  <2>2. MailAt' = MailAt
    BY <1>1 DEF Mail!sites, MailAt, Mail!Login
  <2> QED
    BY <2>1, <2>2 DEF Progress
<1>8. ASSUME UNCHANGED <<relay, box>>, c.verb # "QUIT"
      PROVE  box' \in Seq(Message) /\ Len(box') = x.before
  <2>1. k < m + n + 2
    BY <1>5, <1>6, <1>8
  <2> QED
    BY <2>1, <1>3, <1>4, <1>8 DEF Progress
<1> HIDE DEF m, n
<1>9. ASSUME Mail!Acts(c) \/ (UNCHANGED <<relay, box>> /\ c.verb = "QUIT"),
             script' = Tail(script), Len(script) # 1, UNCHANGED <<sending, result>>
      PROVE  MailInv'
  <2>1. box' \in Seq(Message) /\ Progress(x, k + 1)'
    BY <1>7, <1>9
  <2>2. script' \in Seq(Commands) /\ Len(script') = m + n + 3 - (k + 1)
        /\ \A i \in 1..Len(script') : script'[i] = script[i + 1] /\ i + 1 \in 1..Len(script)
    <3>1. script \in Seq(Commands) /\ Len(script) \in Nat \ {0} /\ script # <<>>
      BY <1>1, <1>3, <1>5, <1>6 DEF MailTypes
    <3> QED
      BY <3>1, <1>5, <1>6, <1>9
  <2>3. k + 1 < m + n + 3
    BY <1>5, <1>6, <1>9
  <2>4. MailAt' = m /\ Mail!Smtp(x.email, x.lines)' = Mail!Smtp(x.email, x.lines)
    BY <1>1 DEF Mail!sites, MailAt, Mail!Login, Mail!Smtp, m
  <2>5. \A i \in 1..Len(script') : script'[i] = Mail!Smtp(x.email, x.lines)[(k + 1) + i]
    <3> SUFFICES ASSUME NEW i \in 1..Len(script')
                 PROVE  script'[i] = Mail!Smtp(x.email, x.lines)[(k + 1) + i]
      OBVIOUS
    <3>1. i + 1 \in 1..Len(script) /\ script'[i] = script[i + 1]
      BY <2>2
    <3>2. script[i + 1] = Mail!Smtp(x.email, x.lines)[k + (i + 1)]
      BY <3>1, <1>4 DEF Behind
    <3>3. k + (i + 1) = (k + 1) + i
      BY <2>2, <1>5, <2>3
    <3> QED
      BY <3>1, <3>2, <3>3
  <2>6. Behind(x, k + 1)'
    BY <2>2, <2>3, <2>4, <2>5 DEF Behind, n
  <2>7. Dialogue'
    BY <2>1, <2>6, <1>2, <1>9 DEF Dialogue
  <2>8. MailTypes'
    BY <2>1, <2>2, <1>1, <1>3, <1>9 DEF MailTypes
  <2>9. SendingInv' /\ BuiltBy(draft', asked')
    BY <2>7, <1>1, <1>2, <1>3, <1>9 DEF MailInv, SendingInv
  <2> QED
    BY <2>8, <2>9, <1>1, <1>9, NothingTold DEF MailInv
<1>10. ASSUME Mail!Acts(c) \/ (UNCHANGED <<relay, box>> /\ c.verb = "QUIT"),
              NEW lost \in BOOLEAN, Mail!Done(~lost, lost), k + 1 >= m + n + 2
       PROVE  MailInv'
  BY <1>1, <1>2, <1>7, <1>10, DoneKeeps DEF m, n
<1>11. ASSUME \/ (UNCHANGED <<relay, box>> /\ c.verb # "QUIT")
              \/ (Mail!Acts(c) /\ k + 1 < m + n + 2),
              NEW lost \in BOOLEAN, Mail!Done(FALSE, lost)
       PROVE  MailInv'
  BY <1>1, <1>2, <1>7, <1>8, <1>11, DoneKeeps DEF m, n
<1>12. Len(script) = 1 <=> c.verb = "QUIT"
  BY <1>5, <1>6
<1>13. CASE Mail!command
  <2>1. CASE Mail!Acts(c) /\ Len(script) = 1 /\ Mail!Done(TRUE, FALSE)
    <3>0. Len(script) = 1
      BY <2>1
    <3>1. k + 1 >= m + n + 2
      <4>1. m + n + 3 - k = 1 /\ m \in Nat /\ n \in Nat
        BY <3>0, <1>5, <1>6
      <4> QED
        BY <4>1
    <3> QED
      BY <2>1, <3>1, <1>10
  <2>2. CASE Mail!Acts(c) /\ Len(script) # 1 /\ script' = Tail(script) /\ UNCHANGED <<sending, result>>
    BY <2>2, <1>9
  <2>3. CASE UNCHANGED <<relay, box>> /\ c.verb # "QUIT" /\ Mail!Done(FALSE, FALSE)
    BY <2>3, <1>11
  <2>4. CASE UNCHANGED <<relay, box>> /\ c.verb = "QUIT" /\ Mail!Done(TRUE, FALSE)
    <3>1. k + 1 >= m + n + 2
      BY <2>4, <1>5
    <3> QED
      BY <2>4, <3>1, <1>10
  <2> QED
    BY <1>12, <1>13, <2>1, <2>2, <2>3, <2>4 DEF Mail!command, Mail!Stops
<1>14. CASE Mail!Breaks
  <2>1. CASE Mail!Acts(c) /\ Mail!Done(~Mail!Stops(c), Mail!Stops(c))
    <3>1. CASE k + 1 >= m + n + 2
      BY <2>1, <3>1, <1>10 DEF Mail!Stops
    <3>2. CASE k + 1 < m + n + 2
      <4>1. Mail!Stops(c)
        BY <3>2, <1>5 DEF Mail!Stops
      <4> QED
        BY <2>1, <3>2, <4>1, <1>11
    <3> QED
      BY <3>1, <3>2, <1>5
  <2>2. CASE UNCHANGED <<relay, box>> /\ Mail!Done(~Mail!Stops(c), Mail!Stops(c))
    <3>1. CASE c.verb = "QUIT"
      <4>1. k + 1 >= m + n + 2
        BY <3>1, <1>5
      <4> QED
        BY <2>2, <3>1, <4>1, <1>10 DEF Mail!Stops
    <3>2. CASE c.verb # "QUIT"
      BY <2>2, <3>2, <1>11 DEF Mail!Stops
    <3> QED
      BY <3>1, <3>2
  <2> QED
    BY <1>14, <2>1, <2>2 DEF Mail!Breaks
<1> QED
  BY <1>13, <1>14

LEMMA EmptyDraft == Mail!NewEmail \in Email /\ BuiltBy(Mail!NewEmail, <<>>) /\ <<>> \in Calls
<1>1. Mail!NewEmail \in Email /\ <<>> \in Calls
  BY DEF Mail!NewEmail, Email, Calls
<1>2. Mail!Wanted(<<>>) = {} /\ Everyone(Mail!NewEmail) = {} /\ DOMAIN <<>> = {}
      /\ Mail!ToSet(Mail!NewEmail.to) \cup Mail!ToSet(Mail!NewEmail.cc) = {}
  BY DEF Mail!Wanted, Everyone, Mail!NewEmail, Mail!ToSet
<1> QED
  BY <1>1, <1>2 DEF BuiltBy

\* A message is handed over, by a dialogue that begins or in one step.
LEMMA MessageKeeps ==
  ASSUME MailConstants, MailInv, Mail!send PROVE MailInv'
<1>1. /\ sending = None /\ draft' = Mail!NewEmail /\ asked' = <<>> /\ UNCHANGED <<Mail!sites, relay>>
  BY DEF Mail!send
<1>2. /\ draft \in Email /\ asked \in Calls /\ box \in Seq(Message) /\ BuiltBy(draft, asked)
      /\ script \in Seq(Commands)
  BY DEF MailInv, MailTypes
<1> DEFINE e == [draft EXCEPT !.from = IF @ = None THEN Mail!DefaultFrom ELSE @]
<1>3. PICK lines \in Contents :
        CASE ~Mail!validate(e) ->
               /\ result' = [ok |-> FALSE, email |-> e, lines |-> lines, asked |-> asked,
                             lost |-> FALSE, before |-> Len(box)]
               /\ UNCHANGED <<script, sending, box>>
          [] Mail!validate(e) /\ transport = "smtp" ->
               /\ script' = Mail!Smtp(e, lines)
               /\ sending' = [email |-> e, lines |-> lines, asked |-> asked, before |-> Len(box)]
               /\ UNCHANGED <<box, result>>
          [] OTHER -> Mail!HandOver(e, lines) /\ UNCHANGED <<script, sending>>
  BY DEF Mail!send
<1>4. /\ e \in Email /\ e.to = draft.to /\ e.cc = draft.cc /\ e.bcc = draft.bcc /\ e.bad = draft.bad
      /\ lines \in Text /\ Len(box) \in Nat
  <2>1. lines \in Text /\ Len(box) \in Nat
    BY <1>2 DEF MailConstants
  <2>2. /\ draft.from \in Addrs \cup {None, Mail!DefaultFrom}
        /\ (IF draft.from = None THEN Mail!DefaultFrom ELSE draft.from) \in Addrs \cup {None, Mail!DefaultFrom}
    BY <1>2 DEF Email
  <2> QED
    BY <2>1, <2>2, <1>2 DEF Email
<1>5. BuiltBy(e, asked)
  BY <1>2, <1>4 DEF BuiltBy, Everyone
<1> HIDE DEF e
<1>6. PICK x \in Sending : /\ x = [email |-> e, lines |-> lines, asked |-> asked, before |-> Len(box)]
                           /\ x.email = e /\ x.lines = lines /\ x.asked = asked /\ x.before = Len(box)
  <2> DEFINE w == [email |-> e, lines |-> lines, asked |-> asked, before |-> Len(box)]
  <2>1. w \in Sending
    BY <1>2, <1>4 DEF Sending
  <2>2. w.email = e /\ w.lines = lines /\ w.asked = asked /\ w.before = Len(box)
    OBVIOUS
  <2> QED
    BY <2>1, <2>2
<1>7. Mail!NewEmail \in Email /\ BuiltBy(Mail!NewEmail, <<>>) /\ <<>> \in Calls
  BY EmptyDraft
<1>8. ASSUME ~Mail!validate(e),
             result' = [ok |-> FALSE, email |-> e, lines |-> lines, asked |-> asked,
                        lost |-> FALSE, before |-> Len(box)],
             UNCHANGED <<script, sending, box>>
      PROVE  MailInv'
  <2>1. Mail!AllOrNothing' /\ Mail!BccStaysHidden' /\ Mail!InvalidSurfaces'
    BY <1>1, <1>2, <1>4, <1>5, <1>6, <1>8, ToldTruly
  <2> QED
    BY <2>1, <1>1, <1>2, <1>7, <1>8 DEF MailInv, MailTypes, SendingInv
<1>9. ASSUME Mail!validate(e), script' = Mail!Smtp(e, lines),
             sending' = [email |-> e, lines |-> lines, asked |-> asked, before |-> Len(box)],
             UNCHANGED <<box, result>>
      PROVE  MailInv'
  <2>1. sending' = x /\ x # None
    BY <1>6, <1>9 DEF MailConstants
  <2>2. /\ MailAt \in Nat \ {0, 1, 2} /\ Count(x.email) \in Nat
        /\ Mail!Smtp(x.email, x.lines) \in Seq(Commands)
        /\ Len(Mail!Smtp(x.email, x.lines)) = MailAt + Count(x.email) + 3
    BY <1>4, <1>6, SmtpSteps
  <2>3. MailAt' = MailAt /\ Mail!Smtp(x.email, x.lines)' = Mail!Smtp(x.email, x.lines)
    BY <1>1 DEF Mail!sites, MailAt, Mail!Login, Mail!Smtp
  <2>4. Behind(x, 0)'
    <3>1. \A i \in 1..Len(script') : script'[i] = Mail!Smtp(x.email, x.lines)[0 + i]
      <4> SUFFICES ASSUME NEW i \in 1..Len(script') PROVE script'[i] = Mail!Smtp(x.email, x.lines)[0 + i]
        OBVIOUS
      <4>1. i = 0 + i
        BY <2>2, <1>6, <1>9
      <4> QED
        BY <4>1, <1>6, <1>9
    <3>2. 0 < MailAt + Count(x.email) + 3 /\ Len(script') = MailAt + Count(x.email) + 3 - 0
      BY <2>2, <1>6, <1>9
    <3> QED
      BY <3>1, <3>2, <2>3 DEF Behind
  <2>5. Progress(x, 0)'
    <3>1. ~(MailAt <= 0) /\ 0 < MailAt + Count(x.email) + 2 /\ ~(0 >= MailAt + Count(x.email) + 2)
      BY <2>2
    <3> QED
      BY <3>1, <2>3, <1>6, <1>9 DEF Progress
  <2>6. Dialogue'
    BY <2>1, <2>4, <2>5 DEF Dialogue
  <2>7. SendingInv'
    BY <2>1, <2>6, <1>5, <1>6, <1>9 DEF SendingInv, BuiltBy, Mail!Wanted, Everyone, Mail!validate
  <2>8. MailTypes'
    BY <2>1, <2>2, <1>1, <1>2, <1>6, <1>7, <1>9 DEF MailTypes
  <2> QED
    BY <2>1, <2>7, <2>8, <1>1, <1>7, NothingTold DEF MailInv
<1>10. ASSUME Mail!HandOver(e, lines), Mail!validate(e), UNCHANGED <<script, sending>>
       PROVE  MailInv'
  <2>1. PICK ok \in BOOLEAN :
          /\ box' = IF ok THEN Append(box, [rcpts |-> IF transport = "sendmail" THEN Mail!SendmailTo(e)
                                                     ELSE Mail!ToSet(Mail!recipients(e)),
                                            text |-> lines, headers |-> Mail!Headers(e)])
                    ELSE box
          /\ result' = [ok |-> ok, email |-> e, lines |-> lines, asked |-> asked, lost |-> FALSE,
                        before |-> Len(box)]
    BY <1>10 DEF Mail!HandOver
  <2>2. /\ Mail!SendmailTo(e) = Mail!Wanted(asked) /\ Mail!ToSet(Mail!recipients(e)) = Mail!Wanted(asked)
        /\ Mail!Wanted(asked) \in SUBSET Addrs
    BY <1>4, <1>5, RecipientsOf DEF BuiltBy, Mail!SendmailTo, Everyone
  <2>3. Parcel(x) \in Message
    BY <2>2, <1>4, <1>6 DEF Parcel, Message, Mail!Headers, Email
  <2>4. box' = IF ok THEN Append(box, Parcel(x)) ELSE box
    BY <2>1, <2>2, <1>6 DEF Parcel
  <2>5. /\ box' \in Seq(Message)
        /\ ok => Len(box') = x.before + 1 /\ box'[x.before + 1] = Parcel(x)
        /\ ~ok => Len(box') = x.before
    BY <2>3, <2>4, <1>2, <1>4, <1>6
  <2>6. Mail!AllOrNothing' /\ Mail!BccStaysHidden' /\ Mail!InvalidSurfaces'
    BY <2>1, <2>5, <1>4, <1>5, <1>6, <1>10, ToldTruly
  <2> QED
    BY <2>5, <2>6, <1>1, <1>2, <1>7, <1>10 DEF MailInv, MailTypes, SendingInv
<1>11. \/ ~Mail!validate(e)
             /\ result' = [ok |-> FALSE, email |-> e, lines |-> lines, asked |-> asked,
                           lost |-> FALSE, before |-> Len(box)]
             /\ UNCHANGED <<script, sending, box>>
       \/ /\ Mail!validate(e) /\ script' = Mail!Smtp(e, lines)
          /\ sending' = [email |-> e, lines |-> lines, asked |-> asked, before |-> Len(box)]
          /\ UNCHANGED <<box, result>>
       \/ Mail!HandOver(e, lines) /\ Mail!validate(e) /\ UNCHANGED <<script, sending>>
  BY <1>3 DEF e
<1> QED
  BY <1>8, <1>9, <1>10, <1>11

LEMMA MailInit == ASSUME MailConstants, Mail!Init PROVE MailInv
BY EmptyDraft DEF Mail!Init, MailInv, MailTypes, SendingInv, Mail!AllOrNothing,
   Mail!BccStaysHidden, Mail!InvalidSurfaces

LEMMA MailNext == ASSUME MailConstants, MailInv, [Mail!Next]_(Mail!vars) PROVE MailInv'
<1>1. CASE Mail!Build
  BY <1>1, BuildKeeps
<1>2. CASE Mail!send
  BY <1>2, MessageKeeps
<1>3. CASE Mail!command \/ Mail!Breaks
  BY <1>3, DialogueKeeps
<1>4. CASE UNCHANGED Mail!vars
  <2>1. MailTypes' /\ BuiltBy(draft, asked)'
    BY <1>4 DEF MailInv, MailTypes, Mail!vars, BuiltBy, Mail!Wanted, Everyone
  <2>2. SendingInv'
    <3>1. CASE sending = None
      BY <3>1, <1>4 DEF SendingInv, Mail!vars
    <3>2. CASE sending # None
      <4>1. PICK x \in Sending : x = sending
        BY <3>2 DEF MailInv, MailTypes
      <4>2. PICK k \in Nat : Behind(x, k) /\ Progress(x, k)
        BY <4>1, <3>2 DEF MailInv, SendingInv, Dialogue
      <4>3. MailAt' = MailAt /\ Mail!Smtp(x.email, x.lines)' = Mail!Smtp(x.email, x.lines)
        BY <1>4 DEF Mail!vars, Mail!sites, MailAt, Mail!Login, Mail!Smtp
      <4>4. Behind(x, k)' /\ Progress(x, k)'
        BY <4>2, <4>3, <1>4 DEF Mail!vars, Behind, Progress
      <4>5. Dialogue'
        BY <4>1, <4>4, <1>4 DEF Dialogue, Mail!vars
      <4> QED
        BY <4>1, <4>5, <3>2, <1>4 DEF MailInv, SendingInv, Mail!vars
    <3> QED
      BY <3>1, <3>2
  <2>3. Mail!AllOrNothing' /\ Mail!BccStaysHidden' /\ Mail!InvalidSurfaces'
    <3>1. Mail!Delivered' = Mail!Delivered
      BY <1>4 DEF Mail!vars, Mail!Delivered
    <3> QED
      BY <3>1, <1>4 DEF MailInv, Mail!vars, Mail!AllOrNothing, Mail!BccStaysHidden,
         Mail!InvalidSurfaces
  <2> QED
    BY <2>1, <2>2, <2>3 DEF MailInv
<1> QED
  BY <1>1, <1>2, <1>3, <1>4 DEF Mail!Next

LEMMA MailSafe == ASSUME MailInv PROVE Mail!AllOrNothing /\ Mail!BccStaysHidden /\ Mail!InvalidSurfaces
BY DEF MailInv

THEOREM MailInductive ==
  ASSUME MailConstants
  PROVE  Mail!Spec => []MailInv
<1>1. Mail!Init => MailInv
  BY MailInit
<1>2. MailInv /\ [Mail!Next]_(Mail!vars) => MailInv'
  BY MailNext
<1> QED
  BY <1>1, <1>2, PTL DEF Mail!Spec

\* A send that succeeds delivers the text once, to everyone it was asked to reach;
\* one that fails, at whatever command of the dialogue, to nobody (Smtp::send).
THEOREM MailGoesToAll ==
  ASSUME MailConstants
  PROVE  Mail!Spec => []Mail!AllOrNothing
<1>1. MailInv => Mail!AllOrNothing
  BY MailSafe
<1> QED
  BY <1>1, MailInductive, PTL

\* The headers that are delivered name nobody from Bcc, and a message that was
\* given an invalid address goes to nobody (render, validate).
THEOREM MailKeepsItsWord ==
  ASSUME MailConstants
  PROVE  Mail!Spec => [](Mail!BccStaysHidden /\ Mail!InvalidSurfaces)
<1>1. MailInv => Mail!BccStaysHidden /\ Mail!InvalidSurfaces
  BY MailSafe
<1> QED
  BY <1>1, MailInductive, PTL

(***************************************************************************)
(* The reactor.  Its calls nest, so what they keep is stated of a slab, a  *)
(* set of connections that wait outside of it and the reservations that    *)
(* are still being made or refused: Good.  The invariant is that the shard *)
(* is Good for the line of commands it has yet to run, in which every      *)
(* connection is asked for once and every command carries the handle it    *)
(* was given.                                                              *)
(***************************************************************************)

\* Finitely many sockets, each from one address; the frames are of the kinds
\* handle_frame tells apart.
ReactorConstants ==
  /\ IsFiniteSet(Conns) /\ "nobody" \notin Conns
  /\ IpOf \in [Conns -> Ips]
  /\ MaxTotal \in Nat /\ MaxPerIp \in Nat /\ MaxBuffered \in Nat
  /\ FramesPerWake \in Nat /\ Grace \in Nat /\ IdleAfter \in Nat
  /\ Frames \subseteq {"ping", "pong", "data", "close", "bad"}

Tokens == Nat \ {0}
Slot == [id : Conns, rbuf : Seq(Frames), out : 0..MaxBuffered, closing : BOOLEAN,
         left : Nat, peerClosed : BOOLEAN, quiet : Nat, awaiting : BOOLEAN]
Shards == [slab : Seq(Slot \cup {Reactor!Empty}), gens : Seq(Nat), free : Seq(Tokens),
           parked : Seq(Tokens), total : Int, perIp : [Ips -> Int], closed : [Conns -> Nat]]

\* The connections that sit in a slot.
Seated(q) == {q.slab[t].id : t \in {u \in DOMAIN q.slab : q.slab[u] # Reactor!Empty}}

SlabOk(q) ==
  /\ Len(q.gens) = Len(q.slab)
  /\ \A i, j \in DOMAIN q.free : q.free[i] = q.free[j] => i = j
  /\ \A i \in DOMAIN q.free : q.free[i] \in DOMAIN q.slab /\ q.slab[q.free[i]] = Reactor!Empty
  /\ \A t \in DOMAIN q.slab : q.slab[t] = Reactor!Empty => \E i \in DOMAIN q.free : q.free[i] = t
  /\ \A t, u \in DOMAIN q.slab :
       q.slab[t] # Reactor!Empty /\ q.slab[u] # Reactor!Empty /\ q.slab[t].id = q.slab[u].id
         => t = u

\* The counters stand for the connections of W, which wait outside of the slab,
\* those in it, and the reservations of n that are still being made and refused.
BooksOk(q, W, n) ==
  /\ W \cap Seated(q) = {}
  /\ q.total = Cardinality(W \cup Seated(q)) + n.making + n.refusing
  /\ Cardinality(W \cup Seated(q)) + n.making <= MaxTotal
  /\ \A i \in Ips : q.perIp[i] = Cardinality({c \in W \cup Seated(q) : IpOf[c] = i})
                   /\ q.perIp[i] <= MaxPerIp

\* Who has a handle and no slot was closed, once; a handle names the slot of its
\* owner, or a generation that is over.
OwnersOk(q, h, R) ==
  /\ \A c \in Conns : q.closed[c] = IF h[c][1] # 0 /\ c \notin Seated(q)
                                      THEN 1
                                      ELSE 0
  /\ \A t \in DOMAIN q.slab : q.slab[t] # Reactor!Empty => h[q.slab[t].id] = <<t, q.gens[t]>>
  /\ ~R => \A c \in Conns : h[c][1] # 0 =>
       /\ h[c][1] \in DOMAIN q.slab
       /\ c \in Seated(q) \/ h[c][2] < q.gens[h[c][1]]

Good(W, n, h, R, m) ==
  {q \in Shards : SlabOk(q) /\ BooksOk(q, W, n) /\ OwnersOk(q, h, R) /\ Len(q.slab) = m}

Context(W, n, h, R, m) ==
  W \subseteq Conns /\ n \in [making : Nat, refusing : Nat] /\ h \in [Conns -> Nat \X Nat]
    /\ R \in BOOLEAN /\ m \in Nat

\* A record is never the empty mark.
LEMMA SlotNotEmpty == Reactor!Empty \notin Slot
<1> SUFFICES ASSUME Reactor!Empty \in Slot PROVE FALSE
  OBVIOUS
<1>1. DOMAIN Reactor!Empty = {"id"}
  BY DEF Reactor!Empty
<1>2. "out" \in DOMAIN Reactor!Empty
  BY DEF Slot
<1> QED
  BY <1>1, <1>2

\* Calls that leave the occupation of the slots as it is.
LEMMA SameSeats ==
  ASSUME NEW W, NEW n, NEW h, NEW R, NEW m, NEW q \in Good(W, n, h, R, m), NEW r \in Shards,
         r.gens = q.gens, r.free = q.free, r.total = q.total, r.perIp = q.perIp,
         r.closed = q.closed, DOMAIN r.slab = DOMAIN q.slab,
         \A t \in DOMAIN q.slab : r.slab[t] = Reactor!Empty <=> q.slab[t] = Reactor!Empty,
         \A t \in DOMAIN q.slab : q.slab[t] # Reactor!Empty => r.slab[t].id = q.slab[t].id
  PROVE  r \in Good(W, n, h, R, m)
<1>1. q \in Shards /\ SlabOk(q) /\ BooksOk(q, W, n) /\ OwnersOk(q, h, R) /\ Len(q.slab) = m
  BY DEF Good
<1>2. Seated(r) = Seated(q)
  BY DEF Seated
<1>3. Len(r.slab) = m
  BY <1>1 DEF Shards
<1>4. SlabOk(r)
  BY <1>1, <1>3 DEF SlabOk
<1>5. BooksOk(r, W, n)
  BY <1>1, <1>2 DEF BooksOk
<1>6. OwnersOk(r, h, R)
  BY <1>1, <1>2 DEF OwnersOk
<1> QED
  BY <1>3, <1>4, <1>5, <1>6 DEF Good

\* A slot's own fields may change.
LEMMA PutSlot ==
  ASSUME NEW W, NEW n, NEW h, NEW R, NEW m \in Nat, NEW q \in Good(W, n, h, R, m),
         NEW t \in 1..m, q.slab[t] # Reactor!Empty, NEW x \in Slot, x.id = q.slab[t].id,
         NEW r, r = [q EXCEPT !.slab = [q.slab EXCEPT ![t] = x]]
  PROVE  r \in Good(W, n, h, R, m) /\ r.slab[t] = x
<1>1. q \in Shards /\ DOMAIN q.slab = 1..m /\ q.slab \in Seq(Slot \cup {Reactor!Empty})
  BY DEF Good, Shards
<1>2. [q.slab EXCEPT ![t] = x] \in Seq(Slot \cup {Reactor!Empty})
  BY <1>1
<1>3. r \in Shards
  BY <1>1, <1>2 DEF Shards
<1>4. r.slab = [q.slab EXCEPT ![t] = x] /\ r.gens = q.gens /\ r.free = q.free /\ r.total = q.total
      /\ r.perIp = q.perIp /\ r.closed = q.closed
  BY <1>1 DEF Shards
<1>5. x # Reactor!Empty
  BY SlotNotEmpty
<1>6. r.slab[t] = x /\ DOMAIN r.slab = DOMAIN q.slab
      /\ \A u \in DOMAIN q.slab : u # t => r.slab[u] = q.slab[u]
  BY <1>1, <1>4
<1>7. /\ \A u \in DOMAIN q.slab : r.slab[u] = Reactor!Empty <=> q.slab[u] = Reactor!Empty
      /\ \A u \in DOMAIN q.slab : q.slab[u] # Reactor!Empty => r.slab[u].id = q.slab[u].id
  BY <1>5, <1>6
<1>8. r \in Good(W, n, h, R, m)
  BY <1>3, <1>4, <1>6, <1>7, SameSeats
<1> QED
  BY <1>6, <1>8

\* remove: the slot is freed under a new generation, the reservation given back,
\* on_close called.
LEMMA RemoveKeeps ==
  ASSUME ReactorConstants, NEW W, NEW n, NEW h, NEW R, NEW m, Context(W, n, h, R, m),
         NEW q \in Good(W, n, h, R, m), NEW t \in 1..m
  PROVE  Reactor!RemoveConn(q, t) \in Good(W, n, h, R, m)
<1> DEFINE r == Reactor!RemoveConn(q, t)
           c == q.slab[t].id
<1>1. q \in Shards /\ SlabOk(q) /\ BooksOk(q, W, n) /\ OwnersOk(q, h, R) /\ Len(q.slab) = m
  BY DEF Good
<1>2. DOMAIN q.slab = 1..m /\ DOMAIN q.gens = 1..m /\ q.slab[t] \in Slot \cup {Reactor!Empty}
        /\ m \in Nat
  BY <1>1 DEF Shards, SlabOk, Context
<1> SUFFICES ASSUME q.slab[t] # Reactor!Empty PROVE r \in Good(W, n, h, R, m)
  BY DEF Reactor!RemoveConn
<1>3. c \in Conns /\ IpOf[c] \in Ips
  BY <1>2 DEF Slot, ReactorConstants
<1>4. r = [q EXCEPT !.slab = [q.slab EXCEPT ![t] = Reactor!Empty],
        !.gens = [q.gens EXCEPT ![t] = q.gens[t] + 1],
                   !.free = Append(q.free, t),
                     !.closed = [q.closed EXCEPT ![c] = q.closed[c] + 1],
                   !.total = q.total - 1,
                     !.perIp = [q.perIp EXCEPT ![IpOf[c]] = q.perIp[IpOf[c]] - 1]]
  BY <1>1 DEF Reactor!RemoveConn, Reactor!Release, Shards
<1>5. /\ r.slab = [q.slab EXCEPT ![t] = Reactor!Empty]
           /\ r.gens = [q.gens EXCEPT ![t] = q.gens[t] + 1]
      /\ r.free = Append(q.free, t) /\ r.closed = [q.closed EXCEPT ![c] = q.closed[c] + 1]
      /\ r.total = q.total - 1 /\ r.perIp = [q.perIp EXCEPT ![IpOf[c]] = q.perIp[IpOf[c]] - 1]
      /\ r.parked = q.parked
  BY <1>1, <1>4 DEF Shards
<1>6. r \in Shards
  <2>1. q.slab \in Seq(Slot \cup {Reactor!Empty}) /\ q.gens \in Seq(Nat) /\ q.free \in Seq(Tokens)
        /\ q.closed \in [Conns -> Nat] /\ q.total \in Int /\ q.perIp \in [Ips -> Int]
    BY <1>1 DEF Shards
  <2>2. [q.slab EXCEPT ![t] = Reactor!Empty] \in Seq(Slot \cup {Reactor!Empty})
    BY <2>1, <1>2
  <2>3. [q.gens EXCEPT ![t] = q.gens[t] + 1] \in Seq(Nat)
    BY <2>1, <1>2
  <2>4. Append(q.free, t) \in Seq(Tokens)
    BY <2>1, <1>2 DEF Tokens
  <2>5. [q.closed EXCEPT ![c] = q.closed[c] + 1] \in [Conns -> Nat]
    BY <2>1, <1>3
  <2>6. [q.perIp EXCEPT ![IpOf[c]] = q.perIp[IpOf[c]] - 1] \in [Ips -> Int] /\ q.total - 1 \in Int
    BY <2>1, <1>3
  <2> QED
    BY <1>1, <1>4, <2>2, <2>3, <2>4, <2>5, <2>6 DEF Shards
<1> HIDE DEF r
<1>7. DOMAIN r.slab = 1..m /\ DOMAIN r.gens = 1..m /\ r.slab[t] = Reactor!Empty
      /\ \A u \in 1..m : u # t => r.slab[u] = q.slab[u] /\ r.gens[u] = q.gens[u]
  BY <1>2, <1>5
<1>8. r.gens[t] = q.gens[t] + 1 /\ q.gens[t] \in Nat
  BY <1>1, <1>2, <1>5 DEF Shards
<1>9. Len(r.slab) = m /\ Len(r.gens) = m
  BY <1>2, <1>6, <1>7 DEF Shards
<1>10. Seated(r) = Seated(q) \ {c} /\ c \in Seated(q)
  <2>1. \A u \in 1..m : u # t /\ q.slab[u] # Reactor!Empty => q.slab[u].id # c
    BY <1>1, <1>2 DEF SlabOk
  <2> QED
    BY <2>1, <1>2, <1>7 DEF Seated
<1>11. SlabOk(r)
  <2>1. q.free \in Seq(Tokens) /\ DOMAIN q.free = 1..Len(q.free) /\ Len(q.free) \in Nat
    BY <1>1 DEF Shards
  <2> DEFINE k == Len(q.free)
  <2>2. DOMAIN r.free = 1..(k + 1) /\ r.free[k + 1] = t /\ \A i \in 1..k : r.free[i] = q.free[i]
    BY <2>1, <1>5
  <2>3. \A i \in 1..k : q.free[i] # t /\ q.free[i] \in 1..m /\ q.slab[q.free[i]] = Reactor!Empty
    BY <2>1, <1>1, <1>2 DEF SlabOk
  <2>4. \A i, j \in 1..k : q.free[i] = q.free[j] => i = j
    BY <2>1, <1>1 DEF SlabOk
  <2>5. \A i \in 1..(k + 1) : i \in 1..k \/ i = k + 1
    BY <2>1
  <2>6. \A i \in 1..k : i \in 1..(k + 1)
    BY <2>1
  <2>7. k + 1 \in 1..(k + 1)
    BY <2>1
  <2> HIDE DEF k
  <2>8. \A i, j \in DOMAIN r.free : r.free[i] = r.free[j] => i = j
    BY <2>2, <2>3, <2>4, <2>5
  <2>9. \A i \in DOMAIN r.free : r.free[i] \in DOMAIN r.slab /\ r.slab[r.free[i]] = Reactor!Empty
    BY <2>2, <2>3, <2>5, <1>7
  <2>10. \A u \in DOMAIN r.slab : r.slab[u] = Reactor!Empty
           => \E i \in DOMAIN r.free : r.free[i] = u
    <3> SUFFICES ASSUME NEW u \in 1..m, r.slab[u] = Reactor!Empty
                 PROVE  \E i \in 1..(k + 1) : r.free[i] = u
      BY <1>7, <2>2
    <3>1. CASE u = t
      BY <3>1, <2>2, <2>7
    <3>2. CASE u # t
      <4>1. PICK i \in 1..k : q.free[i] = u
        BY <3>2, <1>1, <1>2, <1>7, <2>1 DEF SlabOk, k
      <4> QED
        BY <4>1, <2>2, <2>6
    <3> QED
      BY <3>1, <3>2
  <2>11. \A u, v \in DOMAIN r.slab :
           r.slab[u] # Reactor!Empty /\ r.slab[v] # Reactor!Empty
             /\ r.slab[u].id = r.slab[v].id => u = v
    BY <1>1, <1>2, <1>7 DEF SlabOk
  <2> QED
    BY <2>8, <2>9, <2>10, <2>11, <1>9 DEF SlabOk
<1>12. BooksOk(r, W, n)
  <2>1. W \cap Seated(q) = {} /\ q.total = Cardinality(W \cup Seated(q)) + n.making + n.refusing
        /\ Cardinality(W \cup Seated(q)) + n.making <= MaxTotal
        /\ \A i \in Ips : q.perIp[i] = Cardinality({d \in W \cup Seated(q) : IpOf[d] = i})
                         /\ q.perIp[i] <= MaxPerIp
    BY <1>1 DEF BooksOk
  <2>2. W \cup Seated(q) \subseteq Conns
    <3>1. \A u \in 1..m : q.slab[u] # Reactor!Empty => q.slab[u] \in Slot
      BY <1>1, <1>2 DEF Shards
    <3> QED
      BY <3>1, <1>2 DEF Seated, Slot, Context
  <2> DEFINE X == W \cup Seated(q)
             In(i) == {d \in X : IpOf[d] = i}
  <2>3. W \cup Seated(r) = X \ {c} /\ c \in X
    BY <1>10, <2>1
  <2>4. IsFiniteSet(X) /\ \A i \in Ips : IsFiniteSet(In(i))
    <3>1. IsFiniteSet(X)
      BY <2>2, FS_Subset DEF ReactorConstants
    <3>2. \A i \in Ips : In(i) \subseteq X
      OBVIOUS
    <3> HIDE DEF X
    <3> QED
      BY <3>1, <3>2, FS_Subset
  <2>5. Cardinality(X \ {c}) = Cardinality(X) - 1 /\ Cardinality(X) \in Nat
    <3> HIDE DEF X
    <3> QED
      BY <2>3, <2>4, FS_RemoveElement, FS_CardinalityType
  <2>6. r.total = Cardinality(W \cup Seated(r)) + n.making + n.refusing
        /\ Cardinality(W \cup Seated(r)) + n.making <= MaxTotal
    <3>1. q.total = Cardinality(X) + n.making + n.refusing /\ n.making \in Nat
            /\ n.refusing \in Nat
          /\ r.total = q.total - 1 /\ Cardinality(X) + n.making <= MaxTotal /\ MaxTotal \in Nat
      BY <2>1, <1>5 DEF Context, ReactorConstants
    <3>2. Cardinality(W \cup Seated(r)) = Cardinality(X) - 1
      BY <2>3, <2>5
    <3> HIDE DEF X
    <3> QED
      BY <3>1, <3>2, <2>5
  <2>7. ASSUME NEW i \in Ips
        PROVE  r.perIp[i] = Cardinality({d \in W \cup Seated(r) : IpOf[d] = i})
               /\ r.perIp[i] <= MaxPerIp
    <3>1. {d \in W \cup Seated(r) : IpOf[d] = i} = In(i) \ {c}
      BY <2>3
    <3>2. q.perIp \in [Ips -> Int] /\ q.perIp[i] = Cardinality(In(i))
            /\ Cardinality(In(i)) \in Nat
          /\ q.perIp[i] <= MaxPerIp /\ MaxPerIp \in Nat
      BY <1>1, <2>1, <2>4, FS_CardinalityType DEF Shards, ReactorConstants
    <3>3. CASE i = IpOf[c]
      <4>1. c \in In(i)
        BY <3>3, <2>3
      <4>2. Cardinality(In(i) \ {c}) = Cardinality(In(i)) - 1
        BY <4>1, <2>4, FS_RemoveElement
      <4>3. r.perIp[i] = q.perIp[i] - 1
        BY <3>3, <3>2, <1>3, <1>5
      <4>4. r.perIp[i] = Cardinality({d \in W \cup Seated(r) : IpOf[d] = i})
        BY <4>2, <4>3, <3>1, <3>2
      <4> HIDE DEF In
      <4>5. r.perIp[i] <= MaxPerIp
        BY <4>3, <3>2
      <4> QED
        BY <4>4, <4>5
    <3>4. CASE i # IpOf[c]
      <4>1. In(i) \ {c} = In(i)
        BY <3>4
      <4>2. r.perIp[i] = q.perIp[i]
        BY <3>4, <3>2, <1>3, <1>5
      <4> QED
        BY <4>1, <4>2, <3>1, <3>2
    <3> QED
      BY <3>3, <3>4
  <2>8. W \cap Seated(r) = {}
    BY <2>1, <1>10
  <2> QED
    BY <2>6, <2>7, <2>8 DEF BooksOk
<1>13. OwnersOk(r, h, R)
  <2>1. h[c] = <<t, q.gens[t]>> /\ h[c][1] = t /\ h[c][2] = q.gens[t] /\ t # 0
    <3>1. h[c] = <<t, q.gens[t]>>
      BY <1>1, <1>2 DEF OwnersOk
    <3> HIDE DEF c
    <3> QED
      BY <3>1, <1>2
  <2>2. \A d \in Conns : r.closed[d] = IF h[d][1] # 0 /\ d \notin Seated(r)
                                         THEN 1
                                         ELSE 0
    <3> SUFFICES ASSUME NEW d \in Conns
                 PROVE  r.closed[d] = IF h[d][1] # 0 /\ d \notin Seated(r)
                                        THEN 1
                                        ELSE 0
      OBVIOUS
    <3>1. q.closed \in [Conns -> Nat]
          /\ q.closed[d] = IF h[d][1] # 0 /\ d \notin Seated(q)
                             THEN 1
                             ELSE 0
      BY <1>1 DEF OwnersOk, Shards
    <3>2. CASE d = c
      <4>1. q.closed[c] = 0 /\ r.closed[c] = q.closed[c] + 1
        BY <3>1, <3>2, <1>3, <1>5, <1>10
      <4> QED
        BY <4>1, <3>2, <2>1, <1>10
    <3>3. CASE d # c
      BY <3>1, <3>3, <1>5, <1>10
    <3> QED
      BY <3>2, <3>3
  <2>3. \A u \in DOMAIN r.slab : r.slab[u] # Reactor!Empty => h[r.slab[u].id] = <<u, r.gens[u]>>
    BY <1>1, <1>2, <1>7 DEF OwnersOk
  <2>4. ASSUME ~R, NEW d \in Conns, h[d][1] # 0
        PROVE  h[d][1] \in DOMAIN r.slab /\ (d \in Seated(r) \/ h[d][2] < r.gens[h[d][1]])
    <3>1. h[d][1] \in 1..m /\ (d \in Seated(q) \/ h[d][2] < q.gens[h[d][1]]) /\ h[d][2] \in Nat
      BY <2>4, <1>1, <1>2 DEF OwnersOk, Context
    <3>2. CASE d = c
      BY <3>2, <2>1, <1>7, <1>8
    <3>3. CASE d # c /\ d \in Seated(q)
      BY <3>1, <3>3, <1>7, <1>10
    <3>4. CASE d # c /\ h[d][2] < q.gens[h[d][1]]
      <4>1. CASE h[d][1] = t
        BY <4>1, <3>1, <3>4, <1>7, <1>8
      <4>2. CASE h[d][1] # t
        BY <4>2, <3>1, <3>4, <1>7
      <4> QED
        BY <4>1, <4>2
    <3> QED
      BY <3>1, <3>2, <3>3, <3>4
  <2> QED
    BY <2>2, <2>3, <2>4 DEF OwnersOk
<1> QED
  BY <1>6, <1>9, <1>11, <1>12, <1>13 DEF Good

\* In a slot that is taken sits a whole record.
LEMMA Sits ==
  ASSUME NEW W, NEW n, NEW h, NEW R, NEW m \in Nat, NEW q \in Good(W, n, h, R, m),
         NEW t \in 1..m
  PROVE  /\ q \in Shards /\ DOMAIN q.slab = 1..m /\ Len(q.slab) = m /\ t <= Len(q.slab)
         /\ q.slab[t] # Reactor!Empty => q.slab[t] \in Slot
BY DEF Good, Shards

\* flush: bytes leave the buffer, or the peer that is gone is removed.
LEMMA FlushKeeps ==
  ASSUME ReactorConstants, NEW W, NEW n, NEW h, NEW R, NEW m, Context(W, n, h, R, m),
         NEW q \in Good(W, n, h, R, m), NEW t \in 1..m
  PROVE  Reactor!FlushOut(q, t) \in Good(W, n, h, R, m)
<1>1. m \in Nat
  BY DEF Context
<1>2. CASE q.slab[t] = Reactor!Empty
  BY <1>2 DEF Reactor!FlushOut, Reactor!Held
<1>3. CASE q.slab[t] # Reactor!Empty
  <2> DEFINE x == [q.slab[t] EXCEPT !.out = 0]
             r == [q EXCEPT !.slab = [q.slab EXCEPT ![t] = x]]
  <2>1. q.slab[t] \in Slot /\ q \in Shards /\ t <= Len(q.slab)
    BY <1>1, <1>3, Sits
  <2>2. x \in Slot /\ x.id = q.slab[t].id
    <3>1. 0 \in 0..MaxBuffered
      BY DEF ReactorConstants
    <3> QED
      BY <2>1, <3>1 DEF Slot
  <2>3. r \in Good(W, n, h, R, m)
    <3> HIDE DEF x
    <3> QED
      BY <1>1, <1>3, <2>2, PutSlot
  <2>4. [q EXCEPT !.slab[t].out = 0] = r
    OBVIOUS
  <2>5. Reactor!RemoveConn(q, t) \in Good(W, n, h, R, m)
    BY RemoveKeeps
  <2>6. Reactor!FlushOut(q, t) \in {q, Reactor!RemoveConn(q, t), [q EXCEPT !.slab[t].out = 0]}
    BY <1>3, <2>1 DEF Reactor!FlushOut, Reactor!Held
  <2> QED
    BY <2>3, <2>4, <2>5, <2>6
<1> QED
  BY <1>2, <1>3

\* enqueue: a frame joins the buffer, or closes a connection whose buffer is full.
LEMMA EnqueueKeeps ==
  ASSUME ReactorConstants, NEW W, NEW n, NEW h, NEW R, NEW m, Context(W, n, h, R, m),
         NEW q \in Good(W, n, h, R, m), NEW t \in 1..m
  PROVE  Reactor!Enqueue(q, t) \in Good(W, n, h, R, m)
<1>1. m \in Nat
  BY DEF Context
<1>2. CASE q.slab[t] = Reactor!Empty
  BY <1>2 DEF Reactor!Enqueue
<1>3. CASE q.slab[t] # Reactor!Empty /\ q.slab[t].out + 1 > MaxBuffered
  BY <1>3, RemoveKeeps DEF Reactor!Enqueue
<1>4. CASE q.slab[t] # Reactor!Empty /\ ~(q.slab[t].out + 1 > MaxBuffered)
  <2> DEFINE x == [q.slab[t] EXCEPT !.out = q.slab[t].out + 1]
             r == [q EXCEPT !.slab = [q.slab EXCEPT ![t] = x]]
  <2>1. q.slab[t] \in Slot /\ q \in Shards
    BY <1>1, <1>4, Sits
  <2>2. x \in Slot /\ x.id = q.slab[t].id
    <3>1. q.slab[t].out + 1 \in 0..MaxBuffered
      <4>1. q.slab[t].out \in 0..MaxBuffered
        BY <2>1 DEF Slot
      <4> QED
        BY <4>1, <1>4 DEF ReactorConstants
    <3> QED
      BY <2>1, <3>1 DEF Slot
  <2>3. r \in Good(W, n, h, R, m)
    <3> HIDE DEF x
    <3> QED
      BY <1>1, <1>4, <2>2, PutSlot
  <2>4. [q EXCEPT !.slab[t].out = @ + 1] = r
    OBVIOUS
  <2>5. Reactor!Enqueue(q, t) = Reactor!FlushOut(r, t)
    BY <1>4, <2>4 DEF Reactor!Enqueue
  <2> HIDE DEF r
  <2> QED
    BY <2>3, <2>5, FlushKeeps
<1> QED
  BY <1>2, <1>3, <1>4

\* begin_close: the closing frame is queued and the grace period starts.
LEMMA CloseKeeps ==
  ASSUME ReactorConstants, NEW W, NEW n, NEW h, NEW R, NEW m, Context(W, n, h, R, m),
         NEW q \in Good(W, n, h, R, m), NEW t \in 1..m
  PROVE  Reactor!BeginClose(q, t) \in Good(W, n, h, R, m)
<1>1. m \in Nat
  BY DEF Context
<1> DEFINE p == Reactor!Enqueue(q, t)
           x == [p.slab[t] EXCEPT !.closing = TRUE, !.left = Grace]
           r == [p EXCEPT !.slab = [p.slab EXCEPT ![t] = x]]
<1>2. p \in Good(W, n, h, R, m)
  BY EnqueueKeeps
<1> HIDE DEF p
<1>3. CASE p.slab[t] # Reactor!Empty
  <2>1. p.slab[t] \in Slot /\ p \in Shards
    BY <1>1, <1>2, <1>3, Sits
  <2>2. x \in Slot /\ x.id = p.slab[t].id
    BY <2>1 DEF Slot, ReactorConstants
  <2>3. r \in Good(W, n, h, R, m)
    <3> HIDE DEF x
    <3> QED
      BY <1>1, <1>2, <1>3, <2>2, PutSlot
  <2>4. [p EXCEPT !.slab[t].closing = TRUE, !.slab[t].left = Grace] = r
    BY <2>1 DEF Shards
  <2> QED
    BY <1>2, <2>3, <2>4 DEF Reactor!BeginClose, p
<1>4. CASE p.slab[t] = Reactor!Empty
  BY <1>2, <1>4 DEF Reactor!BeginClose, p
<1> QED
  BY <1>3, <1>4

\* handle_frame, for every kind of frame.
LEMMA FrameKeeps ==
  ASSUME ReactorConstants, NEW W, NEW n, NEW h, NEW R, NEW m, Context(W, n, h, R, m),
         NEW q \in Good(W, n, h, R, m), NEW t \in 1..m, q.slab[t] # Reactor!Empty,
         NEW f \in Frames, f # "bad"
  PROVE  Reactor!HandleFrame(q, t, f) \in Good(W, n, h, R, m)
<1>1. m \in Nat /\ q.slab[t] \in Slot /\ q \in Shards
  BY Sits DEF Context
<1>2. CASE f = "ping"
  BY <1>2, EnqueueKeeps DEF Reactor!HandleFrame
<1>3. CASE f = "pong"
  <2> DEFINE x == [q.slab[t] EXCEPT !.awaiting = FALSE]
             r == [q EXCEPT !.slab = [q.slab EXCEPT ![t] = x]]
  <2>1. x \in Slot /\ x.id = q.slab[t].id
    BY <1>1 DEF Slot
  <2>2. r \in Good(W, n, h, R, m)
    <3> HIDE DEF x
    <3> QED
      BY <1>1, <2>1, PutSlot
  <2> QED
    BY <1>3, <2>2 DEF Reactor!HandleFrame
<1>4. CASE f = "data"
  BY <1>4 DEF Reactor!HandleFrame
<1>5. CASE f = "close"
  <2> DEFINE x == [q.slab[t] EXCEPT !.closing = TRUE, !.left = Grace, !.peerClosed = TRUE]
             r == [q EXCEPT !.slab = [q.slab EXCEPT ![t] = x]]
             p == [q EXCEPT !.slab[t].closing = TRUE, !.slab[t].left = Grace,
                            !.slab[t].peerClosed = TRUE]
  <2>1. x \in Slot /\ x.id = q.slab[t].id
    BY <1>1 DEF Slot, ReactorConstants
  <2>2. r \in Good(W, n, h, R, m)
    <3> HIDE DEF x
    <3> QED
      BY <1>1, <2>1, PutSlot
  <2>3. p = r
    BY <1>1 DEF Shards
  <2>4. Reactor!HandleFrame(q, t, f) = IF q.slab[t].closing
                                 THEN Reactor!RemoveConn(q, t)
                                 ELSE Reactor!Enqueue(p, t)
    BY <1>5 DEF Reactor!HandleFrame
  <2>5. Reactor!RemoveConn(q, t) \in Good(W, n, h, R, m)
          /\ Reactor!Enqueue(r, t) \in Good(W, n, h, R, m)
    <3> HIDE DEF r
    <3> QED
      BY <2>2, RemoveKeeps, EnqueueKeeps
  <2> HIDE DEF p, r
  <2> QED
    BY <2>3, <2>4, <2>5
<1> QED
  BY <1>2, <1>3, <1>4, <1>5 DEF ReactorConstants

\* What a wake has come to while it parses.
Parses(W, n, h, R, m) == [st : Good(W, n, h, R, m), used : Nat, stop : BOOLEAN]

\* One turn of the parse loop.
LEMMA StepKeeps ==
  ASSUME ReactorConstants, NEW W, NEW n, NEW h, NEW R, NEW m, Context(W, n, h, R, m),
         NEW a \in Parses(W, n, h, R, m), NEW t \in 1..m, NEW f \in Frames
  PROVE  Reactor!ParseStep(a, f, t) \in Parses(W, n, h, R, m)
<1>1. a.st \in Good(W, n, h, R, m) /\ a.used \in Nat /\ a.stop \in BOOLEAN
  BY DEF Parses
<1>2. CASE a.stop \/ a.st.slab[t] = Reactor!Empty
  BY <1>2 DEF Reactor!ParseStep
<1>3. CASE ~(a.stop \/ a.st.slab[t] = Reactor!Empty) /\ f = "bad"
  <2>1. Reactor!BeginClose(a.st, t) \in Good(W, n, h, R, m)
    BY <1>1, CloseKeeps
  <2>2. Reactor!ParseStep(a, f, t) = [a EXCEPT !.st = Reactor!BeginClose(a.st, t), !.stop = TRUE]
    BY <1>3 DEF Reactor!ParseStep
  <2> QED
    BY <2>1, <2>2 DEF Parses
<1>4. CASE ~(a.stop \/ a.st.slab[t] = Reactor!Empty) /\ f # "bad"
  <2>1. Reactor!HandleFrame(a.st, t, f) \in Good(W, n, h, R, m)
    BY <1>1, <1>4, FrameKeeps
  <2>2. Reactor!ParseStep(a, f, t) = [a EXCEPT !.st = Reactor!HandleFrame(a.st, t, f),
          !.used = a.used + 1]
    BY <1>4 DEF Reactor!ParseStep
  <2>3. a.used + 1 \in Nat
    BY <1>1
  <2> QED
    BY <2>1, <2>2, <2>3 DEF Parses
<1> QED
  BY <1>2, <1>3, <1>4

(* Loops.  A run of steps that stay in a set exists, and what every step keeps *)
(* holds at its end: both by the first place that fails.                      *)

\* f starts at a and takes the n steps F[1] to F[n].
IsRun(f, n, a, F) == f[0] = a /\ \A i \in 0..n, k \in 1..n : k = i + 1 => f[k] = F[k][f[i]]

\* Steps that stay in a set, taken one after another, stay in it.  The first step
\* after which no run exists would have one before it.
LEMMA Runs ==
  ASSUME NEW n \in Nat, NEW S, NEW a \in S, NEW F \in [1..n -> [S -> S]]
  PROVE  \E f \in [0..n -> S] : IsRun(f, n, a, F)
<1> USE DEF IsRun
<1> DEFINE Run(f, m) == IsRun(f, m, a, F)
           Failing == {m \in 0..n : ~\E f \in [0..m -> S] : Run(f, m)}
<1> SUFFICES ASSUME Failing # {} PROVE FALSE
  OBVIOUS
<1>1. Failing \subseteq Nat
  OBVIOUS
<1>2. PICK m \in Failing : \A i \in Failing : ~(<<i, m>> \in OpToRel(<, Nat))
  BY <1>1, NatLessThanWellFounded, WFMin
<1>3. \A i \in Failing : ~(i < m)
  BY <1>1, <1>2 DEF OpToRel
<1>4. m \in 0..n /\ ~\E f \in [0..m -> S] : Run(f, m)
  OBVIOUS
<1> HIDE DEF Failing
<1>5. CASE m = 0
  <2>1. [i \in 0..0 |-> a] \in [0..m -> S] /\ Run([i \in 0..0 |-> a], m)
    BY <1>5
  <2> QED
    BY <2>1, <1>4
<1>6. CASE m # 0
  <2>1. PICK j \in 0..n : m = j + 1 /\ j < m /\ m \in 1..n /\ j = m - 1
    BY <1>4, <1>6
  <2>2. PICK f \in [0..j -> S] : Run(f, j)
    BY <1>3, <2>1 DEF Failing
  <2> DEFINE g == [i \in 0..m |-> IF i = m
                                    THEN F[m][f[j]]
                                    ELSE f[i]]
  <2>3. f[j] \in S /\ F[m] \in [S -> S] /\ \A i \in 0..m : i # m => i \in 0..j
    BY <2>1
  <2>4. g \in [0..m -> S]
    BY <2>2, <2>3
  <2>5. g[0] = a
    BY <2>1, <2>2
  <2>6. ASSUME NEW i \in 0..m, NEW k \in 1..m, k = i + 1 PROVE g[k] = F[k][g[i]]
    <3>1. CASE k = m
      <4>1. i = j /\ i # m
        BY <3>1, <2>6, <2>1
      <4> QED
        BY <3>1, <4>1
    <3>2. CASE k # m
      <4>1. i # m /\ i \in 0..j /\ k \in 1..j /\ k \in 0..m
        BY <3>2, <2>6, <2>1
      <4>2. f[k] = F[k][f[i]]
        BY <4>1, <2>2, <2>6
      <4> QED
        BY <3>2, <4>1, <4>2
    <3> QED
      BY <3>1, <3>2
  <2> QED
    BY <1>4, <2>4, <2>5, <2>6
<1> QED
  BY <1>5, <1>6

\* What holds at the start and is kept by each step holds all along.
LEMMA Stays ==
  ASSUME NEW n \in Nat, NEW f, NEW T, f[0] \in T[0],
         \A i \in 0..n, k \in 1..n : k = i + 1 /\ f[i] \in T[i] => f[k] \in T[k]
  PROVE  \A i \in 0..n : f[i] \in T[i]
<1> DEFINE Failing == {i \in 0..n : f[i] \notin T[i]}
<1> SUFFICES ASSUME Failing # {} PROVE FALSE
  OBVIOUS
<1>1. Failing \subseteq Nat
  OBVIOUS
<1>2. PICK m \in Failing : \A i \in Failing : ~(<<i, m>> \in OpToRel(<, Nat))
  BY <1>1, NatLessThanWellFounded, WFMin
<1>3. \A i \in Failing : ~(i < m)
  BY <1>1, <1>2 DEF OpToRel
<1>4. m \in 0..n /\ m # 0 /\ f[m] \notin T[m]
  OBVIOUS
<1>5. PICK j \in 0..n : m = j + 1 /\ j < m /\ m \in 1..n
  <2>1. m - 1 \in 0..n
    BY <1>4
  <2> QED
    BY <2>1, <1>4
<1> QED
  BY <1>3, <1>4, <1>5

\* on_readable's parse loop, up to its cap.
LEMMA ParseKeeps ==
  ASSUME ReactorConstants, NEW W, NEW n, NEW h, NEW R, NEW m, Context(W, n, h, R, m),
         NEW q \in Good(W, n, h, R, m), NEW t \in 1..m, q.slab[t] # Reactor!Empty
  PROVE  Reactor!ParseFrames(q, t) \in Good(W, n, h, R, m)
<1> DEFINE G == Good(W, n, h, R, m)
           S == Parses(W, n, h, R, m)
           rbuf == q.slab[t].rbuf
           cap == IF Len(rbuf) < FramesPerWake
                    THEN Len(rbuf)
                    ELSE FramesPerWake
           a == [st |-> q, used |-> 0, stop |-> FALSE]
           Def(f) == f = [i \in 0..cap |-> IF i = 0
                                             THEN a
                                             ELSE Reactor!ParseStep(f[i - 1], rbuf[i], t)]
           Parse[i \in 0..cap] == IF i = 0
                                    THEN a
                                    ELSE Reactor!ParseStep(Parse[i - 1], rbuf[i], t)
<1>1. m \in Nat /\ q \in Shards /\ q.slab[t] \in Slot /\ rbuf \in Seq(Frames)
  BY Sits DEF Context, Slot
<1>2. cap \in Nat /\ \A k \in 1..cap : rbuf[k] \in Frames
  BY <1>1 DEF ReactorConstants
<1>3. a \in S
  BY DEF Parses
<1>4. Parse = CHOOSE f : Def(f)
  BY DEF Parse
<1>5. \A x \in S, k \in 1..cap : Reactor!ParseStep(x, rbuf[k], t) \in S
  <2> HIDE DEF cap, rbuf
  <2> QED
    BY <1>2, StepKeeps
<1> HIDE DEF a, rbuf, cap, S, G
<1>6. \E f : Def(f)
  <2> DEFINE F == [k \in 1..cap |-> [x \in S |-> Reactor!ParseStep(x, rbuf[k], t)]]
  <2>1. F \in [1..cap -> [S -> S]]
    BY <1>5
  <2>2. \A k \in 1..cap, x \in S : F[k][x] = Reactor!ParseStep(x, rbuf[k], t)
    OBVIOUS
  <2> HIDE DEF F
  <2>3. PICK f \in [0..cap -> S] : IsRun(f, cap, a, F)
    <3>1. cap \in Nat /\ a \in S
      BY <1>2, <1>3
    <3> QED
      BY <3>1, <2>1, Runs
  <2>4. ASSUME NEW i \in 0..cap PROVE f[i] = IF i = 0
                                               THEN a
                                               ELSE Reactor!ParseStep(f[i - 1], rbuf[i], t)
    <3>1. CASE i = 0
      BY <3>1, <2>3 DEF IsRun
    <3>2. CASE i # 0
      <4>1. PICK j \in 0..cap : j = i - 1 /\ i = j + 1 /\ i \in 1..cap
        BY <3>2, <1>2
      <4> QED
        BY <4>1, <3>2, <2>2, <2>3 DEF IsRun
    <3> QED
      BY <3>1, <3>2
  <2>5. f = [i \in 0..cap |-> IF i = 0
                                THEN a
                                ELSE Reactor!ParseStep(f[i - 1], rbuf[i], t)]
    BY <2>4
  <2> QED
    BY <2>5
<1>7. Def(Parse)
  <2> HIDE DEF Def, Parse
  <2> QED
    BY <1>4, <1>6
<1> HIDE DEF Parse
<1>8. \A i \in 0..cap : Parse[i] = IF i = 0
                                     THEN a
                                     ELSE Reactor!ParseStep(Parse[i - 1], rbuf[i], t)
  BY <1>7
<1>9. Parse[0] \in S /\ \A i \in 0..cap, k \in 1..cap : k = i + 1 /\ Parse[i] \in S
        => Parse[k] \in S
  <2>1. Parse[0] = a
    BY <1>2, <1>8
  <2>2. ASSUME NEW i \in 0..cap, NEW k \in 1..cap, k = i + 1, Parse[i] \in S PROVE Parse[k] \in S
    <3>1. k \in 0..cap /\ k # 0 /\ k - 1 = i
      BY <2>2, <1>2
    <3>2. Parse[k] = Reactor!ParseStep(Parse[i], rbuf[k], t)
      BY <3>1, <1>8
    <3> QED
      BY <3>2, <2>2, <1>5
  <2> QED
    BY <2>1, <2>2, <1>3
<1>10. Parse[cap] \in S
  <2> DEFINE T == [i \in 0..cap |-> S]
  <2>1. \A i \in 0..cap : T[i] = S
    OBVIOUS
  <2>2. 0 \in 0..cap /\ cap \in 0..cap /\ \A k \in 1..cap : k \in 0..cap
    BY <1>2
  <2> HIDE DEF T
  <2>3. Parse[0] \in T[0]
        /\ \A i \in 0..cap, k \in 1..cap : k = i + 1 /\ Parse[i] \in T[i] => Parse[k] \in T[k]
    BY <1>9, <2>1, <2>2
  <2>4. \A i \in 0..cap : Parse[i] \in T[i]
    BY <1>2, <2>3, Stays
  <2> QED
    BY <2>1, <2>2, <2>4
<1> DEFINE acc == Parse[cap]
           p == acc.st
           r == [p EXCEPT !.slab[t].rbuf = SubSeq(@, acc.used + 1, Len(@)),
                          !.parked = IF Len(rbuf) > acc.used
                                       THEN Append(@, t)
                                       ELSE @]
<1>11. Reactor!ParseFrames(q, t) = IF p.slab[t] = Reactor!Empty \/ acc.stop
                             THEN p
                             ELSE r
  BY DEF Reactor!ParseFrames, Parse, cap, rbuf, a
<1>12. p \in G /\ acc.used \in Nat
  BY <1>10 DEF S, G, Parses
<1> HIDE DEF acc
<1>13. ASSUME p.slab[t] # Reactor!Empty PROVE r \in G
  <2> DEFINE old == p.slab[t].rbuf
             x == [p.slab[t] EXCEPT !.rbuf = SubSeq(old, acc.used + 1, Len(old))]
             o == [p EXCEPT !.slab = [p.slab EXCEPT ![t] = x]]
             pk == IF Len(rbuf) > acc.used
                     THEN Append(p.parked, t)
                     ELSE p.parked
  <2>1. p \in Shards /\ p.slab[t] \in Slot /\ DOMAIN p.slab = 1..m
    BY <1>1, <1>12, <1>13, Sits DEF G
  <2>2. x \in Slot /\ x.id = p.slab[t].id
    <3>1. old \in Seq(Frames)
      BY <2>1 DEF Slot
    <3>2. SubSeq(old, acc.used + 1, Len(old)) \in Seq(Frames)
      <4> HIDE DEF old
      <4> QED
        BY <3>1, <1>12
    <3> QED
      BY <2>1, <3>2 DEF Slot
  <2>3. o \in G
    <3> HIDE DEF x
    <3> QED
      BY <1>1, <1>12, <1>13, <2>2, PutSlot DEF G
  <2>4. pk \in Seq(Tokens)
    <3>1. p.parked \in Seq(Tokens) /\ t \in Tokens
      BY <2>1, <1>1 DEF Shards, Tokens
    <3> QED
      BY <3>1
  <2>5. r = [o EXCEPT !.parked = pk]
    BY <2>1 DEF Shards
  <2> HIDE DEF o, pk
  <2>6. o \in Shards /\ r \in Shards /\ r.slab = o.slab /\ r.gens = o.gens /\ r.free = o.free
        /\ r.total = o.total /\ r.perIp = o.perIp /\ r.closed = o.closed
    BY <2>3, <2>4, <2>5 DEF G, Good, Shards
  <2> HIDE DEF r
  <2> QED
    BY <2>3, <2>6, SameSeats DEF G
<1> QED
  BY <1>11, <1>12, <1>13 DEF G

\* on_readable, with what the socket held.
LEMMA ReadableKeeps ==
  ASSUME ReactorConstants, NEW W, NEW n, NEW h, NEW R, NEW m, Context(W, n, h, R, m),
         NEW q \in Good(W, n, h, R, m), NEW t \in 1..m, q.slab[t] # Reactor!Empty,
         NEW fs \in Seq(Frames), NEW fin \in BOOLEAN
  PROVE  Reactor!HandleReadable(q, t, fs, fin) \in Good(W, n, h, R, m)
<1> DEFINE x == [q.slab[t] EXCEPT !.rbuf = q.slab[t].rbuf \o fs,
                   !.quiet = IF fs = <<>>
                               THEN q.slab[t].quiet
                               ELSE 0,
                   !.awaiting = IF fs = <<>>
                                  THEN q.slab[t].awaiting
                                  ELSE FALSE]
           fed == [q EXCEPT !.slab[t].rbuf = @ \o fs,
                            !.slab[t].quiet = IF fs = <<>>
                                                THEN @
                                                ELSE 0,
                            !.slab[t].awaiting = IF fs = <<>>
                                                   THEN @
                                                   ELSE FALSE]
           r == [q EXCEPT !.slab = [q.slab EXCEPT ![t] = x]]
<1>1. m \in Nat /\ q \in Shards /\ q.slab[t] \in Slot
  BY Sits DEF Context
<1>2. x \in Slot /\ x.id = q.slab[t].id
  <2>1. q.slab[t].rbuf \o fs \in Seq(Frames)
    BY <1>1 DEF Slot
  <2> QED
    BY <1>1, <2>1 DEF Slot
<1>3. r \in Good(W, n, h, R, m) /\ r.slab[t] = x
  <2> HIDE DEF x
  <2> QED
    BY <1>1, <1>2, PutSlot
<1>4. fed = r
  BY <1>1 DEF Shards
<1>5. x # Reactor!Empty
  BY <1>2, SlotNotEmpty
<1> DEFINE parsed == Reactor!ParseFrames(fed, t)
<1>6. Reactor!HandleReadable(q, t, fs, fin) = IF fin
                                        THEN Reactor!RemoveConn(parsed, t)
                                        ELSE parsed
  BY DEF Reactor!HandleReadable
<1> HIDE DEF fed, r, x
<1>7. parsed \in Good(W, n, h, R, m)
  BY <1>3, <1>4, <1>5, ParseKeeps
<1> HIDE DEF parsed
<1> QED
  BY <1>6, <1>7, RemoveKeeps

\* The sweep's ping.
LEMMA PingKeeps ==
  ASSUME ReactorConstants, NEW W, NEW n, NEW h, NEW R, NEW m, Context(W, n, h, R, m),
         NEW q \in Good(W, n, h, R, m), NEW t \in 1..m
  PROVE  Reactor!Ping(q, t) \in Good(W, n, h, R, m)
<1>1. CASE q.slab[t] = Reactor!Empty
  BY <1>1 DEF Reactor!Ping
<1>2. CASE q.slab[t] # Reactor!Empty
  <2> DEFINE x == [q.slab[t] EXCEPT !.awaiting = TRUE]
             r == [q EXCEPT !.slab = [q.slab EXCEPT ![t] = x]]
  <2>1. m \in Nat /\ q \in Shards /\ q.slab[t] \in Slot
    BY <1>2, Sits DEF Context
  <2>2. x \in Slot /\ x.id = q.slab[t].id
    BY <2>1 DEF Slot
  <2>3. r \in Good(W, n, h, R, m)
    <3> HIDE DEF x
    <3> QED
      BY <1>2, <2>1, <2>2, PutSlot
  <2>4. Reactor!Ping(q, t) = Reactor!Enqueue(r, t)
    BY <1>2 DEF Reactor!Ping
  <2> HIDE DEF r
  <2> QED
    BY <2>3, <2>4, EnqueueKeeps
<1> QED
  BY <1>1, <1>2

\* A sweep ages every slot.
LEMMA AgedKeeps ==
  ASSUME ReactorConstants, NEW W, NEW n, NEW h, NEW R, NEW m, Context(W, n, h, R, m),
         NEW q \in Good(W, n, h, R, m)
  PROVE  [q EXCEPT !.slab = [t \in DOMAIN @ |-> Reactor!Aged(@[t])]] \in Good(W, n, h, R, m)
<1> DEFINE sl == [t \in 1..m |-> Reactor!Aged(q.slab[t])]
           r == [q EXCEPT !.slab = sl]
<1>1. m \in Nat /\ q \in Shards /\ DOMAIN q.slab = 1..m
        /\ q.slab \in Seq(Slot \cup {Reactor!Empty})
  BY DEF Good, Shards, Context
<1>2. [q EXCEPT !.slab = [t \in DOMAIN @ |-> Reactor!Aged(@[t])]] = r
  BY <1>1
<1>3. ASSUME NEW x \in Slot PROVE Reactor!Aged(x) \in Slot /\ Reactor!Aged(x).id = x.id
  <2>1. x # Reactor!Empty /\ x.left \in Nat /\ x.quiet \in Nat /\ IdleAfter \in Nat
    BY SlotNotEmpty DEF Slot, ReactorConstants
  <2> DEFINE y == IF x.left > 0 THEN x.left - 1 ELSE 0
             z == IF x.quiet < IdleAfter
                    THEN x.quiet + 1
                    ELSE x.quiet
  <2>2. y \in Nat /\ z \in Nat
    BY <2>1
  <2>3. Reactor!Aged(x) = IF x.closing
                    THEN [x EXCEPT !.left = y]
                    ELSE [x EXCEPT !.quiet = z]
    BY <2>1 DEF Reactor!Aged
  <2> HIDE DEF y, z
  <2> QED
    BY <2>2, <2>3 DEF Slot
<1>4. \A t \in 1..m : q.slab[t] \in Slot \cup {Reactor!Empty}
  BY <1>1
<1>5. \A t \in 1..m : /\ q.slab[t] = Reactor!Empty => sl[t] = Reactor!Empty
                      /\ q.slab[t] # Reactor!Empty => sl[t] # Reactor!Empty
                           /\ sl[t].id = q.slab[t].id
                      /\ sl[t] \in Slot \cup {Reactor!Empty}
  BY <1>3, <1>4, SlotNotEmpty DEF Reactor!Aged
<1>6. sl \in Seq(Slot \cup {Reactor!Empty}) /\ DOMAIN sl = 1..m
  <2>1. sl \in [1..m -> Slot \cup {Reactor!Empty}]
    BY <1>5
  <2> HIDE DEF sl
  <2> QED
    BY <1>1, <2>1
<1> HIDE DEF sl
<1>7. r \in Shards /\ r.slab = sl /\ r.gens = q.gens /\ r.free = q.free /\ r.total = q.total
      /\ r.perIp = q.perIp /\ r.closed = q.closed
  BY <1>1, <1>6 DEF Shards
<1> HIDE DEF r
<1>8. r \in Good(W, n, h, R, m)
  BY <1>1, <1>5, <1>6, <1>7, SameSeats
<1> QED
  BY <1>2, <1>8

\* tick: who has expired is removed, who is idle pinged, in the slab's order.
LEMMA SweptKeeps ==
  ASSUME ReactorConstants, NEW W, NEW n, NEW h, NEW R, NEW m, Context(W, n, h, R, m),
         NEW q \in Good(W, n, h, R, m)
  PROVE  Reactor!Swept(q) \in Good(W, n, h, R, m)
<1> DEFINE G == Good(W, n, h, R, m)
           l == Len(q.slab)
           Gone[t \in 0..l] ==
             IF t = 0 THEN q
             ELSE IF q.slab[t] # Reactor!Empty /\ Reactor!Expired(t)
                    THEN Reactor!RemoveConn(Gone[t - 1], t)
             ELSE Gone[t - 1]
           DefGone(f) == f = [t \in 0..l |->
             IF t = 0 THEN q
             ELSE IF q.slab[t] # Reactor!Empty /\ Reactor!Expired(t)
                    THEN Reactor!RemoveConn(f[t - 1], t)
             ELSE f[t - 1]]
           dropped == Gone[l]
           Pinged[t \in 0..l] ==
             IF t = 0 THEN dropped
             ELSE IF q.slab[t] # Reactor!Empty /\ Reactor!PingDue(t)
                    THEN Reactor!Ping(Pinged[t - 1], t)
             ELSE Pinged[t - 1]
           DefPinged(f) == f = [t \in 0..l |->
             IF t = 0 THEN dropped
             ELSE IF q.slab[t] # Reactor!Empty /\ Reactor!PingDue(t)
                    THEN Reactor!Ping(f[t - 1], t)
             ELSE f[t - 1]]
<1>1. l \in Nat /\ l = m /\ q \in G
  BY DEF Good, Context
<1>2. \A x \in G, k \in 1..l : Reactor!RemoveConn(x, k) \in G /\ Reactor!Ping(x, k) \in G
  BY <1>1, RemoveKeeps, PingKeeps
<1>3. Reactor!Swept(q) = [Pinged[l] EXCEPT !.slab = [t \in DOMAIN @ |-> Reactor!Aged(@[t])]]
  BY DEF Reactor!Swept, Pinged, dropped, Gone, l
<1> HIDE DEF G, l
<1>4. \E f : DefGone(f)
  <2> DEFINE F == [k \in 1..l |-> [x \in G |-> IF q.slab[k] # Reactor!Empty /\ Reactor!Expired(k)
                                                 THEN Reactor!RemoveConn(x, k)
                                                 ELSE x]]
  <2>1. F \in [1..l -> [G -> G]]
    BY <1>2
  <2>2. \A k \in 1..l, x \in G : F[k][x] = IF q.slab[k] # Reactor!Empty /\ Reactor!Expired(k)
                                             THEN Reactor!RemoveConn(x, k)
                                             ELSE x
    OBVIOUS
  <2> HIDE DEF F
  <2>3. PICK f \in [0..l -> G] : IsRun(f, l, q, F)
    <3>1. l \in Nat /\ q \in G
      BY <1>1
    <3> QED
      BY <3>1, <2>1, Runs
  <2>4. ASSUME NEW t \in 0..l
        PROVE  f[t] = IF t = 0 THEN q
                      ELSE IF q.slab[t] # Reactor!Empty /\ Reactor!Expired(t)
                             THEN Reactor!RemoveConn(f[t - 1], t)
                             ELSE f[t - 1]
    <3>1. CASE t = 0
      BY <3>1, <2>3 DEF IsRun
    <3>2. CASE t # 0
      <4>1. PICK j \in 0..l : j = t - 1 /\ t = j + 1 /\ t \in 1..l
        BY <3>2, <1>1
      <4> QED
        BY <4>1, <3>2, <2>2, <2>3 DEF IsRun
    <3> QED
      BY <3>1, <3>2
  <2>5. f = [t \in 0..l |-> IF t = 0 THEN q
                            ELSE IF q.slab[t] # Reactor!Empty /\ Reactor!Expired(t)
                                   THEN Reactor!RemoveConn(f[t - 1], t)
                                   ELSE f[t - 1]]
    BY <2>4
  <2> QED
    BY <2>5
<1>5. DefGone(Gone)
  <2>1. Gone = CHOOSE f : DefGone(f)
    BY DEF Gone
  <2> HIDE DEF DefGone, Gone
  <2> QED
    BY <1>4, <2>1
<1> HIDE DEF Gone
<1>6. \A t \in 0..l : Gone[t] = IF t = 0 THEN q
                                ELSE IF q.slab[t] # Reactor!Empty /\ Reactor!Expired(t)
                                       THEN Reactor!RemoveConn(Gone[t - 1], t)
                                       ELSE Gone[t - 1]
  BY <1>5
<1>7. Gone[0] = q /\ \A i \in 0..l, k \in 1..l : k = i + 1 =>
         Gone[k] = IF q.slab[k] # Reactor!Empty /\ Reactor!Expired(k)
                     THEN Reactor!RemoveConn(Gone[i], k)
                     ELSE Gone[i]
  <2>1. Gone[0] = q
    BY <1>1, <1>6
  <2>2. ASSUME NEW i \in 0..l, NEW k \in 1..l, k = i + 1
        PROVE  Gone[k] = IF q.slab[k] # Reactor!Empty /\ Reactor!Expired(k)
                           THEN Reactor!RemoveConn(Gone[i], k)
                           ELSE Gone[i]
    <3>1. k \in 0..l /\ k # 0 /\ k - 1 = i
      BY <2>2, <1>1
    <3> QED
      BY <3>1, <1>6
  <2> QED
    BY <2>1, <2>2
<1>8. Gone[l] \in G
  <2> DEFINE T == [i \in 0..l |-> G]
  <2>1. \A i \in 0..l : T[i] = G
    OBVIOUS
  <2>2. 0 \in 0..l /\ l \in 0..l /\ \A k \in 1..l : k \in 0..l
    BY <1>1
  <2> HIDE DEF T
  <2>3. Gone[0] \in T[0]
    BY <2>1, <2>2, <1>7, <1>1
  <2>4. \A i \in 0..l, k \in 1..l : k = i + 1 /\ Gone[i] \in T[i] => Gone[k] \in T[k]
    <3> SUFFICES ASSUME NEW i \in 0..l, NEW k \in 1..l, k = i + 1, Gone[i] \in G
                 PROVE  Gone[k] \in G
      BY <2>1, <2>2
    <3>1. Gone[k] = IF q.slab[k] # Reactor!Empty /\ Reactor!Expired(k)
                      THEN Reactor!RemoveConn(Gone[i], k)
                      ELSE Gone[i]
      BY <1>7
    <3> QED
      BY <3>1, <1>2
  <2>5. \A i \in 0..l : Gone[i] \in T[i]
    BY <1>1, <2>3, <2>4, Stays
  <2> QED
    BY <2>1, <2>2, <2>5
<1>9. dropped \in G
  BY <1>8
<1> HIDE DEF dropped
<1>10. \E f : DefPinged(f)
  <2> DEFINE F == [k \in 1..l |-> [x \in G |-> IF q.slab[k] # Reactor!Empty /\ Reactor!PingDue(k)
                                                 THEN Reactor!Ping(x, k)
                                                 ELSE x]]
  <2>1. F \in [1..l -> [G -> G]]
    BY <1>2
  <2>2. \A k \in 1..l, x \in G : F[k][x] = IF q.slab[k] # Reactor!Empty /\ Reactor!PingDue(k)
                                             THEN Reactor!Ping(x, k)
                                             ELSE x
    OBVIOUS
  <2> HIDE DEF F
  <2>3. PICK f \in [0..l -> G] : IsRun(f, l, dropped, F)
    <3>1. l \in Nat /\ dropped \in G
      BY <1>1, <1>9
    <3> QED
      BY <3>1, <2>1, Runs
  <2>4. ASSUME NEW t \in 0..l
        PROVE  f[t] = IF t = 0 THEN dropped
                      ELSE IF q.slab[t] # Reactor!Empty /\ Reactor!PingDue(t)
                             THEN Reactor!Ping(f[t - 1], t)
                             ELSE f[t - 1]
    <3>1. CASE t = 0
      BY <3>1, <2>3 DEF IsRun
    <3>2. CASE t # 0
      <4>1. PICK j \in 0..l : j = t - 1 /\ t = j + 1 /\ t \in 1..l
        BY <3>2, <1>1, <1>9
      <4> QED
        BY <4>1, <3>2, <2>2, <2>3 DEF IsRun
    <3> QED
      BY <3>1, <3>2
  <2>5. f = [t \in 0..l |-> IF t = 0 THEN dropped
                            ELSE IF q.slab[t] # Reactor!Empty /\ Reactor!PingDue(t)
                                   THEN Reactor!Ping(f[t - 1], t)
                                   ELSE f[t - 1]]
    BY <2>4
  <2> QED
    BY <2>5
<1>11. DefPinged(Pinged)
  <2>1. Pinged = CHOOSE f : DefPinged(f)
    BY DEF Pinged
  <2> HIDE DEF DefPinged, Pinged
  <2> QED
    BY <1>10, <2>1
<1> HIDE DEF Pinged
<1>12. \A t \in 0..l : Pinged[t] = IF t = 0 THEN dropped
                                   ELSE IF q.slab[t] # Reactor!Empty /\ Reactor!PingDue(t)
                                          THEN Reactor!Ping(Pinged[t - 1], t)
                                          ELSE Pinged[t - 1]
  BY <1>11
<1>13. Pinged[0] = dropped /\ \A i \in 0..l, k \in 1..l : k = i + 1 =>
         Pinged[k] = IF q.slab[k] # Reactor!Empty /\ Reactor!PingDue(k)
                       THEN Reactor!Ping(Pinged[i], k)
                       ELSE Pinged[i]
  <2>1. Pinged[0] = dropped
    BY <1>1, <1>9, <1>12
  <2>2. ASSUME NEW i \in 0..l, NEW k \in 1..l, k = i + 1
        PROVE  Pinged[k] = IF q.slab[k] # Reactor!Empty /\ Reactor!PingDue(k)
                             THEN Reactor!Ping(Pinged[i], k)
                             ELSE Pinged[i]
    <3>1. k \in 0..l /\ k # 0 /\ k - 1 = i
      BY <2>2, <1>1, <1>9
    <3> QED
      BY <3>1, <1>12
  <2> QED
    BY <2>1, <2>2
<1>14. Pinged[l] \in G
  <2> DEFINE T == [i \in 0..l |-> G]
  <2>1. \A i \in 0..l : T[i] = G
    OBVIOUS
  <2>2. 0 \in 0..l /\ l \in 0..l /\ \A k \in 1..l : k \in 0..l
    BY <1>1
  <2> HIDE DEF T
  <2>3. Pinged[0] \in T[0]
    BY <2>1, <2>2, <1>13, <1>9
  <2>4. \A i \in 0..l, k \in 1..l : k = i + 1 /\ Pinged[i] \in T[i] => Pinged[k] \in T[k]
    <3> SUFFICES ASSUME NEW i \in 0..l, NEW k \in 1..l, k = i + 1, Pinged[i] \in G
                 PROVE  Pinged[k] \in G
      BY <2>1, <2>2
    <3>1. Pinged[k] = IF q.slab[k] # Reactor!Empty /\ Reactor!PingDue(k)
                        THEN Reactor!Ping(Pinged[i], k)
                        ELSE Pinged[i]
      BY <1>13
    <3> QED
      BY <3>1, <1>2
  <2>5. \A i \in 0..l : Pinged[i] \in T[i]
    BY <1>1, <2>3, <2>4, Stays
  <2> QED
    BY <2>1, <2>2, <2>5
<1> QED
  BY <1>3, <1>14, AgedKeeps DEF G

\* reclaim_slab: only free slots go, with their generations and their places in
\* the free list.
LEMMA ReclaimKeeps ==
  ASSUME ReactorConstants, NEW W, NEW n, NEW h, NEW R, NEW m, Context(W, n, h, R, m),
         NEW q \in Good(W, n, h, R, m)
  PROVE  LET r == Reactor!ReclaimSlab(q)
         IN  Len(r.slab) \in 0..m /\ r \in Good(W, n, h, R \/ Len(r.slab) < m, Len(r.slab))
<1> DEFINE Tail0(k) == /\ k > 0 => q.slab[k] # Reactor!Empty
                       /\ \A t \in DOMAIN q.slab : t > k => q.slab[t] = Reactor!Empty
           len == CHOOSE k \in 0..Len(q.slab) : Tail0(k)
           l == Len(q.free)
           S == Seq(Tokens)
           Retained[i \in 0..l] ==
             IF i = 0 THEN <<>>
             ELSE IF q.free[i] <= len
                    THEN Append(Retained[i - 1], q.free[i])
             ELSE Retained[i - 1]
           DefRetained(f) == f = [i \in 0..l |->
             IF i = 0 THEN <<>>
             ELSE IF q.free[i] <= len
                    THEN Append(f[i - 1], q.free[i])
             ELSE f[i - 1]]
           fr == Retained[l]
           r == [q EXCEPT !.slab = SubSeq(q.slab, 1, len), !.gens = SubSeq(q.gens, 1, len),
                          !.free = fr]
<1>1. /\ m \in Nat /\ q \in Shards /\ SlabOk(q) /\ BooksOk(q, W, n) /\ OwnersOk(q, h, R)
      /\ Len(q.slab) = m /\ DOMAIN q.slab = 1..m /\ Len(q.gens) = m /\ DOMAIN q.gens = 1..m
  BY DEF Good, Context, SlabOk, Shards
<1>2. l \in Nat /\ <<>> \in S /\ q.free \in Seq(Tokens) /\ DOMAIN q.free = 1..l
      /\ \A k \in 1..l : q.free[k] \in Tokens
  <2>1. q.free \in Seq(Tokens)
    BY <1>1 DEF Shards
  <2> QED
    BY <2>1
<1>3. len \in 0..m /\ Tail0(len)
  <2> DEFINE Ends == {k \in 0..m : \A t \in 1..m : t > k => q.slab[t] = Reactor!Empty}
  <2>1. m \in Ends /\ Ends \subseteq Nat
    BY <1>1
  <2>2. PICK k \in Ends : \A j \in Ends : ~(<<j, k>> \in OpToRel(<, Nat))
    <3> HIDE DEF Ends
    <3> QED
      BY <2>1, NatLessThanWellFounded, WFMin
  <2>3. \A j \in Ends : ~(j < k)
    BY <2>1, <2>2 DEF OpToRel
  <2>4. k > 0 => q.slab[k] # Reactor!Empty
    <3> SUFFICES ASSUME k > 0, q.slab[k] = Reactor!Empty PROVE FALSE
      OBVIOUS
    <3>1. k - 1 \in 0..m /\ k - 1 < k /\ \A t \in 1..m : t > k - 1 => t = k \/ t > k
      BY <1>1
    <3>2. \A t \in 1..m : t > k => q.slab[t] = Reactor!Empty
      OBVIOUS
    <3>3. k - 1 \in Ends
      BY <3>1, <3>2
    <3> QED
      BY <3>1, <3>3, <2>3
  <2>5. k \in 0..Len(q.slab) /\ Tail0(k)
    BY <1>1, <2>4
  <2> HIDE DEF Tail0
  <2> QED
    BY <2>5, <1>1
<1>4. \A x \in S, k \in 1..l : Append(x, q.free[k]) \in S
  BY <1>2
<1>a. Reactor!ReclaimSlab(q) = r
  BY DEF Reactor!ReclaimSlab, r, fr, Retained, len, l
<1> HIDE DEF len, l, Tail0
<1>5. \E f : DefRetained(f)
  <2> DEFINE F == [k \in 1..l |-> [x \in S |-> IF q.free[k] <= len
                                                 THEN Append(x, q.free[k])
                                                 ELSE x]]
  <2>1. F \in [1..l -> [S -> S]]
    BY <1>4
  <2>2. \A k \in 1..l, x \in S : F[k][x] = IF q.free[k] <= len
                                             THEN Append(x, q.free[k])
                                             ELSE x
    OBVIOUS
  <2> HIDE DEF F
  <2>3. PICK f \in [0..l -> S] : IsRun(f, l, <<>>, F)
    <3>1. l \in Nat /\ <<>> \in S
      BY <1>2
    <3> QED
      BY <3>1, <2>1, Runs
  <2>4. ASSUME NEW i \in 0..l
        PROVE  f[i] = IF i = 0 THEN <<>>
                      ELSE IF q.free[i] <= len
                             THEN Append(f[i - 1], q.free[i])
                             ELSE f[i - 1]
    <3>1. CASE i = 0
      BY <3>1, <2>3 DEF IsRun
    <3>2. CASE i # 0
      <4>1. PICK j \in 0..l : j = i - 1 /\ i = j + 1 /\ i \in 1..l
        BY <3>2, <1>2
      <4> QED
        <5>1. f[i] = F[i][f[j]] /\ f[j] \in S
          BY <4>1, <2>3 DEF IsRun
        <5>2. F[i][f[j]] = IF q.free[i] <= len
                             THEN Append(f[j], q.free[i])
                             ELSE f[j]
          BY <4>1, <5>1, <2>2
        <5> QED
          BY <5>1, <5>2, <4>1, <3>2
    <3> QED
      BY <3>1, <3>2
  <2>5. f = [i \in 0..l |-> IF i = 0 THEN <<>>
                            ELSE IF q.free[i] <= len
                                   THEN Append(f[i - 1], q.free[i])
                                   ELSE f[i - 1]]
    BY <2>4
  <2> QED
    BY <2>5
<1>6. DefRetained(Retained)
  <2>1. Retained = CHOOSE f : DefRetained(f)
    BY DEF Retained
  <2> HIDE DEF DefRetained, Retained
  <2> QED
    BY <1>5, <2>1
<1> HIDE DEF Retained
<1>7. \A i \in 0..l : Retained[i] = IF i = 0 THEN <<>>
                                    ELSE IF q.free[i] <= len
                                           THEN Append(Retained[i - 1], q.free[i])
                                           ELSE Retained[i - 1]
  BY <1>6
<1>8. Retained[0] = <<>> /\ \A i \in 0..l, k \in 1..l : k = i + 1 =>
         Retained[k] = IF q.free[k] <= len
                         THEN Append(Retained[i], q.free[k])
                         ELSE Retained[i]
  <2>1. Retained[0] = <<>>
    BY <1>2, <1>7
  <2>2. ASSUME NEW i \in 0..l, NEW k \in 1..l, k = i + 1
        PROVE  Retained[k] = IF q.free[k] <= len
                               THEN Append(Retained[i], q.free[k])
                               ELSE Retained[i]
    <3>1. k \in 0..l /\ k # 0 /\ k - 1 = i
      BY <2>2, <1>2
    <3> QED
      BY <3>1, <1>7
  <2> QED
    BY <2>1, <2>2
\* The free slots among the first k of the list that stay, each once.
<1> DEFINE Keeps(k) == {x \in S :
      /\ \A i, j \in DOMAIN x : x[i] = x[j] => i = j
      /\ \A i \in DOMAIN x : x[i] <= len /\ \E j \in 1..k : x[i] = q.free[j]
      /\ \A j \in 1..k : q.free[j] <= len => \E i \in DOMAIN x : x[i] = q.free[j]}
<1>9. fr \in Keeps(l)
  <2> DEFINE T == [i \in 0..l |-> Keeps(i)]
  <2>1. \A i \in 0..l : T[i] = Keeps(i)
    OBVIOUS
  <2> HIDE DEF T
  <2>2. 0 \in 0..l /\ l \in 0..l /\ \A k \in 1..l : k \in 0..l
    BY <1>2
  <2>3. Retained[0] \in T[0]
    <3>1. Retained[0] = <<>> /\ 1..0 = {} /\ DOMAIN <<>> = {}
      BY <1>8
    <3>2. <<>> \in Keeps(0)
      BY <3>1, <1>2
    <3> HIDE DEF Keeps
    <3> QED
      BY <3>1, <3>2, <2>1, <2>2
  <2>4. ASSUME NEW i \in 0..l, NEW k \in 1..l, k = i + 1, Retained[i] \in T[i]
        PROVE  Retained[k] \in T[k]
    <3> DEFINE x == Retained[i]
               y == Retained[k]
    <3>1. x \in Keeps(i) /\ y = IF q.free[k] <= len
                                  THEN Append(x, q.free[k])
                                  ELSE x
      BY <2>1, <2>4, <1>8
    <3>2. \A j \in 1..i : j \in 1..k /\ j \in 1..l /\ j # k
      BY <2>4, <1>2
    <3>3. \A j \in 1..k : j \in 1..i \/ j = k
      BY <2>4, <1>2
    <3>4. \A j \in 1..i : q.free[j] # q.free[k]
      BY <3>2, <1>1, <1>2 DEF SlabOk
    <3>5. k \in 1..k
      BY <1>2
    <3> HIDE DEF x, y
    <3>6. CASE q.free[k] <= len
      <4> DEFINE c == Len(x)
      <4>1. /\ y \in S /\ DOMAIN y = 1..(c + 1) /\ y[c + 1] = q.free[k] /\ DOMAIN x = 1..c
            /\ c \in Nat /\ \A a \in 1..c : y[a] = x[a]
        BY <3>1, <3>6, <1>2
      <4>2. (\A a \in 1..(c + 1) : a \in 1..c \/ a = c + 1) /\ c + 1 \in 1..(c + 1)
            /\ \A a \in 1..c : a \in 1..(c + 1)
        BY <4>1
      <4> HIDE DEF c
      <4>3. \A a \in 1..c : x[a] <= len /\ \E j \in 1..i : x[a] = q.free[j]
        BY <3>1, <4>1
      <4>4. \A a \in 1..c : x[a] # q.free[k]
        BY <4>3, <3>4
      <4>5. \A a, b \in 1..c : x[a] = x[b] => a = b
        BY <3>1, <4>1
      <4>6. \A a, b \in DOMAIN y : y[a] = y[b] => a = b
        BY <4>1, <4>2, <4>4, <4>5
      <4>7. \A a \in DOMAIN y : y[a] <= len /\ \E j \in 1..k : y[a] = q.free[j]
        BY <4>1, <4>2, <4>3, <3>2, <3>5, <3>6
      <4>8. \A j \in 1..k : q.free[j] <= len => \E a \in DOMAIN y : y[a] = q.free[j]
        <5> SUFFICES ASSUME NEW j \in 1..k, q.free[j] <= len
                     PROVE  \E a \in DOMAIN y : y[a] = q.free[j]
          OBVIOUS
        <5>1. CASE j = k
          BY <5>1, <4>1, <4>2
        <5>2. CASE j # k
          <6>1. PICK a \in 1..c : x[a] = q.free[j]
            BY <5>2, <3>1, <3>3, <4>1
          <6> QED
            BY <6>1, <4>1, <4>2
        <5> QED
          BY <5>1, <5>2
      <4>9. y \in Keeps(k)
        BY <4>1, <4>6, <4>7, <4>8
      <4> QED
        BY <4>9, <2>1, <2>2 DEF y
    <3>7. CASE ~(q.free[k] <= len)
      <4>1. y = x
        BY <3>1, <3>7
      <4>2. y \in Keeps(k)
        BY <4>1, <3>1, <3>2, <3>3, <3>7
      <4> QED
        BY <4>2, <2>1, <2>2 DEF y
    <3> QED
      BY <3>6, <3>7
  <2> HIDE DEF Keeps
  <2>5. \A i \in 0..l : Retained[i] \in T[i]
    BY <1>2, <2>3, <2>4, Stays
  <2> QED
    BY <2>1, <2>2, <2>5
<1> HIDE DEF fr
<1>10. /\ SubSeq(q.slab, 1, len) \in Seq(Slot \cup {Reactor!Empty})
            /\ SubSeq(q.gens, 1, len) \in Seq(Nat)
       /\ Len(SubSeq(q.slab, 1, len)) = len /\ Len(SubSeq(q.gens, 1, len)) = len
       /\ \A t \in 1..len : SubSeq(q.slab, 1, len)[t] = q.slab[t]
                            /\ SubSeq(q.gens, 1, len)[t] = q.gens[t]
  <2>1. q.slab \in Seq(Slot \cup {Reactor!Empty}) /\ q.gens \in Seq(Nat)
    BY <1>1 DEF Shards
  <2> QED
    BY <2>1, <1>1, <1>3
<1>11. /\ r \in Shards /\ r.slab = SubSeq(q.slab, 1, len) /\ r.gens = SubSeq(q.gens, 1, len)
       /\ r.free = fr /\ r.total = q.total /\ r.perIp = q.perIp /\ r.closed = q.closed
  BY <1>1, <1>9, <1>10 DEF Shards
<1> HIDE DEF r
<1>12. /\ DOMAIN r.slab = 1..len /\ DOMAIN r.gens = 1..len /\ Len(r.slab) = len
            /\ Len(r.gens) = len
       /\ \A t \in 1..len : t \in 1..m /\ r.slab[t] = q.slab[t] /\ r.gens[t] = q.gens[t]
       /\ \A t \in 1..m : q.slab[t] # Reactor!Empty => t \in 1..len
  <2>1. \A t \in 1..m : t > len => q.slab[t] = Reactor!Empty
    BY <1>1, <1>3 DEF Tail0
  <2>2. \A t \in 1..m : t > len \/ t \in 1..len
    BY <1>1, <1>3
  <2>3. \A t \in 1..len : t \in 1..m
    BY <1>1, <1>3
  <2>4. r.slab \in Seq(Slot \cup {Reactor!Empty}) /\ r.gens \in Seq(Nat)
    BY <1>11 DEF Shards
  <2>5. Len(r.slab) = len /\ Len(r.gens) = len
    BY <1>10, <1>11
  <2>6. DOMAIN r.slab = 1..len /\ DOMAIN r.gens = 1..len
    BY <2>4, <2>5
  <2>7. \A t \in 1..len : r.slab[t] = q.slab[t] /\ r.gens[t] = q.gens[t]
    BY <1>10, <1>11
  <2> QED
    BY <2>1, <2>2, <2>3, <2>5, <2>6, <2>7
<1>13. Seated(r) = Seated(q)
  BY <1>1, <1>12 DEF Seated
<1>14. SlabOk(r)
  <2>1. \A i, j \in DOMAIN r.free : r.free[i] = r.free[j] => i = j
    BY <1>9, <1>11
  <2>2. \A i \in DOMAIN r.free : r.free[i] \in DOMAIN r.slab /\ r.slab[r.free[i]] = Reactor!Empty
    <3> SUFFICES ASSUME NEW i \in DOMAIN r.free
                 PROVE  r.free[i] \in 1..len /\ r.slab[r.free[i]] = Reactor!Empty
      BY <1>12
    <3>1. PICK j \in 1..l : r.free[i] = q.free[j] /\ r.free[i] <= len
      BY <1>9, <1>11
    <3>2. q.free[j] \in 1..m /\ q.slab[q.free[j]] = Reactor!Empty
      BY <1>1, <1>2 DEF SlabOk
    <3>3. r.free[i] \in 1..len
      BY <3>1, <3>2, <1>3
    <3> QED
      BY <3>1, <3>2, <3>3, <1>12
  <2>3. \A t \in DOMAIN r.slab : r.slab[t] = Reactor!Empty
          => \E i \in DOMAIN r.free : r.free[i] = t
    <3> SUFFICES ASSUME NEW t \in 1..len, r.slab[t] = Reactor!Empty
                 PROVE  \E i \in DOMAIN r.free : r.free[i] = t
      BY <1>12
    <3>1. PICK j \in 1..l : q.free[j] = t
      BY <1>1, <1>2, <1>12 DEF SlabOk
    <3>2. t <= len
      BY <1>3
    <3> QED
      BY <3>1, <3>2, <1>9, <1>11
  <2>4. \A t, u \in DOMAIN r.slab :
          r.slab[t] # Reactor!Empty /\ r.slab[u] # Reactor!Empty
            /\ r.slab[t].id = r.slab[u].id => t = u
    BY <1>1, <1>12 DEF SlabOk
  <2> QED
    BY <2>1, <2>2, <2>3, <2>4, <1>12 DEF SlabOk
<1>15. BooksOk(r, W, n)
  BY <1>1, <1>11, <1>13 DEF BooksOk
<1>16. OwnersOk(r, h, R \/ len < m)
  <2>1. \A c \in Conns : r.closed[c] = IF h[c][1] # 0 /\ c \notin Seated(r)
                                         THEN 1
                                         ELSE 0
    BY <1>1, <1>11, <1>13 DEF OwnersOk
  <2>2. \A t \in DOMAIN r.slab : r.slab[t] # Reactor!Empty => h[r.slab[t].id] = <<t, r.gens[t]>>
    BY <1>1, <1>12 DEF OwnersOk
  <2>3. ASSUME ~(R \/ len < m), NEW c \in Conns, h[c][1] # 0
        PROVE  h[c][1] \in DOMAIN r.slab /\ (c \in Seated(r) \/ h[c][2] < r.gens[h[c][1]])
    <3>1. len = m
      BY <2>3, <1>1, <1>3
    <3>2. h[c][1] \in 1..m /\ (c \in Seated(q) \/ h[c][2] < q.gens[h[c][1]])
      BY <2>3, <1>1 DEF OwnersOk
    <3> QED
      BY <3>1, <3>2, <1>12, <1>13
  <2> QED
    BY <2>1, <2>2, <2>3 DEF OwnersOk
<1>17. r \in Good(W, n, h, R \/ len < m, len)
  BY <1>11, <1>12, <1>14, <1>15, <1>16 DEF Good
<1> QED
  BY <1>a, <1>17, <1>12, <1>3

\* Those who sit in slots are connections.
LEMMA SeatedAreConns ==
  ASSUME NEW q \in Shards PROVE Seated(q) \subseteq Conns
<1>1. \A u \in DOMAIN q.slab : q.slab[u] \in Slot \cup {Reactor!Empty}
  BY DEF Shards
<1> QED
  BY <1>1 DEF Seated, Slot

\* The free list, seen as ending with the slot that is taken.
Taken(slot, W, n, h, R) ==
  \E k \in Nat : \E g \in Good(W, n, h, R, k) :
    /\ Len(g.free) # 0 /\ slot.token = g.free[Len(g.free)]
    /\ slot.st = [g EXCEPT !.free = SubSeq(g.free, 1, Len(g.free) - 1)]
    /\ Append(SubSeq(g.free, 1, Len(g.free) - 1), g.free[Len(g.free)]) = g.free

\* The slot that adopt takes: the end of the free list, or a new one.
LEMMA SlotTaken ==
  ASSUME ReactorConstants, NEW W, NEW n, NEW h, NEW R, NEW m, Context(W, n, h, R, m),
         NEW q \in Good(W, n, h, R, m)
  PROVE  Taken(Reactor!TakeSlot(q), W, n, h, R)
<1> USE DEF Taken
<1>1. /\ m \in Nat /\ q \in Shards /\ SlabOk(q) /\ BooksOk(q, W, n) /\ OwnersOk(q, h, R)
      /\ Len(q.slab) = m /\ DOMAIN q.slab = 1..m /\ Len(q.gens) = m /\ DOMAIN q.gens = 1..m
      /\ q.free \in Seq(Tokens) /\ q.slab \in Seq(Slot \cup {Reactor!Empty})
           /\ q.gens \in Seq(Nat)
  BY DEF Good, Context, SlabOk, Shards
<1>2. CASE q.free # <<>>
  <2>1. Len(q.free) # 0
        /\ Append(SubSeq(q.free, 1, Len(q.free) - 1), q.free[Len(q.free)]) = q.free
    BY <1>1, <1>2
  <2>2. Reactor!TakeSlot(q).token = q.free[Len(q.free)]
        /\ Reactor!TakeSlot(q).st = [q EXCEPT !.free = SubSeq(q.free, 1, Len(q.free) - 1)]
    BY <1>2 DEF Reactor!TakeSlot, Reactor!Last, Reactor!Front
  <2> QED
    BY <2>1, <2>2, <1>1
<1>3. CASE q.free = <<>>
  <2> DEFINE sl == Append(q.slab, Reactor!Empty)
             gn == Append(q.gens, 0)
             k == m + 1
             g == [q EXCEPT !.slab = sl, !.gens = gn, !.free = <<k>>]
  <2>1. /\ sl \in Seq(Slot \cup {Reactor!Empty}) /\ Len(sl) = k /\ DOMAIN sl = 1..k
             /\ sl[k] = Reactor!Empty
        /\ gn \in Seq(Nat) /\ Len(gn) = k /\ DOMAIN gn = 1..k /\ gn[k] = 0
        /\ \A t \in 1..m : sl[t] = q.slab[t] /\ gn[t] = q.gens[t]
    BY <1>1
  <2>2. k \in Nat /\ k \in Tokens /\ (\A t \in 1..k : t \in 1..m \/ t = k)
        /\ (\A t \in 1..m : t \in 1..k /\ t # k) /\ k \in 1..k
    BY <1>1 DEF Tokens
  <2> HIDE DEF sl, gn, k
  <2>3. <<k>> \in Seq(Tokens) /\ Len(<<k>>) = 1 /\ DOMAIN <<k>> = {1} /\ <<k>>[1] = k
        /\ SubSeq(<<k>>, 1, 0) = <<>> /\ Append(<<>>, k) = <<k>>
    BY <2>2
  <2>4. g \in Shards /\ g.slab = sl /\ g.gens = gn /\ g.free = <<k>> /\ g.total = q.total
        /\ g.perIp = q.perIp /\ g.closed = q.closed
    BY <1>1, <2>1, <2>3 DEF Shards
  <2>5. [g EXCEPT !.free = SubSeq(g.free, 1, Len(g.free) - 1)] = [q EXCEPT !.slab = sl,
          !.gens = gn]
    <3>1. SubSeq(g.free, 1, Len(g.free) - 1) = q.free
      BY <2>3, <2>4, <1>3
    <3> QED
      BY <3>1, <1>1 DEF Shards
  <2> HIDE DEF g
  <2>6. \A t \in 1..m : q.slab[t] # Reactor!Empty
    BY <1>1, <1>3 DEF SlabOk
  <2>a. \A t \in 1..k : g.slab[t] # Reactor!Empty => t \in 1..m /\ g.slab[t] = q.slab[t]
    BY <2>1, <2>2, <2>4
  <2>b. \A t \in 1..m : t \in 1..k /\ g.slab[t] = q.slab[t] /\ g.gens[t] = q.gens[t]
    BY <2>1, <2>2, <2>4
  <2>c. DOMAIN g.slab = 1..k /\ Len(g.slab) = k /\ Len(g.gens) = k
    BY <2>1, <2>4
  <2>7. Seated(g) = Seated(q)
    <3>1. \A d : d \in Seated(q) <=> \E u \in 1..m : q.slab[u] # Reactor!Empty /\ d = q.slab[u].id
      BY <1>1 DEF Seated
    <3>2. \A d : d \in Seated(g) <=> \E u \in 1..k : g.slab[u] # Reactor!Empty /\ d = g.slab[u].id
      BY <2>c DEF Seated
    <3>3. \A d : d \in Seated(g) <=> d \in Seated(q)
      BY <3>1, <3>2, <2>a, <2>b
    <3> QED
      BY <3>3
  <2>8. SlabOk(g)
    <3>1. \A i, j \in DOMAIN g.free : g.free[i] = g.free[j] => i = j
      BY <2>3, <2>4
    <3>2. \A i \in DOMAIN g.free : g.free[i] \in DOMAIN g.slab
            /\ g.slab[g.free[i]] = Reactor!Empty
      BY <2>1, <2>2, <2>3, <2>4
    <3>3. \A t \in DOMAIN g.slab : g.slab[t] = Reactor!Empty
            => \E i \in DOMAIN g.free : g.free[i] = t
      BY <2>1, <2>2, <2>3, <2>4, <2>6
    <3>4. \A t, u \in DOMAIN g.slab :
            g.slab[t] # Reactor!Empty /\ g.slab[u] # Reactor!Empty
              /\ g.slab[t].id = g.slab[u].id => t = u
      <4>1. \A t, u \in 1..m :
              q.slab[t] # Reactor!Empty /\ q.slab[u] # Reactor!Empty
                /\ q.slab[t].id = q.slab[u].id => t = u
        BY <1>1 DEF SlabOk
      <4> SUFFICES ASSUME NEW t \in 1..k, NEW u \in 1..k, g.slab[t] # Reactor!Empty,
                          g.slab[u] # Reactor!Empty,
                          g.slab[t].id = g.slab[u].id
                   PROVE  t = u
        BY <2>c
      <4>2. t \in 1..m /\ u \in 1..m /\ g.slab[t] = q.slab[t] /\ g.slab[u] = q.slab[u]
        BY <2>a
      <4> QED
        BY <4>1, <4>2
    <3> QED
      BY <3>1, <3>2, <3>3, <3>4, <2>c DEF SlabOk
  <2>9. BooksOk(g, W, n)
    BY <1>1, <2>4, <2>7 DEF BooksOk
  <2>10. OwnersOk(g, h, R)
    <3>1. \A c \in Conns : g.closed[c] = IF h[c][1] # 0 /\ c \notin Seated(g)
                                           THEN 1
                                           ELSE 0
      BY <1>1, <2>4, <2>7 DEF OwnersOk
    <3>2. \A t \in DOMAIN g.slab : g.slab[t] # Reactor!Empty => h[g.slab[t].id] = <<t, g.gens[t]>>
      BY <1>1, <2>1, <2>2, <2>4 DEF OwnersOk
    <3>3. ~R => \A c \in Conns : h[c][1] # 0 =>
            h[c][1] \in DOMAIN g.slab /\ (c \in Seated(g) \/ h[c][2] < g.gens[h[c][1]])
      BY <1>1, <2>1, <2>2, <2>4, <2>7 DEF OwnersOk
    <3> QED
      BY <3>1, <3>2, <3>3 DEF OwnersOk
  <2>11. g \in Good(W, n, h, R, k)
    BY <2>1, <2>4, <2>8, <2>9, <2>10 DEF Good
  <2>12. Reactor!TakeSlot(q).token = k
           /\ Reactor!TakeSlot(q).st = [q EXCEPT !.slab = sl, !.gens = gn]
    BY <1>1, <1>3 DEF Reactor!TakeSlot, sl, gn, k
  <2>13. Len(g.free) = 1 /\ g.free[1] = k /\ g.free = <<k>>
    BY <2>3, <2>4
  <2>14. SubSeq(g.free, 1, Len(g.free) - 1) = <<>>
    BY <2>3, <2>13
  <2>15. /\ Len(g.free) # 0 /\ Reactor!TakeSlot(q).token = g.free[Len(g.free)]
         /\ Reactor!TakeSlot(q).st = [g EXCEPT !.free = SubSeq(g.free, 1, Len(g.free) - 1)]
    BY <2>5, <2>12, <2>13
  <2>16. Append(SubSeq(g.free, 1, Len(g.free) - 1), g.free[Len(g.free)]) = g.free
    BY <2>3, <2>13, <2>14
  <2> QED
    BY <2>2, <2>11, <2>15, <2>16
<1> QED
  BY <1>2, <1>3

SameSlots(q, r) ==
  r.slab = q.slab /\ r.gens = q.gens /\ r.free = q.free /\ r.closed = q.closed

\* Good looks at the counters beside the slab through BooksOk alone.
LEMMA SameSlab ==
  ASSUME NEW q, NEW r, NEW h, NEW R, SlabOk(q), OwnersOk(q, h, R), SameSlots(q, r)
  PROVE  SlabOk(r) /\ OwnersOk(r, h, R)
<1> USE DEF SameSlots
<1>1. Seated(r) = Seated(q)
  BY DEF Seated
<1>2. SlabOk(r)
  BY DEF SlabOk
<1>3. OwnersOk(r, h, R)
  BY <1>1 DEF OwnersOk
<1> QED
  BY <1>2, <1>3

\* A reservation is given back before the connection has a slot.
LEMMA ReleaseKeeps ==
  ASSUME ReactorConstants, NEW W, NEW n, NEW h, NEW R, NEW m, Context(W, n, h, R, m),
         NEW q \in Good(W, n, h, R, m), NEW c \in W
  PROVE  Reactor!Release(q, c) \in Good(W \ {c}, n, h, R, m)
<1> DEFINE r == Reactor!Release(q, c)
           X == W \cup Seated(q)
           In(i) == {d \in X : IpOf[d] = i}
<1>1. q \in Shards /\ SlabOk(q) /\ BooksOk(q, W, n) /\ OwnersOk(q, h, R) /\ Len(q.slab) = m
  BY DEF Good
<1>2. c \in Conns /\ IpOf[c] \in Ips /\ MaxTotal \in Nat /\ MaxPerIp \in Nat
      /\ n.making \in Nat /\ n.refusing \in Nat /\ q.total \in Int /\ q.perIp \in [Ips -> Int]
  BY <1>1 DEF Context, ReactorConstants, Shards
<1>3. r = [q EXCEPT !.total = q.total - 1,
        !.perIp = [q.perIp EXCEPT ![IpOf[c]] = q.perIp[IpOf[c]] - 1]]
  BY DEF Reactor!Release
<1>4. /\ r \in Shards /\ r.total = q.total - 1
      /\ r.perIp = [q.perIp EXCEPT ![IpOf[c]] = q.perIp[IpOf[c]] - 1]
      /\ r.slab = q.slab /\ r.gens = q.gens /\ r.free = q.free /\ r.closed = q.closed
  <2>1. [q.perIp EXCEPT ![IpOf[c]] = q.perIp[IpOf[c]] - 1] \in [Ips -> Int] /\ q.total - 1 \in Int
    BY <1>2
  <2> QED
    BY <1>1, <1>3, <2>1 DEF Shards
<1> HIDE DEF r
<1>5. Seated(r) = Seated(q)
  BY <1>4 DEF Seated
<1>6. SlabOk(r) /\ OwnersOk(r, h, R) /\ Len(r.slab) = m
  <2>1. SameSlots(q, r)
    BY <1>4 DEF SameSlots
  <2>2. SlabOk(r) /\ OwnersOk(r, h, R)
    BY <1>1, <2>1, SameSlab
  <2> QED
    BY <1>1, <1>4, <2>2
<1>7. W \cap Seated(q) = {} /\ q.total = Cardinality(X) + n.making + n.refusing
      /\ Cardinality(X) + n.making <= MaxTotal
      /\ \A i \in Ips : q.perIp[i] = Cardinality(In(i)) /\ q.perIp[i] <= MaxPerIp
  BY <1>1 DEF BooksOk
<1>8. (W \ {c}) \cup Seated(r) = X \ {c} /\ c \in X /\ (W \ {c}) \cap Seated(r) = {}
  BY <1>5, <1>7
<1>9. IsFiniteSet(X) /\ \A i \in Ips : IsFiniteSet(In(i))
  <2>1. X \subseteq Conns
    BY <1>1, SeatedAreConns DEF Context
  <2>2. IsFiniteSet(X) /\ \A i \in Ips : In(i) \subseteq X
    BY <2>1, FS_Subset DEF ReactorConstants
  <2> HIDE DEF X, In
  <2> QED
    BY <2>2, FS_Subset
<1>10. Cardinality(X \ {c}) = Cardinality(X) - 1 /\ Cardinality(X) \in Nat
  <2> HIDE DEF X
  <2> QED
    BY <1>8, <1>9, FS_RemoveElement, FS_CardinalityType
<1>11. r.total = Cardinality((W \ {c}) \cup Seated(r)) + n.making + n.refusing
       /\ Cardinality((W \ {c}) \cup Seated(r)) + n.making <= MaxTotal
  <2>1. Cardinality((W \ {c}) \cup Seated(r)) = Cardinality(X) - 1
    BY <1>8, <1>10
  <2> HIDE DEF X, In
  <2> QED
    BY <2>1, <1>2, <1>4, <1>7, <1>10
<1>12. ASSUME NEW i \in Ips
       PROVE  r.perIp[i] = Cardinality({d \in (W \ {c}) \cup Seated(r) : IpOf[d] = i})
              /\ r.perIp[i] <= MaxPerIp
  <2>1. {d \in (W \ {c}) \cup Seated(r) : IpOf[d] = i} = In(i) \ {c}
    BY <1>8
  <2>2. Cardinality(In(i)) \in Nat /\ q.perIp[i] = Cardinality(In(i)) /\ q.perIp[i] <= MaxPerIp
    BY <1>7, <1>9, FS_CardinalityType
  <2>3. CASE i = IpOf[c]
    <3>1. Cardinality(In(i) \ {c}) = Cardinality(In(i)) - 1
      <4>1. c \in In(i)
        BY <2>3, <1>8
      <4> QED
        BY <4>1, <1>9, FS_RemoveElement
    <3>2. r.perIp[i] = q.perIp[i] - 1
      BY <2>3, <1>2, <1>4
    <3>3. r.perIp[i] = Cardinality({d \in (W \ {c}) \cup Seated(r) : IpOf[d] = i})
      BY <3>1, <3>2, <2>1, <2>2
    <3> HIDE DEF In
    <3>4. r.perIp[i] <= MaxPerIp
      BY <3>2, <2>2, <1>2
    <3> QED
      BY <3>3, <3>4
  <2>4. CASE i # IpOf[c]
    <3>1. In(i) \ {c} = In(i)
      BY <2>4
    <3>2. r.perIp[i] = q.perIp[i]
      BY <2>4, <1>2, <1>4
    <3> QED
      BY <3>1, <3>2, <2>1, <2>2
  <2> QED
    BY <2>3, <2>4
<1>13. BooksOk(r, W \ {c}, n)
  BY <1>8, <1>11, <1>12 DEF BooksOk
<1>14. r \in Good(W \ {c}, n, h, R, m)
  BY <1>4, <1>6, <1>13 DEF Good
<1> QED
  BY <1>14 DEF r

\* adopt: the connection moves from the queue into the slot at the end of the
\* free list and gets a handle to it.
Seats(q, h, c, x, t, r, g) ==
  /\ t = q.free[Len(q.free)]
  /\ r = [q EXCEPT !.free = SubSeq(q.free, 1, Len(q.free) - 1), !.slab = [q.slab EXCEPT ![t] = x]]
  /\ g = [h EXCEPT ![c] = <<t, q.gens[t]>>]

Seat(q, W, n, h, R, m, x, t, r) ==
  /\ t \in 1..m /\ t \in Nat /\ q.gens[t] \in Nat
  /\ r \in Good(W, n, h, R, m) /\ r.slab[t] = x

\* The connection adopt seats: the books balance, its handle is its own.
LEMMA SeatKeeps ==
  ASSUME ReactorConstants, NEW W, NEW n, NEW h, NEW R, NEW m, Context(W, n, h, R, m),
         NEW q \in Good(W, n, h, R, m), Len(q.free) # 0, NEW c \in W, h[c][1] = 0,
         NEW x \in Slot, x.id = c, NEW t, NEW r, NEW g, Seats(q, h, c, x, t, r, g)
  PROVE  Seat(q, W \ {c}, n, g, R, m, x, t, r)
<1> USE DEF Seats
<1> DEFINE l == Len(q.free)
           fr == SubSeq(q.free, 1, l - 1)
           sl == [q.slab EXCEPT ![t] = x]
<1>1. /\ m \in Nat /\ q \in Shards /\ SlabOk(q) /\ BooksOk(q, W, n) /\ OwnersOk(q, h, R)
      /\ Len(q.slab) = m /\ DOMAIN q.slab = 1..m /\ Len(q.gens) = m /\ DOMAIN q.gens = 1..m
      /\ q.free \in Seq(Tokens) /\ q.slab \in Seq(Slot \cup {Reactor!Empty})
           /\ q.gens \in Seq(Nat)
      /\ c \in Conns /\ h \in [Conns -> Nat \X Nat] /\ x # Reactor!Empty
  BY SlotNotEmpty DEF Good, Context, SlabOk, Shards
<1>2. /\ l \in Nat \ {0} /\ DOMAIN q.free = 1..l /\ fr \in Seq(Tokens) /\ DOMAIN fr = 1..(l - 1)
      /\ \A i \in 1..(l - 1) : fr[i] = q.free[i] /\ i \in 1..l /\ i # l
      /\ \A i \in 1..l : i \in 1..(l - 1) \/ i = l
      /\ l \in 1..l
  BY <1>1
<1>3. t \in 1..m /\ q.slab[t] = Reactor!Empty /\ q.gens[t] \in Nat /\ t \in Nat \ {0}
  <2>1. q.free[l] \in DOMAIN q.slab /\ q.slab[q.free[l]] = Reactor!Empty
    BY <1>1, <1>2 DEF SlabOk
  <2>2. t = q.free[l] /\ DOMAIN q.slab = DOMAIN q.gens
    BY <1>1
  <2>3. t \in DOMAIN q.slab /\ q.slab[t] = Reactor!Empty
    BY <2>1, <2>2
  <2>4. q.gens[t] \in Nat
    <3>1. t \in DOMAIN q.gens /\ q.gens \in Seq(Nat)
      BY <2>2, <2>3, <1>1
    <3> QED
      BY <3>1
  <2>5. t \in 1..m /\ m \in Nat
    BY <2>3, <1>1
  <2>6. t \in Nat \ {0}
    BY <2>5
  <2> QED
    BY <2>3, <2>4, <2>5, <2>6
<1>4. sl \in Seq(Slot \cup {Reactor!Empty})
  BY <1>1, <1>3
<1> HIDE DEF fr, sl
<1>5. r \in Shards /\ r.slab = sl /\ r.free = fr /\ r.gens = q.gens /\ r.total = q.total
      /\ r.perIp = q.perIp /\ r.closed = q.closed
  BY <1>1, <1>2, <1>4 DEF Shards, fr, sl
<1>6. DOMAIN r.slab = 1..m /\ r.slab[t] = x /\ \A u \in 1..m : u # t => r.slab[u] = q.slab[u]
  BY <1>1, <1>3, <1>5 DEF sl
<1>7. Len(r.slab) = m
  BY <1>1, <1>5, <1>6 DEF Shards
<1>8. \A u \in 1..m : q.slab[u] # Reactor!Empty => q.slab[u].id # c /\ u # t
  <2> SUFFICES ASSUME NEW u \in 1..m, q.slab[u] # Reactor!Empty PROVE q.slab[u].id # c /\ u # t
    OBVIOUS
  <2>1. h[q.slab[u].id] = <<u, q.gens[u]>> /\ u # 0
    BY <1>1 DEF OwnersOk
  <2>2. h[q.slab[u].id][1] = u
    BY <2>1
  <2>3. q.slab[u].id # c
    BY <2>1, <2>2
  <2> QED
    BY <2>3, <1>3
<1>9. Seated(r) = Seated(q) \cup {c} /\ c \notin Seated(q)
  <2>1. c \notin Seated(q)
    BY <1>1, <1>8 DEF Seated
  <2>2. \A d : d \in Seated(r) <=> d \in Seated(q) \/ d = c
    <3>1. \A d : d \in Seated(q) <=> \E u \in 1..m : q.slab[u] # Reactor!Empty /\ d = q.slab[u].id
      BY <1>1 DEF Seated
    <3>2. \A d : d \in Seated(r) <=> \E u \in 1..m : r.slab[u] # Reactor!Empty /\ d = r.slab[u].id
      BY <1>6 DEF Seated
    <3>3. \A u \in 1..m : q.slab[u] # Reactor!Empty => r.slab[u] = q.slab[u]
      BY <1>6, <1>8
    <3>4. \A u \in 1..m : r.slab[u] # Reactor!Empty
            => u = t \/ (q.slab[u] # Reactor!Empty /\ r.slab[u] = q.slab[u])
      BY <1>6
    <3>5. r.slab[t] # Reactor!Empty /\ r.slab[t].id = c /\ t \in 1..m
      BY <1>1, <1>3, <1>6
    <3>6. \A d : d \in Seated(r) => d \in Seated(q) \/ d = c
      BY <3>1, <3>2, <3>4, <3>5
    <3>7. \A d : d \in Seated(q) \/ d = c => d \in Seated(r)
      BY <3>1, <3>2, <3>3, <3>5
    <3> QED
      BY <3>6, <3>7
  <2> QED
    BY <2>1, <2>2
<1>10. SlabOk(r)
  <2>0. \A i, j \in 1..l : q.free[i] = q.free[j] => i = j
    BY <1>1, <1>2 DEF SlabOk
  <2>1. \A i, j \in DOMAIN r.free : r.free[i] = r.free[j] => i = j
    <3> SUFFICES ASSUME NEW i \in 1..(l - 1), NEW j \in 1..(l - 1), fr[i] = fr[j] PROVE i = j
      BY <1>2, <1>5
    <3>1. i \in 1..l /\ j \in 1..l /\ q.free[i] = q.free[j]
      BY <1>2
    <3> QED
      BY <3>1, <2>0
  <2>2. \A i \in DOMAIN r.free : r.free[i] \in DOMAIN r.slab /\ r.slab[r.free[i]] = Reactor!Empty
    <3> SUFFICES ASSUME NEW i \in DOMAIN r.free
                 PROVE  r.free[i] \in DOMAIN r.slab /\ r.slab[r.free[i]] = Reactor!Empty
      OBVIOUS
    <3>1. i \in 1..(l - 1) /\ r.free[i] = fr[i]
      BY <1>2, <1>5
    <3>2. fr[i] = q.free[i] /\ q.free[i] \in 1..m /\ q.slab[q.free[i]] = Reactor!Empty
            /\ q.free[i] # t
      BY <3>1, <1>1, <1>2 DEF SlabOk
    <3> QED
      BY <3>1, <3>2, <1>6
  <2>3. \A u \in DOMAIN r.slab : r.slab[u] = Reactor!Empty
          => \E i \in DOMAIN r.free : r.free[i] = u
    <3> SUFFICES ASSUME NEW u \in 1..m, r.slab[u] = Reactor!Empty
                 PROVE  \E i \in 1..(l - 1) : fr[i] = u
      BY <1>2, <1>5, <1>6
    <3>1. u # t /\ q.slab[u] = Reactor!Empty
      BY <1>1, <1>6
    <3>2. PICK i \in 1..l : q.free[i] = u
      BY <3>1, <1>1, <1>2 DEF SlabOk
    <3> QED
      BY <3>1, <3>2, <1>2
  <2>4. \A u, v \in DOMAIN r.slab :
          r.slab[u] # Reactor!Empty /\ r.slab[v] # Reactor!Empty
            /\ r.slab[u].id = r.slab[v].id => u = v
    <3>0. DOMAIN r.slab = 1..m
      BY <1>6
    <3>1. \A u, v \in 1..m :
            q.slab[u] # Reactor!Empty /\ q.slab[v] # Reactor!Empty
              /\ q.slab[u].id = q.slab[v].id => u = v
      BY <1>1 DEF SlabOk
    <3> SUFFICES ASSUME NEW u \in 1..m, NEW v \in 1..m, r.slab[u] # Reactor!Empty,
                        r.slab[v] # Reactor!Empty,
                        r.slab[u].id = r.slab[v].id
                 PROVE  u = v
      BY <3>0
    <3>2. CASE u = t
      BY <3>2, <1>6, <1>8
    <3>3. CASE v = t
      BY <3>3, <1>6, <1>8
    <3>4. CASE u # t /\ v # t
      BY <3>1, <3>4, <1>6
    <3> QED
      BY <3>2, <3>3, <3>4
  <2> QED
    BY <2>1, <2>2, <2>3, <2>4, <1>1, <1>5, <1>7 DEF SlabOk
<1>11. BooksOk(r, W \ {c}, n)
  <2>1. (W \ {c}) \cup Seated(r) = W \cup Seated(q) /\ (W \ {c}) \cap Seated(r) = {}
    BY <1>1, <1>9 DEF BooksOk
  <2> QED
    BY <2>1, <1>1, <1>5 DEF BooksOk
<1>12. \A d \in Conns : g[d] = IF d = c
                                 THEN <<t, q.gens[t]>>
                                 ELSE h[d]
  BY <1>1
<1>13. g[c][1] = t /\ \A d \in Conns : d # c => g[d] = h[d]
  BY <1>1, <1>12
<1>14. OwnersOk(r, g, R)
  <2>1. ASSUME NEW d \in Conns PROVE r.closed[d] = IF g[d][1] # 0 /\ d \notin Seated(r)
                                                     THEN 1
                                                     ELSE 0
    <3>1. q.closed[d] = IF h[d][1] # 0 /\ d \notin Seated(q)
                          THEN 1
                          ELSE 0
      BY <1>1 DEF OwnersOk
    <3>2. CASE d = c
      BY <3>1, <3>2, <1>5, <1>9
    <3>3. CASE d # c
      BY <3>1, <3>3, <1>5, <1>9, <1>13
    <3> QED
      BY <3>2, <3>3
  <2>2. ASSUME NEW u \in 1..m, r.slab[u] # Reactor!Empty PROVE g[r.slab[u].id] = <<u, r.gens[u]>>
    <3>1. CASE u = t
      BY <3>1, <1>1, <1>5, <1>6, <1>12
    <3>2. CASE u # t
      <4>1. q.slab[u] # Reactor!Empty /\ q.slab[u].id # c /\ q.slab[u].id \in Conns
        <5>1. q.slab[u] \in Slot \cup {Reactor!Empty}
          BY <1>1
        <5> QED
          BY <5>1, <3>2, <2>2, <1>6, <1>8 DEF Slot
      <4>2. h[q.slab[u].id] = <<u, q.gens[u]>>
        BY <4>1, <1>1 DEF OwnersOk
      <4> QED
        BY <4>1, <4>2, <3>2, <1>5, <1>6, <1>13
    <3> QED
      BY <3>1, <3>2
  <2>3. ASSUME ~R, NEW d \in Conns, g[d][1] # 0
        PROVE  g[d][1] \in DOMAIN r.slab /\ (d \in Seated(r) \/ g[d][2] < r.gens[g[d][1]])
    <3>1. CASE d = c
      BY <3>1, <1>3, <1>6, <1>9, <1>13
    <3>2. CASE d # c
      <4>1. h[d][1] \in 1..m /\ (d \in Seated(q) \/ h[d][2] < q.gens[h[d][1]])
        BY <3>2, <2>3, <1>1, <1>13 DEF OwnersOk
      <4> QED
        BY <4>1, <3>2, <1>5, <1>6, <1>9, <1>13
    <3> QED
      BY <3>1, <3>2
  <2> QED
    BY <2>1, <2>2, <2>3, <1>6 DEF OwnersOk
<1>15. r \in Good(W \ {c}, n, g, R, m)
  BY <1>5, <1>7, <1>10, <1>11, <1>14 DEF Good
<1> QED
  BY <1>3, <1>6, <1>15 DEF Seat

LEMMA SameCounting == \A S : Reactor!Cardinality(S) = Cardinality(S)
BY DEF Reactor!Cardinality, Cardinality, Reactor!IsFiniteSet, IsFiniteSet

\* The inductive invariant.

AdoptCmds == [kind : {"adopt"}, conn : Conns]
ConnCmds  == [kind : {"send", "close"}, conn : Conns, token : Tokens, gen : Nat]
Cmds      == AdoptCmds \cup ConnCmds

\* The commands the shard has yet to run, in their order.
Line == (IF rePc = "commands" THEN todo ELSE <<>>) \o inbox
Asked(q) == {c \in Conns : \E i \in DOMAIN q : q[i] = [kind |-> "adopt", conn |-> c]}

\* A connection is asked for once, and has no handle before; a command carries
\* the handle it was given.
LineOk(q, w, h) ==
  /\ q \in Seq(Cmds)
  /\ \A i, j \in DOMAIN q : q[i].kind = "adopt" /\ q[i] = q[j] => i = j
  /\ \A i \in DOMAIN q :
       IF q[i].kind = "adopt"
       THEN w[q[i].conn] \in {"pushed", "handed"} /\ h[q[i].conn][1] = 0
       ELSE h[q[i].conn] = <<q[i].token, q[i].gen>>

WorkerStates == {"idle", "counted", "refusing", "refused", "admitted", "pushed", "handed"}
At(w, here) == {c \in Conns : w[c] = here}
Tally(w) == [making |-> Cardinality(At(w, "counted")), refusing |-> Cardinality(At(w,
  "refusing"))]
WorkersOk(w, h) ==
  /\ w \in [Conns -> WorkerStates] /\ h \in [Conns -> Nat \X Nat]
  /\ \A c \in Conns : w[c] \notin {"pushed", "handed"} => h[c][1] = 0

\* The admission counters and the slab.
Sound(q, w, l, h, R) ==
  q \in Good(At(w, "admitted") \cup Asked(l), Tally(w), h, R, Len(q.slab))
SlabInv == Sound(shard, reWorker, Line, handle, reclaimed)

\* What the shard thread goes through.
LoopOk ==
  /\ rePc \in {"wait", "events", "commands", "parked", "dead"}
  /\ batch \subseteq Nat
  /\ rePc = "commands" => todo \in Seq(Cmds)
  /\ rePc = "parked" => todo \in Seq(Tokens)
  /\ wire \in [Conns -> Seq(Frames)]
  /\ reclaimed \in BOOLEAN /\ (misrouted => reclaimed)

\* The flag and the pipe agree, and a command that no thread is about to wake
\* the shard for finds the flag up.
WakeOk ==
  /\ pipe \in BOOLEAN /\ pipe = pending /\ inbox \in Seq(Cmds)
  /\ rePc # "events" /\ inbox # <<>> /\ ~sender /\ (\A c \in Conns : reWorker[c] # "pushed")
       => pipe

ReactorInv ==
  /\ LineOk(Line, reWorker, handle) /\ WorkersOk(reWorker, handle)
  /\ SlabInv /\ LoopOk /\ WakeOk

\* The line with its first command run, and with one more.
LEMMA LineTail ==
  ASSUME NEW q, NEW w, NEW h, NEW g, LineOk(q, w, h), q # <<>>,
         IF Head(q).kind = "adopt"
           THEN \A d \in Conns \ {Head(q).conn} : g[d] = h[d]
           ELSE g = h
  PROVE  /\ LineOk(Tail(q), w, g) /\ Head(q) \in Cmds
         /\ Asked(Tail(q)) = IF Head(q).kind = "adopt"
                               THEN Asked(q) \ {Head(q).conn}
                               ELSE Asked(q)
<1> DEFINE r == Tail(q)
<1>1. /\ q \in Seq(Cmds) /\ r \in Seq(Cmds) /\ Len(q) \in Nat \ {0} /\ DOMAIN q = 1..Len(q)
      /\ DOMAIN r = 1..(Len(q) - 1) /\ Head(q) = q[1] /\ q[1] \in Cmds
      /\ \A i \in 1..(Len(q) - 1) : r[i] = q[i + 1]
  BY DEF LineOk
<1> HIDE DEF r
<1>2. /\ \A i \in DOMAIN r : \E j \in DOMAIN q : j = i + 1 /\ r[i] = q[j] /\ j # 1 /\ i \in Nat
      /\ \A j \in DOMAIN q : j = 1 \/ \E i \in DOMAIN r : j = i + 1 /\ r[i] = q[j]
      /\ 1 \in DOMAIN q
  <2>1. ASSUME NEW i \in DOMAIN r
        PROVE  \E j \in DOMAIN q : j = i + 1 /\ r[i] = q[j] /\ j # 1 /\ i \in Nat
    <3> DEFINE j == i + 1
    <3>1. i \in 1..(Len(q) - 1) /\ j \in 1..Len(q) /\ j # 1 /\ i \in Nat /\ r[i] = q[j]
      BY <1>1
    <3> QED
      BY <3>1, <1>1
  <2>2. ASSUME NEW j \in DOMAIN q, j # 1 PROVE \E i \in DOMAIN r : j = i + 1 /\ r[i] = q[j]
    <3> DEFINE i == j - 1
    <3>1. i \in 1..(Len(q) - 1) /\ i + 1 = j
      BY <2>2, <1>1
    <3>2. r[i] = q[i + 1]
      BY <3>1, <1>1
    <3> HIDE DEF i
    <3> QED
      BY <3>1, <3>2, <1>1
  <2> QED
    BY <2>1, <2>2, <1>1
<1>3. \A i, j \in DOMAIN q : q[i].kind = "adopt" /\ q[i] = q[j] => i = j
  BY DEF LineOk
<1>4. \A i \in DOMAIN q : q[i] \in Cmds
  BY <1>1
<1>5. \A i, j \in DOMAIN r : r[i].kind = "adopt" /\ r[i] = r[j] => i = j
  <2> SUFFICES ASSUME NEW i \in DOMAIN r, NEW j \in DOMAIN r, r[i].kind = "adopt",
                      r[i] = r[j] PROVE i = j
    OBVIOUS
  <2>1. PICK a \in DOMAIN q : a = i + 1 /\ r[i] = q[a] /\ i \in Nat
    BY <1>2
  <2>2. PICK b \in DOMAIN q : b = j + 1 /\ r[j] = q[b] /\ j \in Nat
    BY <1>2
  <2>3. a = b
    BY <2>1, <2>2, <1>3
  <2> QED
    BY <2>1, <2>2, <2>3
<1>6. ASSUME NEW j \in DOMAIN q, q[j].kind = "adopt"
      PROVE  q[j].conn \in Conns /\ q[j] = [kind |-> "adopt", conn |-> q[j].conn]
  BY <1>4, <1>6 DEF Cmds, AdoptCmds, ConnCmds
<1>7. ASSUME NEW j \in DOMAIN q, j # 1, q[1].kind = "adopt", q[j].kind = "adopt"
      PROVE  q[j].conn # q[1].conn
  BY <1>2, <1>3, <1>6, <1>7
<1>8. ASSUME NEW j \in DOMAIN q, j # 1
      PROVE  IF q[j].kind = "adopt"
             THEN w[q[j].conn] \in {"pushed", "handed"} /\ g[q[j].conn][1] = 0
             ELSE g[q[j].conn] = <<q[j].token, q[j].gen>>
  <2>1. IF q[j].kind = "adopt"
        THEN w[q[j].conn] \in {"pushed", "handed"} /\ h[q[j].conn][1] = 0
        ELSE h[q[j].conn] = <<q[j].token, q[j].gen>>
    BY DEF LineOk
  <2>2. CASE q[1].kind # "adopt"
    BY <2>1, <2>2, <1>1
  <2>3. CASE q[1].kind = "adopt" /\ q[j].kind = "adopt"
    BY <2>1, <2>3, <1>1, <1>6, <1>7, <1>8
  <2>4. CASE q[1].kind = "adopt" /\ q[j].kind # "adopt"
    <3>1. q[j].conn \in Conns /\ q[j].token # 0
      BY <2>4, <1>4 DEF Cmds, AdoptCmds, ConnCmds, Tokens
    <3>2. h[q[j].conn][1] = q[j].token
      BY <2>1, <2>4
    <3>3. h[q[1].conn][1] = 0
      BY <2>4, <1>2 DEF LineOk
    <3>4. q[j].conn # q[1].conn
      BY <3>1, <3>2, <3>3
    <3> QED
      BY <2>1, <2>4, <3>1, <3>4, <1>1
  <2> QED
    BY <2>2, <2>3, <2>4
<1>9. LineOk(r, w, g)
  <2>1. ASSUME NEW i \in DOMAIN r
        PROVE  IF r[i].kind = "adopt"
               THEN w[r[i].conn] \in {"pushed", "handed"} /\ g[r[i].conn][1] = 0
               ELSE g[r[i].conn] = <<r[i].token, r[i].gen>>
    <3>1. PICK j \in DOMAIN q : r[i] = q[j] /\ j # 1
      BY <1>2
    <3> QED
      BY <3>1, <1>8
  <2> QED
    BY <2>1, <1>1, <1>5 DEF LineOk
<1>10. \A c : c \in Asked(r) <=> c \in Conns
         /\ \E i \in DOMAIN r : r[i] = [kind |-> "adopt", conn |-> c]
  BY DEF Asked
<1>11. \A c : c \in Asked(q) <=> c \in Conns
         /\ \E j \in DOMAIN q : q[j] = [kind |-> "adopt", conn |-> c]
  BY DEF Asked
<1>12. CASE q[1].kind = "adopt"
  <2>1. q[1] = [kind |-> "adopt", conn |-> q[1].conn]
    BY <1>2, <1>6, <1>12
  <2>2. \A c : c \in Asked(r) => c \in Asked(q) /\ c # q[1].conn
    BY <1>2, <1>7, <1>10, <1>11, <1>12
  <2>3. \A c : c \in Asked(q) /\ c # q[1].conn => c \in Asked(r)
    BY <1>2, <1>10, <1>11, <2>1
  <2>4. Asked(r) = Asked(q) \ {q[1].conn}
    BY <2>2, <2>3
  <2> QED
    BY <2>4, <1>1, <1>9, <1>12 DEF r
<1>13. CASE q[1].kind # "adopt"
  <2>1. \A c : c \in Asked(r) <=> c \in Asked(q)
    BY <1>2, <1>10, <1>11, <1>13
  <2>2. Asked(r) = Asked(q)
    BY <2>1
  <2> QED
    BY <2>2, <1>1, <1>9, <1>13 DEF r
<1> QED
  BY <1>12, <1>13

Joins(x, q, w, h, v) ==
  /\ \A d \in Conns : w[d] \in {"pushed", "handed"} => v[d] \in {"pushed", "handed"}
  /\ IF x.kind = "adopt"
     THEN v[x.conn] \in {"pushed", "handed"} /\ h[x.conn][1] = 0 /\ x.conn \notin Asked(q)
     ELSE h[x.conn] = <<x.token, x.gen>>

\* A command that joins the line.
LEMMA LineAppend ==
  ASSUME NEW q, NEW w, NEW h, NEW v, NEW x \in Cmds, LineOk(q, w, h),
         Joins(x, q, w, h, v)
  PROVE  /\ LineOk(Append(q, x), v, h)
         /\ Asked(Append(q, x)) = IF x.kind = "adopt"
                                    THEN Asked(q) \cup {x.conn}
                                    ELSE Asked(q)
<1> USE DEF Joins
<1> DEFINE r == Append(q, x)
           k == Len(q) + 1
<1>1. /\ q \in Seq(Cmds) /\ r \in Seq(Cmds) /\ Len(q) \in Nat /\ DOMAIN q = 1..Len(q)
      /\ DOMAIN r = 1..k /\ r[k] = x /\ \A i \in 1..Len(q) : r[i] = q[i]
  BY DEF LineOk
<1>2. /\ \A i \in DOMAIN r : i = k \/ (i \in DOMAIN q /\ i # k /\ r[i] = q[i])
      /\ \A i \in DOMAIN q : i \in DOMAIN r /\ r[i] = q[i] /\ q[i] \in Cmds
      /\ k \in DOMAIN r
  BY <1>1
<1> HIDE DEF r, k
<1>3. \A y \in Cmds : y.kind = "adopt" => y.conn \in Conns
        /\ y = [kind |-> "adopt", conn |-> y.conn]
  BY DEF Cmds, AdoptCmds, ConnCmds
<1>4. \A y \in Cmds : y.conn \in Conns
  BY DEF Cmds, AdoptCmds, ConnCmds
<1>5. \A i \in DOMAIN q : q[i].kind = "adopt" => q[i] # x
  BY <1>2, <1>3 DEF Asked
<1>6. \A i, j \in DOMAIN r : r[i].kind = "adopt" /\ r[i] = r[j] => i = j
  BY <1>1, <1>2, <1>5 DEF LineOk
<1>7. ASSUME NEW i \in DOMAIN r
      PROVE  IF r[i].kind = "adopt"
             THEN v[r[i].conn] \in {"pushed", "handed"} /\ h[r[i].conn][1] = 0
             ELSE h[r[i].conn] = <<r[i].token, r[i].gen>>
  <2>1. CASE i = k
    BY <2>1, <1>1
  <2>2. CASE i # k
    BY <2>2, <1>2, <1>4 DEF LineOk
  <2> QED
    BY <2>1, <2>2
<1>8. LineOk(r, v, h)
  BY <1>1, <1>6, <1>7 DEF LineOk
<1>9. \A c : c \in Asked(r) <=> c \in Conns
        /\ \E i \in DOMAIN r : r[i] = [kind |-> "adopt", conn |-> c]
  BY DEF Asked
<1>10. \A c : c \in Asked(q) <=> c \in Conns
         /\ \E j \in DOMAIN q : q[j] = [kind |-> "adopt", conn |-> c]
  BY DEF Asked
<1>11. \A c : c \in Asked(r) <=> c \in Asked(q) \/ (c \in Conns
         /\ x = [kind |-> "adopt", conn |-> c])
  <2> SUFFICES ASSUME NEW c, NEW a, a = [kind |-> "adopt", conn |-> c], c \in Conns
               PROVE  (\E i \in DOMAIN r : r[i] = a) <=> (\E i \in DOMAIN q : q[i] = a) \/ x = a
    BY <1>9, <1>10
  <2>1. r[k] = x
    BY <1>1 DEF k
  <2> QED
    BY <2>1, <1>2
<1>12. CASE x.kind = "adopt"
  <2>1. \A c : c \in Asked(r) <=> c \in Asked(q) \/ c = x.conn
    BY <1>3, <1>11, <1>12
  <2>2. Asked(r) = Asked(q) \cup {x.conn}
    BY <2>1
  <2> QED
    BY <2>2, <1>8, <1>12 DEF r
<1>13. CASE x.kind # "adopt"
  <2>1. \A c : c \in Asked(r) <=> c \in Asked(q)
    BY <1>11, <1>13
  <2>2. Asked(r) = Asked(q)
    BY <2>1
  <2> QED
    BY <2>2, <1>8, <1>13 DEF r
<1> QED
  BY <1>12, <1>13

\* A worker that goes from one state to another.
Moves(w, v, c, a, b) ==
  /\ At(v, b) = At(w, b) \cup {c} /\ At(v, a) = At(w, a) \ {c}
  /\ c \in At(w, a) /\ c \notin At(w, b)
  /\ \A d \in WorkerStates \ {a, b} : At(v, d) = At(w, d)
  /\ \A d \in WorkerStates : IsFiniteSet(At(w, d)) /\ Cardinality(At(w, d)) \in Nat
  /\ Cardinality(At(v, b)) = Cardinality(At(w, b)) + 1
  /\ Cardinality(At(v, a)) = Cardinality(At(w, a)) - 1
  /\ Cardinality(At(w, a)) # 0

\* A worker that moves leaves one set of waiting workers and joins another.
LEMMA Moved ==
  ASSUME IsFiniteSet(Conns), NEW w \in [Conns -> WorkerStates], NEW c \in Conns, NEW a, NEW b,
         w[c] = a, a # b, NEW v, v = [w EXCEPT ![c] = b]
  PROVE  Moves(w, v, c, a, b)
<1>1. At(v, b) = At(w, b) \cup {c} /\ At(v, a) = At(w, a) \ {c}
      /\ c \in At(w, a) /\ c \notin At(w, b)
  BY DEF At
<1>2. \A d \in WorkerStates \ {a, b} : At(v, d) = At(w, d)
  BY DEF At
<1>3. ASSUME NEW d PROVE IsFiniteSet(At(w, d)) /\ Cardinality(At(w, d)) \in Nat
  <2>1. At(w, d) \subseteq Conns
    BY DEF At
  <2> QED
    BY <2>1, FS_Subset, FS_CardinalityType
<1>4. Cardinality(At(v, b)) = Cardinality(At(w, b)) + 1
  BY <1>1, <1>3, FS_AddElement
<1>5. Cardinality(At(v, a)) = Cardinality(At(w, a)) - 1
  BY <1>1, <1>3, FS_RemoveElement
<1>6. Cardinality(At(w, a)) # 0
  BY <1>1, <1>3, FS_EmptySet
<1> QED
  BY <1>1, <1>2, <1>3, <1>4, <1>5, <1>6 DEF Moves

\* reserve counts first and gives the count back when it is past the cap.
LEMMA TallyKeeps ==
  ASSUME ReactorConstants, NEW W, NEW n, NEW h, NEW R, NEW m, Context(W, n, h, R, m),
         NEW q \in Good(W, n, h, R, m), NEW k \in [making : Nat, refusing : Nat], NEW v \in Int,
         v = q.total + k.making + k.refusing - n.making - n.refusing,
         k.making <= n.making \/ (k.making = n.making + 1 /\ k.refusing = n.refusing
           /\ q.total < MaxTotal),
         NEW r, r = [q EXCEPT !.total = v]
  PROVE  r \in Good(W, k, h, R, m)
<1> DEFINE X == W \cup Seated(q)
<1>1. q \in Shards /\ SlabOk(q) /\ BooksOk(q, W, n) /\ OwnersOk(q, h, R) /\ Len(q.slab) = m
  BY DEF Good
<1>2. /\ r \in Shards /\ r.total = v /\ r.perIp = q.perIp /\ r.slab = q.slab /\ r.gens = q.gens
      /\ r.free = q.free /\ r.closed = q.closed
  BY <1>1 DEF Shards
<1>3. Seated(r) = Seated(q)
  BY <1>2 DEF Seated
<1>4. SlabOk(r) /\ OwnersOk(r, h, R) /\ Len(r.slab) = m
  <2>1. SameSlots(q, r)
    BY <1>2 DEF SameSlots
  <2>2. SlabOk(r) /\ OwnersOk(r, h, R)
    BY <1>1, <2>1, SameSlab
  <2> QED
    BY <1>1, <1>2, <2>2
<1>5. IsFiniteSet(X) /\ Cardinality(X) \in Nat
  BY <1>1, SeatedAreConns, FS_Subset, FS_CardinalityType DEF Context, ReactorConstants
<1>6. /\ W \cap Seated(q) = {} /\ q.total = Cardinality(X) + n.making + n.refusing
      /\ Cardinality(X) + n.making <= MaxTotal
      /\ \A i \in Ips : q.perIp[i] = Cardinality({d \in X : IpOf[d] = i})
           /\ q.perIp[i] <= MaxPerIp
  BY <1>1 DEF BooksOk
<1>7. BooksOk(r, W, k)
  <2>1. n.making \in Nat /\ n.refusing \in Nat /\ k.making \in Nat /\ k.refusing \in Nat
          /\ MaxTotal \in Nat
    BY DEF Context, ReactorConstants
  <2> HIDE DEF X
  <2>2. v = Cardinality(X) + k.making + k.refusing
    BY <2>1, <1>5, <1>6
  <2>3. Cardinality(X) + k.making <= MaxTotal
    BY <2>1, <1>5, <1>6
  <2> QED
    BY <2>2, <2>3, <1>2, <1>3, <1>6 DEF BooksOk, X
<1> QED
  BY <1>2, <1>4, <1>7 DEF Good

\* The address is below its cap: one reservation under way becomes an admission.
LEMMA AdmitKeeps ==
  ASSUME ReactorConstants, NEW W, NEW n, NEW h, NEW R, NEW m, Context(W, n, h, R, m),
         NEW q \in Good(W, n, h, R, m), NEW c \in Conns, c \notin W, h[c][1] = 0,
         q.perIp[IpOf[c]] < MaxPerIp, NEW k \in [making : Nat, refusing : Nat],
         k.making = n.making - 1, k.refusing = n.refusing,
         NEW r, r = [q EXCEPT !.perIp = [q.perIp EXCEPT ![IpOf[c]] = q.perIp[IpOf[c]] + 1]]
  PROVE  r \in Good(W \cup {c}, k, h, R, m)
<1> DEFINE X == W \cup Seated(q)
           In(i) == {d \in X : IpOf[d] = i}
<1>1. q \in Shards /\ SlabOk(q) /\ BooksOk(q, W, n) /\ OwnersOk(q, h, R) /\ Len(q.slab) = m
  BY DEF Good
<1>2. IpOf[c] \in Ips /\ MaxTotal \in Nat /\ MaxPerIp \in Nat
      /\ n.making \in Nat /\ n.refusing \in Nat /\ q.total \in Int /\ q.perIp \in [Ips -> Int]
  BY <1>1 DEF Context, ReactorConstants, Shards
<1>3. /\ r \in Shards /\ r.total = q.total
      /\ r.perIp = [q.perIp EXCEPT ![IpOf[c]] = q.perIp[IpOf[c]] + 1]
      /\ r.slab = q.slab /\ r.gens = q.gens /\ r.free = q.free /\ r.closed = q.closed
  <2>1. [q.perIp EXCEPT ![IpOf[c]] = q.perIp[IpOf[c]] + 1] \in [Ips -> Int]
    BY <1>2
  <2> QED
    BY <1>1, <2>1 DEF Shards
<1>4. Seated(r) = Seated(q)
  BY <1>3 DEF Seated
<1>5. SlabOk(r) /\ OwnersOk(r, h, R) /\ Len(r.slab) = m
  <2>1. SameSlots(q, r)
    BY <1>3 DEF SameSlots
  <2>2. SlabOk(r) /\ OwnersOk(r, h, R)
    BY <1>1, <2>1, SameSlab
  <2> QED
    BY <1>1, <1>3, <2>2
<1>6. W \cap Seated(q) = {} /\ q.total = Cardinality(X) + n.making + n.refusing
      /\ Cardinality(X) + n.making <= MaxTotal
      /\ \A i \in Ips : q.perIp[i] = Cardinality(In(i)) /\ q.perIp[i] <= MaxPerIp
  BY <1>1 DEF BooksOk
<1>7. c \notin Seated(q)
  <2> SUFFICES ASSUME NEW u \in DOMAIN q.slab, q.slab[u] # Reactor!Empty PROVE q.slab[u].id # c
    BY DEF Seated
  <2>1. h[q.slab[u].id] = <<u, q.gens[u]>> /\ u # 0
    BY <1>1 DEF OwnersOk, Shards
  <2>2. h[q.slab[u].id][1] = u
    BY <2>1
  <2> QED
    BY <2>1, <2>2
<1>8. (W \cup {c}) \cup Seated(r) = X \cup {c} /\ c \notin X /\ (W \cup {c}) \cap Seated(r) = {}
  BY <1>4, <1>6, <1>7
<1>9. IsFiniteSet(X) /\ \A i \in Ips : IsFiniteSet(In(i))
  <2>1. X \subseteq Conns
    BY <1>1, SeatedAreConns DEF Context
  <2>2. IsFiniteSet(X) /\ \A i \in Ips : In(i) \subseteq X
    BY <2>1, FS_Subset DEF ReactorConstants
  <2> HIDE DEF X, In
  <2> QED
    BY <2>2, FS_Subset
<1>10. Cardinality(X \cup {c}) = Cardinality(X) + 1 /\ Cardinality(X) \in Nat
  <2> HIDE DEF X
  <2> QED
    BY <1>8, <1>9, FS_AddElement, FS_CardinalityType
<1>11. r.total = Cardinality((W \cup {c}) \cup Seated(r)) + k.making + k.refusing
       /\ Cardinality((W \cup {c}) \cup Seated(r)) + k.making <= MaxTotal
  <2>1. Cardinality((W \cup {c}) \cup Seated(r)) = Cardinality(X) + 1
    BY <1>8, <1>10
  <2> HIDE DEF X, In
  <2> QED
    BY <2>1, <1>2, <1>3, <1>6, <1>10
<1>12. ASSUME NEW i \in Ips
       PROVE  r.perIp[i] = Cardinality({d \in (W \cup {c}) \cup Seated(r) : IpOf[d] = i})
              /\ r.perIp[i] <= MaxPerIp
  <2>2. Cardinality(In(i)) \in Nat /\ q.perIp[i] = Cardinality(In(i)) /\ q.perIp[i] <= MaxPerIp
    BY <1>6, <1>9, FS_CardinalityType
  <2>3. CASE i = IpOf[c]
    <3>1. {d \in (W \cup {c}) \cup Seated(r) : IpOf[d] = i} = In(i) \cup {c}
      BY <2>3, <1>8
    <3>2. c \notin In(i)
      BY <1>8
    <3>3. Cardinality(In(i) \cup {c}) = Cardinality(In(i)) + 1
      <4> HIDE DEF In
      <4> QED
        BY <3>2, <1>9, FS_AddElement
    <3>4. r.perIp[i] = q.perIp[i] + 1
      BY <2>3, <1>2, <1>3
    <3>5. r.perIp[i] = Cardinality({d \in (W \cup {c}) \cup Seated(r) : IpOf[d] = i})
      BY <3>1, <3>3, <3>4, <2>2
    <3> HIDE DEF In
    <3>6. r.perIp[i] <= MaxPerIp
      BY <3>4, <2>2, <2>3, <1>2
    <3> QED
      BY <3>5, <3>6
  <2>4. CASE i # IpOf[c]
    <3>1. {d \in (W \cup {c}) \cup Seated(r) : IpOf[d] = i} = In(i)
      BY <2>4, <1>8
    <3>2. r.perIp[i] = q.perIp[i]
      BY <2>4, <1>2, <1>3
    <3> QED
      BY <3>1, <3>2, <2>2
  <2> QED
    BY <2>3, <2>4
<1>13. BooksOk(r, W \cup {c}, k)
  BY <1>8, <1>11, <1>12 DEF BooksOk
<1> QED
  BY <1>3, <1>5, <1>13 DEF Good

\* What the invariant says of the shard, in one place.
LEMMA ReactorFacts ==
  ASSUME ReactorConstants, ReactorInv
  PROVE  /\ Context(At(reWorker, "admitted") \cup Asked(Line), Tally(reWorker), handle,
              reclaimed, Len(shard.slab))
         /\ shard \in Good(At(reWorker, "admitted") \cup Asked(Line), Tally(reWorker), handle,
              reclaimed, Len(shard.slab))
         /\ shard \in Shards /\ Len(shard.slab) \in Nat /\ DOMAIN shard.slab = 1..Len(shard.slab)
         /\ Tally(reWorker) \in [making : Nat, refusing : Nat]
<1>1. shard \in Good(At(reWorker, "admitted") \cup Asked(Line), Tally(reWorker), handle,
        reclaimed, Len(shard.slab))
  BY DEF ReactorInv, SlabInv, Sound
<1>2. shard \in Shards
  BY <1>1 DEF Good
<1>3. Len(shard.slab) \in Nat /\ DOMAIN shard.slab = 1..Len(shard.slab)
  BY <1>2 DEF Shards
<1>4. ASSUME NEW d PROVE At(reWorker, d) \subseteq Conns /\ Cardinality(At(reWorker, d)) \in Nat
  <2>1. At(reWorker, d) \subseteq Conns
    BY DEF At
  <2> QED
    BY <2>1, FS_Subset, FS_CardinalityType DEF ReactorConstants
<1>5. Tally(reWorker) \in [making : Nat, refusing : Nat]
  BY <1>4 DEF Tally
<1>6. Asked(Line) \subseteq Conns
  BY DEF Asked
<1>7. handle \in [Conns -> Nat \X Nat] /\ reclaimed \in BOOLEAN
  BY DEF ReactorInv, WorkersOk, LoopOk
<1> QED
  BY <1>1, <1>2, <1>3, <1>4, <1>5, <1>6, <1>7 DEF Context

\* The steps that leave the line and the handles alone.
LEMMA Carries ==
  ASSUME ReactorInv, Line' = Line, UNCHANGED <<reWorker, handle, reclaimed>>, NEW m,
         shard' \in Good(At(reWorker, "admitted") \cup Asked(Line), Tally(reWorker), handle,
           reclaimed, m)
  PROVE  LineOk(Line, reWorker, handle)' /\ WorkersOk(reWorker, handle)' /\ SlabInv'
<1>1. LineOk(Line, reWorker, handle)' /\ WorkersOk(reWorker, handle)'
  BY DEF ReactorInv, LineOk, WorkersOk
<1>2. Len(shard'.slab) = m
  BY DEF Good
<1>3. shard' \in Good(At(reWorker', "admitted") \cup Asked(Line'), Tally(reWorker'), handle',
        reclaimed', Len(shard'.slab))
  BY <1>2
<1>4. SlabInv'
  BY <1>3 DEF SlabInv, Sound
<1> QED
  BY <1>1, <1>4

\* The steps that do not touch the slab: of the clients, of a sender that
\* raises the flag, of the shard between its calls.
LEMMA QuietSteps ==
  ASSUME ReactorConstants, ReactorInv,
         \/ Reactor!Wait \/ Reactor!WakeEvent \/ Reactor!DrainInbox \/ Reactor!NoSweep \/ Reactor!WakeCmd
         \/ \E c \in Conns, f \in Frames : Reactor!ClientSend(c, f)
         \/ \E c \in Conns, how \in PeerStates : Reactor!ClientChange(c, how)
  PROVE  ReactorInv'
<1> DEFINE W == At(reWorker, "admitted") \cup Asked(Line)
           G == Good(W, Tally(reWorker), handle, reclaimed, Len(shard.slab))
<1>1. shard \in G /\ DOMAIN shard.slab \subseteq Nat
  BY ReactorFacts
<1>2. LoopOk /\ WakeOk /\ inbox \in Seq(Cmds) /\ <<>> \o inbox = inbox /\ inbox \o <<>> = inbox
  BY ConcatEmptySeq DEF ReactorInv, WakeOk
<1>3. SUFFICES Line' = Line /\ UNCHANGED <<reWorker, handle, reclaimed>> /\ shard' \in G
        /\ LoopOk' /\ WakeOk'
  BY Carries DEF ReactorInv
<1>4. CASE Reactor!Wait
  <2>1. batch' \subseteq Nat
    BY <1>1, <1>4 DEF Reactor!Wait, Reactor!Wake
  <2>2. Line' = Line
    BY <1>4 DEF Reactor!Wait, Line
  <2> QED
    BY <2>1, <2>2, <1>1, <1>2, <1>4 DEF Reactor!Wait, LoopOk, WakeOk, Reactor!workerVars,
       Reactor!clientVars
<1>5. CASE Reactor!WakeEvent
  <2>1. Line' = Line
    BY <1>5 DEF Reactor!WakeEvent, Line
  <2> QED
    BY <2>1, <1>1, <1>2, <1>5 DEF Reactor!WakeEvent, LoopOk, WakeOk, Reactor!workerVars,
       Reactor!clientVars
<1>6. CASE Reactor!DrainInbox
  <2>1. Line' = Line
    BY <1>2, <1>6 DEF Reactor!DrainInbox, Line
  <2>2. <<>> \in Seq(Cmds)
    OBVIOUS
  <2> QED
    BY <2>1, <2>2, <1>1, <1>2, <1>6 DEF Reactor!DrainInbox, LoopOk, WakeOk, Reactor!workerVars,
       Reactor!clientVars
<1>7. CASE Reactor!NoSweep
  <2>1. Line' = Line
    BY <1>7 DEF Reactor!NoSweep, Line
  <2> QED
    BY <2>1, <1>1, <1>2, <1>7 DEF Reactor!NoSweep, LoopOk, WakeOk, Reactor!workerVars,
       Reactor!clientVars
<1>8. CASE Reactor!WakeCmd
  <2>1. Line' = Line
    BY <1>8 DEF Reactor!WakeCmd, Line
  <2>2. pipe' = TRUE /\ pending' = TRUE
    BY <1>2, <1>8 DEF Reactor!WakeCmd, Reactor!RaiseWake, WakeOk
  <2> QED
    BY <2>1, <2>2, <1>1, <1>2, <1>8 DEF Reactor!WakeCmd, LoopOk, WakeOk, Reactor!clientVars
<1>9. ASSUME NEW c \in Conns, NEW f \in Frames, Reactor!ClientSend(c, f)
      PROVE  Line' = Line /\ UNCHANGED <<reWorker, handle, reclaimed>> /\ shard' \in G
               /\ LoopOk' /\ WakeOk'
  <2>1. Line' = Line
    BY <1>9 DEF Reactor!ClientSend, Line, Reactor!shardVars
  <2>2. wire' \in [Conns -> Seq(Frames)]
    BY <1>2, <1>9 DEF Reactor!ClientSend, LoopOk
  <2> QED
    BY <2>1, <2>2, <1>1, <1>2, <1>9 DEF Reactor!ClientSend, LoopOk, WakeOk, Reactor!workerVars,
       Reactor!shardVars
<1>10. ASSUME NEW c \in Conns, NEW how \in PeerStates, Reactor!ClientChange(c, how)
       PROVE  Line' = Line /\ UNCHANGED <<reWorker, handle, reclaimed>> /\ shard' \in G
                /\ LoopOk' /\ WakeOk'
  <2>1. Line' = Line
    BY <1>10 DEF Reactor!ClientChange, Line, Reactor!shardVars
  <2> QED
    BY <2>1, <1>1, <1>2, <1>10 DEF Reactor!ClientChange, LoopOk, WakeOk, Reactor!workerVars,
       Reactor!shardVars
<1> QED
  BY <1>4, <1>5, <1>6, <1>7, <1>8, <1>9, <1>10

\* A socket that is ready, and the connections parked with frames left.
LEMMA SocketSteps ==
  ASSUME ReactorConstants, ReactorInv,
         Reactor!TakeParked \/ Reactor!Resume \/ \E t \in batch : Reactor!SocketEvent(t)
  PROVE  ReactorInv'
<1> DEFINE W == At(reWorker, "admitted") \cup Asked(Line)
           G == Good(W, Tally(reWorker), handle, reclaimed, Len(shard.slab))
<1>1. /\ shard \in G /\ shard \in Shards /\ Len(shard.slab) \in Nat
           /\ DOMAIN shard.slab = 1..Len(shard.slab)
      /\ Context(W, Tally(reWorker), handle, reclaimed, Len(shard.slab))
  BY ReactorFacts
<1> HIDE DEF W
<1>2. LoopOk /\ WakeOk /\ inbox \in Seq(Cmds) /\ <<>> \o inbox = inbox
  BY ConcatEmptySeq DEF ReactorInv, WakeOk
<1>3. SUFFICES Line' = Line /\ UNCHANGED <<reWorker, handle, reclaimed>> /\ shard' \in G
        /\ LoopOk' /\ WakeOk'
  BY Carries DEF ReactorInv, W
<1>4. CASE Reactor!TakeParked
  <2>1. Line' = Line
    BY <1>2, <1>4 DEF Reactor!TakeParked, Line
  <2>2. shard' \in Shards /\ shard'.gens = shard.gens /\ shard'.free = shard.free
          /\ shard'.total = shard.total
        /\ shard'.perIp = shard.perIp /\ shard'.closed = shard.closed /\ shard'.slab = shard.slab
    <3>1. shard' = [shard EXCEPT !.parked = <<>>] /\ <<>> \in Seq(Tokens)
      BY <1>4 DEF Reactor!TakeParked
    <3> QED
      BY <3>1, <1>1 DEF Shards
  <2>3. shard' \in G
    BY <2>2, <1>1, SameSeats
  <2>4. todo' \in Seq(Tokens)
    BY <1>1, <1>4 DEF Reactor!TakeParked, Shards
  <2> QED
    BY <2>1, <2>3, <2>4, <1>2, <1>4 DEF Reactor!TakeParked, LoopOk, WakeOk, Reactor!workerVars,
       Reactor!clientVars
<1>5. CASE Reactor!Resume
  <2>1. Line' = Line
    BY <1>2, <1>5 DEF Reactor!Resume, Line
  <2>2. Head(todo) \in Nat /\ Head(todo) # 0 /\ Tail(todo) \in Seq(Tokens)
    BY <1>2, <1>5 DEF Reactor!Resume, LoopOk, Tokens
  <2>3. shard' \in G
    <3>1. CASE Head(todo) > Len(shard.slab) \/ ~Reactor!Held(shard, Head(todo))
      BY <3>1, <1>1, <1>5 DEF Reactor!Resume
    <3>2. CASE ~(Head(todo) > Len(shard.slab)) /\ Reactor!Held(shard, Head(todo))
      <4>1. Head(todo) \in 1..Len(shard.slab) /\ shard.slab[Head(todo)] # Reactor!Empty
        BY <3>2, <2>2, <1>1 DEF Reactor!Held
      <4>2. Reactor!ParseFrames(shard, Head(todo)) \in G
        BY <4>1, <1>1, ParseKeeps
      <4> QED
        BY <4>2, <3>2, <1>5 DEF Reactor!Resume
    <3> QED
      BY <3>1, <3>2
  <2> QED
    BY <2>1, <2>2, <2>3, <1>2, <1>5 DEF Reactor!Resume, LoopOk, WakeOk, Reactor!workerVars,
       Reactor!clientVars
<1>6. ASSUME NEW t \in batch, Reactor!SocketEvent(t)
      PROVE  Line' = Line /\ UNCHANGED <<reWorker, handle, reclaimed>> /\ shard' \in G
               /\ LoopOk' /\ WakeOk'
  <2>1. Line' = Line
    BY <1>6 DEF Reactor!SocketEvent, Line
  <2>2. t \in Nat /\ t # 0
    BY <1>2, <1>6 DEF Reactor!SocketEvent, LoopOk, Reactor!Wake
  <2>3. shard' \in G /\ wire' \in [Conns -> Seq(Frames)]
    <3>1. CASE ~Reactor!Held(shard, t)
      BY <3>1, <1>1, <1>2, <1>6 DEF Reactor!SocketEvent, LoopOk
    <3>2. CASE Reactor!Held(shard, t)
      <4> DEFINE c == shard.slab[t].id
                 fin == peer[c] = "gone"
                 r == Reactor!HandleReadable(shard, t, wire[c], fin)
      <4>1. t \in 1..Len(shard.slab) /\ shard.slab[t] # Reactor!Empty
        BY <3>2, <2>2, <1>1 DEF Reactor!Held
      <4>2. c \in Conns
        BY <4>1, <1>1 DEF Shards, Slot
      <4>3. wire[c] \in Seq(Frames) /\ fin \in BOOLEAN /\ <<>> \in Seq(Frames)
        BY <4>2, <1>2 DEF LoopOk
      <4> HIDE DEF c, fin
      <4>4. r \in G
        BY <4>1, <4>3, <1>1, ReadableKeeps
      <4> HIDE DEF r
      <4>5. Reactor!FlushOut(r, t) \in G
        BY <4>1, <4>4, <1>1, FlushKeeps
      <4>6. shard' = Reactor!FlushOut(r, t) /\ wire' = [wire EXCEPT ![c] = <<>>]
        BY <3>2, <1>6 DEF Reactor!SocketEvent, c, fin, r
      <4>7. wire' \in [Conns -> Seq(Frames)]
        BY <4>2, <4>3, <4>6, <1>2 DEF LoopOk
      <4> QED
        BY <4>5, <4>6, <4>7
    <3> QED
      BY <3>1, <3>2
  <2>4. batch' \subseteq Nat
    BY <1>2, <1>6 DEF Reactor!SocketEvent, LoopOk
  <2> QED
    BY <2>1, <2>3, <2>4, <1>2, <1>6 DEF Reactor!SocketEvent, LoopOk, WakeOk, Reactor!workerVars
<1> QED
  BY <1>4, <1>5, <1>6

\* The sweep may give the free tail of the slab back.
LEMMA SweepStep ==
  ASSUME ReactorConstants, ReactorInv, Reactor!Sweep
  PROVE  ReactorInv'
<1> DEFINE W == At(reWorker, "admitted") \cup Asked(Line)
           m == Len(shard.slab)
           N == Tally(reWorker)
           p == Reactor!Swept(shard)
           r == Reactor!ReclaimSlab(p)
<1>1. /\ shard \in Good(W, N, handle, reclaimed, m) /\ m \in Nat
      /\ Context(W, N, handle, reclaimed, m)
  BY ReactorFacts
<1>2. LoopOk /\ WakeOk
  BY DEF ReactorInv
<1>3. Line' = Line /\ UNCHANGED <<reWorker, handle, misrouted>>
  BY DEF Reactor!Sweep, Line, Reactor!workerVars
<1>4. shard' = r /\ reclaimed' = (reclaimed \/ Len(r.slab) < m)
  BY DEF Reactor!Sweep
<1> HIDE DEF W, N, m
<1>5. p \in Good(W, N, handle, reclaimed, m)
  BY <1>1, SweptKeeps
<1> HIDE DEF p
<1>6. r \in Good(W, N, handle, reclaimed \/ Len(r.slab) < m, Len(r.slab))
  BY <1>1, <1>5, ReclaimKeeps
<1> HIDE DEF r
<1>7. shard' \in Good(At(reWorker', "admitted") \cup Asked(Line'), Tally(reWorker'), handle',
        reclaimed', Len(shard'.slab))
  BY <1>3, <1>4, <1>6 DEF W, N
<1>8. LineOk(Line, reWorker, handle)' /\ WorkersOk(reWorker, handle)'
  BY <1>3 DEF ReactorInv, LineOk, WorkersOk
<1>9. SlabInv'
  BY <1>7 DEF SlabInv, Sound
<1>10. LoopOk' /\ WakeOk'
  BY <1>2, <1>3, <1>4 DEF Reactor!Sweep, LoopOk, WakeOk, Reactor!workerVars, Reactor!clientVars
<1> QED
  BY <1>8, <1>9, <1>10 DEF ReactorInv

\* What the three steps of reserve have in common.
LEMMA Reserves ==
  ASSUME ReactorInv, NEW c \in Conns, NEW b \in WorkerStates \ {"pushed", "handed"}, NEW m,
         reWorker[c] \in WorkerStates \ {"pushed", "handed"},
           reWorker' = [reWorker EXCEPT ![c] = b],
         UNCHANGED <<sender, cmds, Reactor!shardVars, Reactor!clientVars>>,
         shard' \in Good(At(reWorker', "admitted") \cup Asked(Line), Tally(reWorker'), handle,
           reclaimed, m)
  PROVE  ReactorInv'
<1>1. LoopOk /\ WakeOk /\ WorkersOk(reWorker, handle) /\ LineOk(Line, reWorker, handle)
  BY DEF ReactorInv
<1>2. Line' = Line /\ handle' = handle /\ reclaimed' = reclaimed
  BY DEF Line, Reactor!shardVars
<1>3. \A d \in Conns : reWorker'[d] = IF d = c
                                      THEN b
                                      ELSE reWorker[d]
  BY <1>1 DEF WorkersOk
<1>4. reWorker' \in [Conns -> WorkerStates]
  BY <1>1 DEF WorkersOk
<1>5. WorkersOk(reWorker', handle')
  BY <1>1, <1>2, <1>3, <1>4 DEF WorkersOk
<1>6. LineOk(Line', reWorker', handle')
  <2>1. \A i \in DOMAIN Line : Line[i].conn \in Conns
    BY <1>1 DEF LineOk, Cmds, AdoptCmds, ConnCmds
  <2> QED
    BY <2>1, <1>1, <1>2, <1>3 DEF LineOk
<1>7. SlabInv'
  <2>1. shard' \in Good(At(reWorker', "admitted") \cup Asked(Line'), Tally(reWorker'), handle',
          reclaimed', Len(shard'.slab))
    BY <1>2 DEF Good
  <2> QED
    BY <2>1 DEF SlabInv, Sound
<1>8. LoopOk' /\ WakeOk'
  <2>1. (\A d \in Conns : reWorker'[d] # "pushed") => (\A d \in Conns : reWorker[d] # "pushed")
    BY <1>3
  <2> QED
    BY <2>1, <1>1 DEF LoopOk, WakeOk, Reactor!shardVars, Reactor!clientVars
<1> QED
  BY <1>5, <1>6, <1>7, <1>8 DEF ReactorInv

\* reserve: the count is read and raised, kept, or given back.
LEMMA ReserveSteps ==
  ASSUME ReactorConstants, ReactorInv, NEW c \in Conns,
         Reactor!ReserveTotal(c) \/ Reactor!ReserveRefused(c) \/ Reactor!ReserveIp(c)
  PROVE  ReactorInv'
<1> DEFINE A == Asked(Line)
           W == At(reWorker, "admitted") \cup A
           N == Tally(reWorker)
           K == Tally(reWorker')
           m == Len(shard.slab)
<1>1. /\ shard \in Good(W, N, handle, reclaimed, m) /\ m \in Nat /\ shard \in Shards
      /\ Context(W, N, handle, reclaimed, m) /\ N \in [making : Nat, refusing : Nat]
  BY ReactorFacts
<1>2. WorkersOk(reWorker, handle) /\ LineOk(Line, reWorker, handle)
  BY DEF ReactorInv
<1>3. /\ reWorker \in [Conns -> WorkerStates] /\ IsFiniteSet(Conns)
      /\ shard.total \in Int /\ MaxTotal \in Nat /\ MaxPerIp \in Nat
      /\ shard.perIp \in [Ips -> Int] /\ IpOf[c] \in Ips
  BY <1>1, <1>2 DEF WorkersOk, Shards, ReactorConstants
<1>4. CASE Reactor!ReserveTotal(c)
  <2> DEFINE b == IF shard.total >= MaxTotal
                    THEN "refusing"
                    ELSE "counted"
  <2>1. reWorker' = [reWorker EXCEPT ![c] = b] /\ reWorker[c] = "idle" /\ b # "idle"
        /\ UNCHANGED <<sender, cmds, Reactor!shardVars, Reactor!clientVars>>
    BY <1>4 DEF Reactor!ReserveTotal
  <2>2. (b = "counted" /\ shard.total < MaxTotal) \/ b = "refusing"
    BY <1>3
  <2>3. shard' = [shard EXCEPT !.total = shard.total + 1]
    BY <1>4 DEF Reactor!ReserveTotal
  <2> HIDE DEF b
  <2>4. Moves(reWorker, reWorker', c, "idle", b)
    BY <2>1, <1>3, Moved
  <2>5. /\ K \in [making : Nat, refusing : Nat]
             /\ K.making + K.refusing = N.making + N.refusing + 1
        /\ K.making = N.making
           \/ (K.making = N.making + 1 /\ K.refusing = N.refusing /\ shard.total < MaxTotal)
    <3>1. CASE b = "counted" /\ shard.total < MaxTotal
      BY <3>1, <2>4 DEF Tally, Moves, WorkerStates
    <3>2. CASE b = "refusing"
      BY <3>2, <2>4 DEF Tally, Moves, WorkerStates
    <3> QED
      BY <3>1, <3>2, <2>2
  <2>8. At(reWorker', "admitted") = At(reWorker, "admitted")
    BY <2>2, <2>4 DEF Moves, WorkerStates
  <2> HIDE DEF K, N, W, m
  <2>6. shard' \in Good(W, K, handle, reclaimed, m)
    <3> DEFINE v == shard.total + 1
    <3>1. v = shard.total + K.making + K.refusing - N.making - N.refusing /\ v \in Int
      BY <2>5, <1>1, <1>3
    <3>2. K.making <= N.making
           \/ (K.making = N.making + 1 /\ K.refusing = N.refusing /\ shard.total < MaxTotal)
      BY <2>5, <1>1
    <3>3. shard' = [shard EXCEPT !.total = v]
      BY <2>3
    <3> HIDE DEF v
    <3> QED
      BY <3>1, <3>2, <3>3, <2>5, <1>1, TallyKeeps
  <2>7. b \in WorkerStates \ {"pushed", "handed"}
          /\ reWorker[c] \in WorkerStates \ {"pushed", "handed"}
    BY <2>1, <2>2 DEF WorkerStates
  <2> QED
    BY <2>1, <2>6, <2>7, <2>8, Reserves DEF W, K
<1>5. CASE Reactor!ReserveRefused(c)
  <2>1. reWorker' = [reWorker EXCEPT ![c] = "refused"] /\ reWorker[c] = "refusing"
        /\ UNCHANGED <<sender, cmds, Reactor!shardVars, Reactor!clientVars>>
        /\ shard' = [shard EXCEPT !.total = shard.total - 1]
    BY <1>5 DEF Reactor!ReserveRefused
  <2>2. Moves(reWorker, reWorker', c, "refusing", "refused")
    BY <2>1, <1>3, Moved
  <2>3. At(reWorker', "admitted") = At(reWorker, "admitted")
    BY <2>2 DEF Moves, WorkerStates
  <2>4. K \in [making : Nat, refusing : Nat] /\ K.making = N.making /\ K.refusing = N.refusing - 1
    BY <2>2 DEF Tally, Moves, WorkerStates
  <2> HIDE DEF K, N, W, m
  <2>5. shard' \in Good(W, K, handle, reclaimed, m)
    <3> DEFINE v == shard.total - 1
    <3>1. v = shard.total + K.making + K.refusing - N.making - N.refusing /\ v \in Int
      BY <2>4, <1>1, <1>3
    <3>2. K.making <= N.making
      BY <2>4, <1>1
    <3>3. shard' = [shard EXCEPT !.total = v]
      BY <2>1
    <3> HIDE DEF v
    <3> QED
      BY <3>1, <3>2, <3>3, <2>4, <1>1, TallyKeeps
  <2>6. "refused" \in WorkerStates \ {"pushed", "handed"}
          /\ reWorker[c] \in WorkerStates \ {"pushed", "handed"}
    BY <2>1 DEF WorkerStates
  <2> QED
    BY <2>1, <2>3, <2>5, <2>6, Reserves DEF W, K
<1>6. CASE Reactor!ReserveIp(c) /\ shard.perIp[IpOf[c]] >= MaxPerIp
  <2>1. reWorker' = [reWorker EXCEPT ![c] = "refusing"] /\ reWorker[c] = "counted"
          /\ shard' = shard
        /\ UNCHANGED <<sender, cmds, Reactor!shardVars, Reactor!clientVars>>
    BY <1>6 DEF Reactor!ReserveIp
  <2>2. Moves(reWorker, reWorker', c, "counted", "refusing")
    BY <2>1, <1>3, Moved
  <2>3. At(reWorker', "admitted") = At(reWorker, "admitted")
    BY <2>2 DEF Moves, WorkerStates
  <2>4. K \in [making : Nat, refusing : Nat] /\ K.making = N.making - 1
          /\ K.refusing = N.refusing + 1
    BY <2>2 DEF Tally, Moves, WorkerStates
  <2> HIDE DEF K, N, W, m
  <2>5. shard' \in Good(W, K, handle, reclaimed, m)
    <3>1. shard.total = shard.total + K.making + K.refusing - N.making - N.refusing
      BY <2>4, <1>1, <1>3
    <3>2. K.making <= N.making
      BY <2>4, <1>1
    <3>3. shard' = [shard EXCEPT !.total = shard.total]
      BY <2>1, <1>1 DEF Shards
    <3> QED
      BY <3>1, <3>2, <3>3, <2>4, <1>1, <1>3, TallyKeeps
  <2>6. "refusing" \in WorkerStates \ {"pushed", "handed"}
          /\ reWorker[c] \in WorkerStates \ {"pushed", "handed"}
    BY <2>1 DEF WorkerStates
  <2> QED
    BY <2>1, <2>3, <2>5, <2>6, Reserves DEF W, K
<1>7. CASE Reactor!ReserveIp(c) /\ ~(shard.perIp[IpOf[c]] >= MaxPerIp)
  <2>1. reWorker' = [reWorker EXCEPT ![c] = "admitted"] /\ reWorker[c] = "counted"
        /\ shard' = [shard EXCEPT !.perIp = [shard.perIp EXCEPT ![IpOf[c]]
             = shard.perIp[IpOf[c]] + 1]]
        /\ UNCHANGED <<sender, cmds, Reactor!shardVars, Reactor!clientVars>>
    BY <1>7 DEF Reactor!ReserveIp
  <2>2. Moves(reWorker, reWorker', c, "counted", "admitted")
    BY <2>1, <1>3, Moved
  <2>3. At(reWorker', "admitted") = At(reWorker, "admitted") \cup {c}
          /\ c \notin At(reWorker, "admitted")
    BY <2>2 DEF Moves
  <2>4. K \in [making : Nat, refusing : Nat] /\ K.making = N.making - 1 /\ K.refusing = N.refusing
    BY <2>2 DEF Tally, Moves, WorkerStates
  <2>5. c \notin A
    <3> SUFFICES ASSUME NEW i \in DOMAIN Line, Line[i] = [kind |-> "adopt", conn |-> c]
                 PROVE  FALSE
      BY DEF Asked
    <3>1. Line[i].kind = "adopt" /\ Line[i].conn = c
      OBVIOUS
    <3> QED
      BY <3>1, <2>1, <1>2 DEF LineOk
  <2>6. handle[c][1] = 0 /\ shard.perIp[IpOf[c]] < MaxPerIp
    BY <2>1, <1>2, <1>3, <1>7 DEF WorkersOk
  <2>7. c \notin W /\ At(reWorker', "admitted") \cup A = W \cup {c}
    BY <2>3, <2>5
  <2> HIDE DEF K, N, W, m
  <2>8. shard' \in Good(W \cup {c}, K, handle, reclaimed, m)
    BY <2>1, <2>4, <2>6, <2>7, <1>1, AdmitKeeps
  <2>9. "admitted" \in WorkerStates \ {"pushed", "handed"}
          /\ reWorker[c] \in WorkerStates \ {"pushed", "handed"}
    BY <2>1 DEF WorkerStates
  <2> QED
    BY <2>1, <2>7, <2>8, <2>9, Reserves DEF K
<1> QED
  BY <1>4, <1>5, <1>6, <1>7

\* inject: a command joins the line, then its thread raises the flag.
LEMMA InjectSteps ==
  ASSUME ReactorConstants, ReactorInv, NEW c \in Conns,
         \/ Reactor!InjectAdopt(c) \/ Reactor!WakeAdopt(c)
         \/ \E kind \in {"send", "close"} : Reactor!InjectCmd(c, kind)
  PROVE  ReactorInv'
<1> DEFINE m == Len(shard.slab)
           G(W) == Good(W, Tally(reWorker), handle, reclaimed, m)
           t == IF rePc = "commands" THEN todo ELSE <<>>
<1>1. shard \in G(At(reWorker, "admitted") \cup Asked(Line))
  BY ReactorFacts
<1>2. /\ LoopOk /\ WakeOk /\ WorkersOk(reWorker, handle) /\ LineOk(Line, reWorker, handle)
      /\ reWorker \in [Conns -> WorkerStates] /\ IsFiniteSet(Conns)
      /\ inbox \in Seq(Cmds) /\ t \in Seq(Cmds) /\ Line = t \o inbox
  BY DEF ReactorInv, WorkersOk, ReactorConstants, WakeOk, LoopOk, Line
<1>3. ASSUME NEW x \in Cmds, inbox' = Append(inbox, x), UNCHANGED <<rePc, todo>>
      PROVE  Line' = Append(Line, x) /\ inbox' \in Seq(Cmds)
  <2>1. Line' = t \o Append(inbox, x)
    BY <1>3 DEF Line
  <2>2. t \o Append(inbox, x) = Append(t \o inbox, x)
    <3> HIDE DEF t
    <3>1. <<x>> \in Seq(Cmds) /\ t \o inbox \in Seq(Cmds)
      BY <1>2
    <3> QED
      BY <3>1, <1>2, AppendIsConcat, ConcatAssociative
  <2>3. inbox' \in Seq(Cmds)
    BY <1>2, <1>3
  <2> HIDE DEF t
  <2> QED
    BY <2>1, <2>2, <2>3, <1>2
<1>4. CASE Reactor!InjectAdopt(c)
  <2> DEFINE x == [kind |-> "adopt", conn |-> c]
  <2>1. /\ reWorker' = [reWorker EXCEPT ![c] = "pushed"] /\ reWorker[c] = "admitted"
        /\ inbox' = Append(inbox, x) /\ x \in Cmds /\ x.kind = "adopt" /\ x.conn = c
        /\ UNCHANGED <<sender, cmds, pipe, pending, rePc, batch, todo, shard, handle, misrouted,
             reclaimed, Reactor!clientVars>>
    BY <1>4 DEF Reactor!InjectAdopt, Cmds, AdoptCmds
  <2> HIDE DEF x
  <2>2. Line' = Append(Line, x) /\ inbox' \in Seq(Cmds)
    BY <2>1, <1>3
  <2>3. Moves(reWorker, reWorker', c, "admitted", "pushed")
    BY <2>1, <1>2, Moved
  <2>4. /\ \A d \in Conns : reWorker[d] \in {"pushed", "handed"}
             => reWorker'[d] \in {"pushed", "handed"}
        /\ reWorker'[c] = "pushed" /\ \A d \in Conns : d # c => reWorker'[d] = reWorker[d]
        /\ reWorker' \in [Conns -> WorkerStates]
    BY <2>1, <1>2 DEF WorkerStates
  <2>5. c \notin Asked(Line) /\ handle[c][1] = 0
    <3>1. handle[c][1] = 0
      BY <2>1, <1>2 DEF WorkersOk
    <3>2. c \notin Asked(Line)
      <4> SUFFICES ASSUME NEW i \in DOMAIN Line, Line[i] = [kind |-> "adopt", conn |-> c]
                   PROVE  FALSE
        BY DEF Asked
      <4>1. Line[i].kind = "adopt" /\ Line[i].conn = c
        OBVIOUS
      <4> QED
        BY <4>1, <2>1, <1>2 DEF LineOk
    <3> QED
      BY <3>1, <3>2
  <2>6. LineOk(Append(Line, x), reWorker', handle)
          /\ Asked(Append(Line, x)) = Asked(Line) \cup {c}
    <3>1. IF x.kind = "adopt"
          THEN reWorker'[x.conn] \in {"pushed", "handed"} /\ handle[x.conn][1] = 0
            /\ x.conn \notin Asked(Line)
          ELSE handle[x.conn] = <<x.token, x.gen>>
      BY <2>1, <2>4, <2>5
    <3>2. x \in Cmds /\ LineOk(Line, reWorker, handle) /\ x.kind = "adopt" /\ x.conn = c
          /\ \A d \in Conns : reWorker[d] \in {"pushed", "handed"}
               => reWorker'[d] \in {"pushed", "handed"}
      BY <2>1, <2>4, <1>2
    <3>3. Joins(x, Line, reWorker, handle, reWorker')
      BY <3>1, <3>2 DEF Joins
    <3>4. LineOk(Append(Line, x), reWorker', handle)
      BY <3>2, <3>3, LineAppend
    <3>5. Asked(Append(Line, x)) = IF x.kind = "adopt"
                                     THEN Asked(Line) \cup {x.conn}
                                     ELSE Asked(Line)
      BY <3>2, <3>3, LineAppend
    <3> QED
      BY <3>2, <3>4, <3>5
  <2>7. At(reWorker', "admitted") \cup Asked(Line') = At(reWorker, "admitted") \cup Asked(Line)
    BY <2>2, <2>3, <2>6 DEF Moves
  <2>8. Tally(reWorker') = Tally(reWorker)
    BY <2>3 DEF Tally, Moves, WorkerStates
  <2>9. shard' \in Good(At(reWorker', "admitted") \cup Asked(Line'), Tally(reWorker'), handle',
          reclaimed', Len(shard'.slab))
    BY <2>1, <2>7, <2>8, <1>1
  <2>10. LineOk(Line', reWorker', handle') /\ WorkersOk(reWorker', handle')
    BY <2>1, <2>2, <2>4, <2>6, <1>2 DEF WorkersOk
  <2>11. LoopOk' /\ WakeOk'
    BY <2>1, <2>2, <2>4, <1>2 DEF LoopOk, WakeOk, Reactor!clientVars
  <2> QED
    BY <2>9, <2>10, <2>11 DEF ReactorInv, SlabInv, Sound
<1>5. CASE Reactor!WakeAdopt(c)
  <2>1. /\ reWorker' = [reWorker EXCEPT ![c] = "handed"] /\ reWorker[c] = "pushed"
        /\ UNCHANGED <<sender, cmds, inbox, rePc, batch, todo, shard, handle, misrouted,
             reclaimed, Reactor!clientVars>>
        /\ pipe' = TRUE /\ pending' = TRUE
    BY <1>2, <1>5 DEF Reactor!WakeAdopt, Reactor!RaiseWake, WakeOk
  <2>2. Line' = Line
    BY <2>1 DEF Line
  <2>3. Moves(reWorker, reWorker', c, "pushed", "handed")
    BY <2>1, <1>2, Moved
  <2>4. /\ \A d \in Conns :
             reWorker[d] \in {"pushed", "handed"} <=> reWorker'[d] \in {"pushed", "handed"}
        /\ reWorker' \in [Conns -> WorkerStates]
    BY <2>1, <1>2 DEF WorkerStates
  <2>5. At(reWorker', "admitted") = At(reWorker, "admitted") /\ Tally(reWorker') = Tally(reWorker)
    BY <2>3 DEF Tally, Moves, WorkerStates
  <2>6. shard' \in Good(At(reWorker', "admitted") \cup Asked(Line'), Tally(reWorker'), handle',
          reclaimed', Len(shard'.slab))
    BY <2>1, <2>2, <2>5, <1>1
  <2>7. WorkersOk(reWorker', handle')
    BY <2>1, <2>4, <1>2 DEF WorkersOk
  <2>8. LineOk(Line', reWorker', handle')
    <3>1. \A i \in DOMAIN Line : Line[i].conn \in Conns
      BY <1>2 DEF LineOk, Cmds, AdoptCmds, ConnCmds
    <3> QED
      BY <3>1, <2>1, <2>2, <2>4, <1>2 DEF LineOk
  <2>9. LoopOk' /\ WakeOk'
    BY <2>1, <1>2 DEF LoopOk, WakeOk, Reactor!clientVars
  <2> QED
    BY <2>6, <2>7, <2>8, <2>9 DEF ReactorInv, SlabInv, Sound
<1>6. ASSUME NEW kind \in {"send", "close"}, Reactor!InjectCmd(c, kind) PROVE ReactorInv'
  <2> DEFINE x == [kind |-> kind, conn |-> c, token |-> handle[c][1], gen |-> handle[c][2]]
  <2>1. /\ handle[c] \in Nat \X Nat /\ handle[c][1] # 0 /\ sender' = TRUE
        /\ inbox' = Append(inbox, x)
        /\ UNCHANGED <<reWorker, pipe, pending, rePc, batch, todo, shard, handle, misrouted,
             reclaimed, Reactor!clientVars>>
    BY <1>2, <1>6 DEF Reactor!InjectCmd, WorkersOk
  <2>2. x \in Cmds /\ x.kind # "adopt" /\ x.conn = c /\ handle[c] = <<x.token, x.gen>>
    BY <2>1 DEF Cmds, ConnCmds, Tokens
  <2> HIDE DEF x
  <2>3. Line' = Append(Line, x) /\ inbox' \in Seq(Cmds)
    BY <2>1, <2>2, <1>3
  <2>4. LineOk(Append(Line, x), reWorker, handle) /\ Asked(Append(Line, x)) = Asked(Line)
    <3>1. Joins(x, Line, reWorker, handle, reWorker)
      BY <2>2 DEF Joins
    <3> QED
      BY <3>1, <2>2, <1>2, LineAppend
  <2>5. shard' \in Good(At(reWorker', "admitted") \cup Asked(Line'), Tally(reWorker'), handle',
          reclaimed', Len(shard'.slab))
    BY <2>1, <2>3, <2>4, <1>1
  <2>6. LineOk(Line', reWorker', handle') /\ WorkersOk(reWorker', handle')
    BY <2>1, <2>3, <2>4, <1>2 DEF WorkersOk
  <2>7. LoopOk' /\ WakeOk'
    BY <2>1, <2>3, <1>2 DEF LoopOk, WakeOk, Reactor!clientVars
  <2> QED
    BY <2>5, <2>6, <2>7 DEF ReactorInv, SlabInv, Sound
<1> QED
  BY <1>4, <1>5, <1>6

\* A command finds the connection of its handle, or nothing.
LEMMA CommandStep ==
  ASSUME ReactorConstants, ReactorInv, Reactor!Command
  PROVE  ReactorInv'
<1> DEFINE W == At(reWorker, "admitted") \cup Asked(Line)
           m == Len(shard.slab)
           G == Good(W, Tally(reWorker), handle, reclaimed, m)
           cmd == Head(todo)
<1>1. /\ shard \in G /\ m \in Nat /\ Context(W, Tally(reWorker), handle, reclaimed, m)
      /\ DOMAIN shard.slab = 1..m
  BY ReactorFacts
<1>2. /\ LoopOk /\ WakeOk /\ WorkersOk(reWorker, handle) /\ LineOk(Line, reWorker, handle)
      /\ inbox \in Seq(Cmds) /\ todo \in Seq(Cmds) /\ todo # <<>> /\ Line = todo \o inbox
      /\ cmd.kind # "adopt"
  BY DEF ReactorInv, WakeOk, LoopOk, Line, Reactor!Command
<1>3. Line # <<>> /\ Head(Line) = cmd /\ Tail(Line) = Tail(todo) \o inbox
        /\ Tail(todo) \in Seq(Cmds)
  BY <1>2
<1>4. Line' = Tail(Line)
        /\ UNCHANGED <<reWorker, handle, reclaimed, rePc, inbox, pipe, pending, sender, batch,
             wire>>
  BY <1>2, <1>3 DEF Reactor!Command, Line, Reactor!workerVars, Reactor!clientVars
<1>5. LineOk(Tail(Line), reWorker, handle) /\ cmd \in Cmds /\ Asked(Tail(Line)) = Asked(Line)
  <2>1. IF Head(Line).kind = "adopt" THEN \A d \in Conns \ {Head(Line).conn} : handle[d]
          = handle[d]
        ELSE handle = handle
    OBVIOUS
  <2> QED
    BY <2>1, <1>2, <1>3, LineTail
<1>6. cmd.conn \in Conns /\ cmd.token \in Nat /\ cmd.token # 0
        /\ handle[cmd.conn] = <<cmd.token, cmd.gen>>
  <2>1. cmd \in ConnCmds
    BY <1>2, <1>5 DEF Cmds, AdoptCmds
  <2>2. 1 \in DOMAIN Line /\ Line[1] = cmd
    BY <1>2, <1>3 DEF LineOk
  <2> QED
    BY <2>1, <2>2, <1>2 DEF LineOk, ConnCmds, Tokens
<1> HIDE DEF W, cmd
<1>7. shard' \in G /\ (misrouted' => reclaimed)
  <2>1. CASE ~Reactor!Live(shard, cmd.token, cmd.gen)
    BY <2>1, <1>1, <1>2 DEF Reactor!Command, cmd, LoopOk
  <2>2. CASE Reactor!Live(shard, cmd.token, cmd.gen)
    <3>1. cmd.token \in 1..m /\ shard.gens[cmd.token] = cmd.gen
            /\ shard.slab[cmd.token] # Reactor!Empty
      BY <2>2, <1>1, <1>6 DEF Reactor!Live
    <3>2. Reactor!Enqueue(shard, cmd.token) \in G /\ Reactor!BeginClose(shard, cmd.token) \in G
      BY <3>1, <1>1, EnqueueKeeps, CloseKeeps
    <3>3. shard' \in G
      BY <2>2, <3>2 DEF Reactor!Command, cmd
    <3>4. shard.slab[cmd.token].id # cmd.conn => reclaimed
      <4> SUFFICES ASSUME ~reclaimed PROVE shard.slab[cmd.token].id = cmd.conn
        OBVIOUS
      <4>1. OwnersOk(shard, handle, reclaimed) /\ shard \in Shards
        BY <1>1 DEF Good
      <4>2. handle[cmd.conn][1] = cmd.token /\ handle[cmd.conn][2] = cmd.gen
        BY <1>6
      <4>3. shard.gens[cmd.token] \in Nat
        <5>1. Len(shard.gens) = m
          BY <1>1 DEF Good, SlabOk
        <5> QED
          BY <5>1, <3>1, <4>1 DEF Shards
      <4>4. cmd.conn \in Seated(shard)
        BY <4>1, <4>2, <4>3, <3>1, <1>6 DEF OwnersOk
      <4>5. PICK u \in DOMAIN shard.slab : shard.slab[u] # Reactor!Empty
              /\ shard.slab[u].id = cmd.conn
        BY <4>4 DEF Seated
      <4>6. handle[cmd.conn] = <<u, shard.gens[u]>>
        BY <4>1, <4>5 DEF OwnersOk
      <4>7. u = cmd.token
        BY <4>2, <4>6
      <4> QED
        BY <4>5, <4>7
    <3> QED
      BY <2>2, <3>3, <3>4, <1>2 DEF Reactor!Command, cmd, LoopOk
  <2> QED
    BY <2>1, <2>2
<1>8. shard' \in Good(At(reWorker', "admitted") \cup Asked(Line'), Tally(reWorker'), handle',
        reclaimed', Len(shard'.slab))
  <2>1. Len(shard'.slab) = m
    BY <1>7 DEF Good
  <2> QED
    BY <2>1, <1>4, <1>5, <1>7 DEF W
<1>9. LineOk(Line', reWorker', handle') /\ WorkersOk(reWorker', handle')
  BY <1>2, <1>4, <1>5
<1>10. LoopOk' /\ WakeOk'
  <2>1. todo' \in Seq(Cmds) /\ rePc = "commands"
    BY <1>3 DEF Reactor!Command
  <2> QED
    BY <2>1, <1>2, <1>4, <1>7 DEF LoopOk, WakeOk
<1> QED
  BY <1>8, <1>9, <1>10 DEF ReactorInv, SlabInv, Sound

\* adopt: the connection leaves the line for a slot of its own, or is given up.
LEMMA AdoptStep ==
  ASSUME ReactorConstants, ReactorInv, Reactor!Adopt
  PROVE  ReactorInv'
<1> DEFINE W == At(reWorker, "admitted") \cup Asked(Line)
           m == Len(shard.slab)
           n == Tally(reWorker)
           c == Head(todo).conn
           slot == Reactor!TakeSlot(shard)
<1>1. /\ shard \in Good(W, n, handle, reclaimed, m) /\ m \in Nat
           /\ Context(W, n, handle, reclaimed, m)
      /\ n \in [making : Nat, refusing : Nat]
  BY ReactorFacts
<1>2. /\ LoopOk /\ WakeOk /\ WorkersOk(reWorker, handle) /\ LineOk(Line, reWorker, handle)
      /\ inbox \in Seq(Cmds) /\ todo \in Seq(Cmds) /\ todo # <<>> /\ Line = todo \o inbox
      /\ Head(todo).kind = "adopt" /\ handle \in [Conns -> Nat \X Nat] /\ reclaimed \in BOOLEAN
      /\ wire \in [Conns -> Seq(Frames)]
  BY DEF ReactorInv, WakeOk, LoopOk, Line, Reactor!Adopt, WorkersOk
<1>3. Line # <<>> /\ Head(Line) = Head(todo) /\ Tail(Line) = Tail(todo) \o inbox
        /\ Tail(todo) \in Seq(Cmds)
  BY <1>2
<1>4. Line' = Tail(Line)
        /\ UNCHANGED <<reWorker, reclaimed, misrouted, rePc, inbox, pipe, pending, sender, batch>>
      /\ todo' = Tail(todo)
  BY <1>2, <1>3 DEF Reactor!Adopt, Line, Reactor!workerVars
<1>5. c \in Conns /\ c \in Asked(Line) /\ handle[c][1] = 0 /\ reWorker[c] \in {"pushed", "handed"}
  <2>1. 1 \in DOMAIN Line /\ Line[1] = Head(todo) /\ Head(todo) \in Cmds
    BY <1>2, <1>3 DEF LineOk
  <2>2. Head(todo) = [kind |-> "adopt", conn |-> c] /\ c \in Conns
    BY <2>1, <1>2 DEF Cmds, AdoptCmds, ConnCmds
  <2>3. handle[c][1] = 0 /\ reWorker[c] \in {"pushed", "handed"}
    BY <2>1, <2>2, <1>2 DEF LineOk
  <2> QED
    BY <2>1, <2>2, <2>3 DEF Asked
<1>6. c \in W /\ W \ {c} = At(reWorker, "admitted") \cup (Asked(Line) \ {c})
  BY <1>5 DEF At
<1> HIDE DEF W, m, n
<1>a. Taken(Reactor!TakeSlot(shard), W, n, handle, reclaimed)
  BY <1>1, SlotTaken
<1>7. PICK k \in Nat : \E g \in Good(W, n, handle, reclaimed, k) :
        /\ Len(g.free) # 0 /\ slot.token = g.free[Len(g.free)]
        /\ slot.st = [g EXCEPT !.free = SubSeq(g.free, 1, Len(g.free) - 1)]
        /\ Append(SubSeq(g.free, 1, Len(g.free) - 1), g.free[Len(g.free)]) = g.free
  BY <1>a DEF Taken
<1>8. PICK g \in Good(W, n, handle, reclaimed, k) :
        /\ Len(g.free) # 0 /\ slot.token = g.free[Len(g.free)]
        /\ slot.st = [g EXCEPT !.free = SubSeq(g.free, 1, Len(g.free) - 1)]
        /\ Append(SubSeq(g.free, 1, Len(g.free) - 1), g.free[Len(g.free)]) = g.free
  BY <1>7
<1> HIDE DEF slot, c
<1>9. Context(W, n, handle, reclaimed, k) /\ g \in Shards
  BY <1>1, <1>8 DEF Context, Good
<1> DEFINE fr == SubSeq(g.free, 1, Len(g.free) - 1)
           t == slot.token
           x == [id |-> c, rbuf |-> wire[c], out |-> 0, closing |-> FALSE, left |-> 0,
                 peerClosed |-> FALSE, quiet |-> 0, awaiting |-> FALSE]
           r == [g EXCEPT !.free = fr, !.slab = [g.slab EXCEPT ![t] = x]]
           h == [handle EXCEPT ![c] = <<t, g.gens[t]>>]
<1>10. slot.st = [g EXCEPT !.free = fr] /\ slot.st.gens = g.gens /\ slot.st.slab = g.slab
       /\ [slot.st EXCEPT !.free = Append(slot.st.free, t)] = g
  <2>1. slot.st = [g EXCEPT !.free = fr] /\ t = g.free[Len(g.free)] /\ Append(fr, t) = g.free
    BY <1>8
  <2> HIDE DEF fr, t
  <2>2. slot.st.gens = g.gens /\ slot.st.slab = g.slab /\ slot.st.free = fr
    BY <2>1, <1>9 DEF Shards
  <2>3. [slot.st EXCEPT !.free = Append(slot.st.free, t)] = [g EXCEPT !.free = g.free]
    BY <2>1, <2>2, <1>9 DEF Shards
  <2> QED
    BY <2>1, <2>2, <2>3, <1>9 DEF Shards
<1>11. x \in Slot /\ x.id = c
  <2>1. 0 \in 0..MaxBuffered /\ 0 \in Nat /\ wire[c] \in Seq(Frames)
    BY <1>2, <1>5 DEF ReactorConstants
  <2> QED
    BY <2>1, <1>5 DEF Slot
<1> HIDE DEF x
<1>12. /\ t \in 1..k /\ t \in Nat /\ g.gens[t] \in Nat
       /\ r \in Good(W \ {c}, n, h, reclaimed, k) /\ r.slab[t] = x
  <2>1. Seats(g, handle, c, x, t, r, h)
    BY <1>8 DEF Seats
  <2>2. Context(W, n, handle, reclaimed, k) /\ Len(g.free) # 0 /\ c \in W /\ handle[c][1] = 0
        /\ x \in Slot /\ x.id = c
    BY <1>5, <1>6, <1>8, <1>9, <1>11
  <2> HIDE DEF t, r, h
  <2>3. Seat(g, W \ {c}, n, h, reclaimed, k, x, t, r)
    BY <2>1, <2>2, <1>8, SeatKeeps
  <2> QED
    BY <2>3 DEF Seat
<1>13. h \in [Conns -> Nat \X Nat] /\ \A d \in Conns \ {c} : h[d] = handle[d]
  BY <1>2, <1>12
<1>14. Reactor!Adopted(slot.st, t, c, wire[c]) = Reactor!ParseFrames(r, t)
  <2>1. [slot.st EXCEPT !.slab[t] = x] = r
    <3> HIDE DEF fr, t
    <3> QED
      BY <1>9, <1>10 DEF Shards
  <2> HIDE DEF r, t
  <2> QED
    BY <2>1 DEF Reactor!Adopted, x
<1> HIDE DEF fr, t, r, h
<1>15. Reactor!ParseFrames(r, t) \in Good(W \ {c}, n, h, reclaimed, k)
  <2>1. Context(W \ {c}, n, h, reclaimed, k)
    BY <1>9, <1>13 DEF Context
  <2>2. r.slab[t] # Reactor!Empty
    BY <1>11, <1>12, SlotNotEmpty
  <2> QED
    BY <2>1, <2>2, <1>12, ParseKeeps
<1>16. Reactor!Release(shard, c) \in Good(W \ {c}, n, handle, reclaimed, m)
       /\ Reactor!Release(g, c) \in Good(W \ {c}, n, handle, reclaimed, k)
  BY <1>1, <1>6, <1>8, <1>9, ReleaseKeeps
<1>17. PICK l : /\ shard' \in Good(W \ {c}, n, handle', reclaimed, l)
                /\ wire' \in [Conns -> Seq(Frames)] /\ handle' \in [Conns -> Nat \X Nat]
                /\ \A d \in Conns \ {c} : handle'[d] = handle[d]
  <2>1. CASE /\ shard' = Reactor!Adopted(slot.st, t, c, wire[c])
                  /\ wire' = [wire EXCEPT ![c] = <<>>]
             /\ handle' = [handle EXCEPT ![c] = <<t, slot.st.gens[t]>>]
    <3>1. handle' = h
      BY <2>1, <1>10 DEF h
    <3>2. wire' \in [Conns -> Seq(Frames)]
      <4>1. <<>> \in Seq(Frames)
        OBVIOUS
      <4> QED
        BY <4>1, <2>1, <1>2
    <3> QED
      BY <3>1, <3>2, <2>1, <1>13, <1>14, <1>15
  <2>2. CASE shard' = Reactor!Release(shard, c) /\ UNCHANGED <<handle, wire>>
    BY <2>2, <1>2, <1>16
  <2>3. CASE shard' = Reactor!Release(g, c) /\ UNCHANGED <<handle, wire>>
    BY <2>3, <1>2, <1>16
  <2> QED
    BY <2>1, <2>2, <2>3, <1>10 DEF Reactor!Adopt, slot, c, t
<1>18. LineOk(Line', reWorker', handle') /\ Asked(Line') = Asked(Line) \ {c}
  <2>1. IF Head(Line).kind = "adopt" THEN \A d \in Conns \ {Head(Line).conn} : handle'[d]
          = handle[d]
        ELSE handle' = handle
    BY <1>2, <1>3, <1>17 DEF c
  <2>2. LineOk(Tail(Line), reWorker, handle')
        /\ Asked(Tail(Line)) = IF Head(Line).kind = "adopt"
                                 THEN Asked(Line) \ {Head(Line).conn}
                                 ELSE Asked(Line)
    BY <2>1, <1>2, <1>3, LineTail
  <2> QED
    BY <2>2, <1>2, <1>3, <1>4 DEF c
<1>19. shard' \in Good(At(reWorker', "admitted") \cup Asked(Line'), Tally(reWorker'), handle',
         reclaimed', Len(shard'.slab))
  <2>1. Len(shard'.slab) = l
    BY <1>17 DEF Good
  <2> QED
    BY <2>1, <1>4, <1>6, <1>17, <1>18 DEF n
<1>20. WorkersOk(reWorker', handle')
  BY <1>2, <1>4, <1>5, <1>17 DEF WorkersOk
<1>21. LoopOk' /\ WakeOk'
  BY <1>2, <1>3, <1>4, <1>17 DEF LoopOk, WakeOk, Reactor!Adopt
<1> QED
  BY <1>18, <1>19, <1>20, <1>21 DEF ReactorInv, SlabInv, Sound

\* The invariant holds at the start and is kept.
LEMMA ReactorInit ==
  ASSUME ReactorConstants, Reactor!Init PROVE ReactorInv
<1>1. Line = <<>>
  BY DEF Reactor!Init, Line
<1>2. LineOk(Line, reWorker, handle) /\ Asked(Line) = {}
  BY <1>1 DEF LineOk, Asked
<1>3. WorkersOk(reWorker, handle)
  <2>1. handle = [c \in Conns |-> <<0, 0>>] /\ reWorker = [c \in Conns |-> "idle"]
    BY DEF Reactor!Init
  <2>2. \A c \in Conns : handle[c][1] = 0 /\ handle[c] \in Nat \X Nat
    BY <2>1
  <2> QED
    BY <2>1, <2>2 DEF WorkersOk, WorkerStates
<1>4. \A d \in WorkerStates \ {"idle"} : At(reWorker, d) = {}
  BY DEF Reactor!Init, At
<1>5. At(reWorker, "admitted") = {} /\ Tally(reWorker) = [making |-> 0, refusing |-> 0]
  <2>1. At(reWorker, "admitted") = {} /\ At(reWorker, "counted") = {}
          /\ At(reWorker, "refusing") = {}
    BY <1>4 DEF WorkerStates
  <2> QED
    BY <2>1, FS_EmptySet DEF Tally
<1>6. SlabInv
  <2> DEFINE n == [making |-> 0, refusing |-> 0]
  <2>1. /\ shard.slab = <<>> /\ shard.gens = <<>> /\ shard.free = <<>> /\ shard.total = 0
        /\ shard.perIp = [i \in Ips |-> 0] /\ shard.closed = [c \in Conns |-> 0]
             /\ shard \in Shards
    BY DEF Reactor!Init, Shards
  <2>2. Seated(shard) = {}
    BY <2>1 DEF Seated
  <2>3. SlabOk(shard)
    BY <2>1 DEF SlabOk
  <2>4. BooksOk(shard, {}, n)
    <3>1. \A i \in Ips : {c \in {} \cup Seated(shard) : IpOf[c] = i} = {}
      BY <2>2
    <3>2. MaxTotal \in Nat /\ MaxPerIp \in Nat /\ Cardinality({}) = 0
            /\ {} \cup Seated(shard) = {}
      BY <2>2, FS_EmptySet DEF ReactorConstants
    <3> QED
      BY <3>1, <3>2, <2>1, <2>2 DEF BooksOk
  <2>5. \A c \in Conns : handle[c][1] = 0
    BY DEF Reactor!Init
  <2>6. OwnersOk(shard, handle, reclaimed)
    BY <2>1, <2>2, <2>5 DEF OwnersOk
  <2>7. shard \in Good({}, n, handle, reclaimed, Len(shard.slab))
    BY <2>1, <2>3, <2>4, <2>6 DEF Good
  <2>8. At(reWorker, "admitted") \cup Asked(Line) = {}
    BY <1>2, <1>5
  <2> QED
    BY <2>7, <2>8, <1>5 DEF SlabInv, Sound
<1>7. LoopOk /\ WakeOk
  <2>1. <<>> \in Seq(Frames) /\ <<>> \in Seq(Cmds)
    OBVIOUS
  <2> QED
    BY <2>1 DEF Reactor!Init, LoopOk, WakeOk
<1> QED
  BY <1>2, <1>3, <1>6, <1>7 DEF ReactorInv

\* Every action of the shard, its workers and its peers keeps the invariant.
LEMMA ReactorNext ==
  ASSUME ReactorConstants, ReactorInv, [Reactor!Next]_(Reactor!vars) PROVE ReactorInv'
<1>1. CASE Reactor!ShardStep \/ Reactor!NoSweep \/ Reactor!Sweep \/ Reactor!WakeCmd
  BY <1>1, QuietSteps, SocketSteps, SweepStep, AdoptStep, CommandStep DEF Reactor!ShardStep
<1>2. ASSUME NEW c \in Conns,
             \/ Reactor!WorkerStep(c)
             \/ \E kind \in {"send", "close"} : Reactor!InjectCmd(c, kind)
      PROVE  ReactorInv'
  BY <1>2, ReserveSteps, InjectSteps DEF Reactor!WorkerStep
<1>3. ASSUME NEW c \in Conns,
             \/ \E f \in Frames : Reactor!ClientSend(c, f)
             \/ \E how \in PeerStates : Reactor!ClientChange(c, how)
      PROVE  ReactorInv'
  BY <1>3, QuietSteps
<1>4. CASE UNCHANGED Reactor!vars
  <2>1. Line' = Line /\ UNCHANGED <<reWorker, handle, reclaimed, shard>>
    BY <1>4 DEF Reactor!vars, Line
  <2>2. LineOk(Line, reWorker, handle)' /\ WorkersOk(reWorker, handle)' /\ SlabInv'
    BY <2>1, ReactorFacts, Carries
  <2>3. LoopOk' /\ WakeOk'
    BY <1>4 DEF Reactor!vars, ReactorInv, LoopOk, WakeOk
  <2> QED
    BY <2>2, <2>3 DEF ReactorInv
<1> QED
  BY <1>1, <1>2, <1>3, <1>4 DEF Reactor!Next

\* What the invariant says of the properties.
LEMMA ReactorSafe ==
  ASSUME ReactorConstants, ReactorInv
  PROVE  /\ Reactor!TypeOK /\ Reactor!SlotsAccountedFor /\ Reactor!CapsAreHard
              /\ Reactor!NoLostWake
         /\ Reactor!ClosedOnce /\ Reactor!HandlesReachTheirOwner
<1> DEFINE W == At(reWorker, "admitted") \cup Asked(Line)
           X == W \cup Seated(shard)
           n == Tally(reWorker)
<1>1. /\ shard \in Shards /\ SlabOk(shard) /\ BooksOk(shard, W, n)
           /\ OwnersOk(shard, handle, reclaimed)
      /\ Len(shard.slab) \in Nat /\ DOMAIN shard.slab = 1..Len(shard.slab)
  BY ReactorFacts DEF Good
<1>2. LoopOk /\ WakeOk /\ inbox \in Seq(Cmds) /\ LineOk(Line, reWorker, handle)
  BY DEF ReactorInv, WakeOk
<1>3. Reactor!Attached = Seated(shard)
  BY DEF Reactor!Attached, Seated, Reactor!Slots
<1>4. Reactor!Queued = Asked(Line)
  <2> SUFFICES ASSUME NEW c \in Conns PROVE c \in Reactor!Queued <=> c \in Asked(Line)
    BY DEF Reactor!Queued, Asked
  <2> DEFINE t == IF rePc = "commands" THEN todo ELSE <<>>
             x == [kind |-> "adopt", conn |-> c]
  <2>1. c \in Reactor!Queued <=> (\E i \in DOMAIN inbox : inbox[i] = x) \/ \E i \in DOMAIN t :
          t[i] = x
    BY DEF Reactor!Queued
  <2>2. Line = t \o inbox /\ t \in Seq(Cmds)
    BY <1>2 DEF Line, LoopOk
  <2>3. c \in Asked(Line) <=> \E i \in DOMAIN Line : Line[i] = x
    BY DEF Asked
  <2> HIDE DEF t, x
  <2>4. /\ \A i \in DOMAIN t : i \in DOMAIN Line /\ Line[i] = t[i]
        /\ \A i \in DOMAIN inbox : \E j \in DOMAIN Line : Line[j] = inbox[i]
        /\ \A j \in DOMAIN Line : \/ j \in DOMAIN t /\ Line[j] = t[j]
                                \/ \E i \in DOMAIN inbox : Line[j] = inbox[i]
    <3>1. Len(t) \in Nat /\ DOMAIN t = 1..Len(t) /\ Len(inbox) \in Nat
            /\ DOMAIN inbox = 1..Len(inbox)
          /\ DOMAIN Line = 1..(Len(t) + Len(inbox))
          /\ \A j \in 1..(Len(t) + Len(inbox)) : Line[j] = IF j <= Len(t)
                                                             THEN t[j]
                                                             ELSE inbox[j - Len(t)]
      BY <1>2, <2>2
    <3>2. ASSUME NEW i \in DOMAIN inbox PROVE \E j \in DOMAIN Line : Line[j] = inbox[i]
      <4> DEFINE j == i + Len(t)
      <4>1. j \in 1..(Len(t) + Len(inbox)) /\ ~(j <= Len(t)) /\ j - Len(t) = i
        BY <3>1
      <4>2. Line[j] = inbox[j - Len(t)]
        BY <4>1, <3>1
      <4> HIDE DEF j
      <4> QED
        BY <4>1, <4>2, <3>1
    <3>3. ASSUME NEW j \in DOMAIN Line, ~(j <= Len(t))
          PROVE  \E i \in DOMAIN inbox : Line[j] = inbox[i]
      <4> DEFINE i == j - Len(t)
      <4>1. i \in 1..Len(inbox) /\ Line[j] = inbox[i]
        BY <3>1, <3>3
      <4> QED
        BY <4>1, <3>1
    <3>4. \A i \in DOMAIN t : i \in DOMAIN Line /\ Line[i] = t[i]
      BY <3>1
    <3>5. \A j \in DOMAIN Line : j <= Len(t) => j \in DOMAIN t /\ Line[j] = t[j]
      BY <3>1
    <3> QED
      BY <3>2, <3>3, <3>4, <3>5
  <2> QED
    BY <2>1, <2>3, <2>4
<1>5. Reactor!TypeOK
  <2>1. Reactor!IsInjective(shard.free)
    BY <1>1 DEF Reactor!IsInjective, SlabOk
  <2>2. Reactor!ToSet(shard.free) = {t \in Reactor!Slots : shard.slab[t] = Reactor!Empty}
    BY <1>1 DEF Reactor!ToSet, SlabOk, Reactor!Slots
  <2>3. \A t \in Reactor!Slots : shard.slab[t] # Reactor!Empty => shard.slab[t] \in Slot
    BY <1>1 DEF Shards, Reactor!Slots
  <2>4. \A t \in Reactor!Slots : shard.slab[t] # Reactor!Empty
          => shard.slab[t].out \in 0 .. MaxBuffered
    BY <2>3 DEF Slot
  <2>5. \A t, u \in Reactor!Slots : shard.slab[t] # Reactor!Empty
          /\ shard.slab[t].id = shard.slab[u].id => t = u
    <3> SUFFICES ASSUME NEW t \in Reactor!Slots, NEW u \in Reactor!Slots,
                        shard.slab[t] # Reactor!Empty, shard.slab[t].id = shard.slab[u].id
                 PROVE  t = u
      OBVIOUS
    <3>1. shard.slab[t].id \in Conns /\ Reactor!Empty.id = "nobody" /\ "nobody" \notin Conns
      BY <2>3 DEF Slot, Reactor!Empty, ReactorConstants
    <3>2. shard.slab[u] # Reactor!Empty
      BY <3>1
    <3> QED
      BY <3>2, <1>1 DEF SlabOk, Reactor!Slots
  <2>6. Len(shard.gens) = Len(shard.slab)
    BY <1>1 DEF SlabOk
  <2> QED
    BY <2>1, <2>2, <2>4, <2>5, <2>6, <1>2 DEF Reactor!TypeOK, LoopOk
<1>6. {c \in Conns : reWorker[c] = "admitted"} \cup Reactor!Queued \cup Reactor!Attached = X
  BY <1>3, <1>4 DEF At
<1>7. Cardinality({c \in Conns : reWorker[c] \in {"counted", "refusing"}}) = n.making + n.refusing
  <2>1. {c \in Conns : reWorker[c] \in {"counted", "refusing"}} = At(reWorker, "counted")
          \cup At(reWorker, "refusing")
    BY DEF At
  <2>2. At(reWorker, "counted") \cap At(reWorker, "refusing") = {}
    BY DEF At
  <2>3. IsFiniteSet(At(reWorker, "counted")) /\ IsFiniteSet(At(reWorker, "refusing"))
    <3>1. At(reWorker, "counted") \subseteq Conns /\ At(reWorker, "refusing") \subseteq Conns
      BY DEF At
    <3> QED
      BY <3>1, FS_Subset DEF ReactorConstants
  <2>4. Cardinality(At(reWorker, "counted")) \in Nat
          /\ Cardinality(At(reWorker, "refusing")) \in Nat
    BY <2>3, FS_CardinalityType
  <2>5. Cardinality(At(reWorker, "counted") \cup At(reWorker, "refusing"))
          = Cardinality(At(reWorker, "counted")) + Cardinality(At(reWorker, "refusing")) - 0
    BY <2>2, <2>3, FS_Union, FS_EmptySet
  <2>6. n.making = Cardinality(At(reWorker, "counted"))
          /\ n.refusing = Cardinality(At(reWorker, "refusing"))
    BY DEF Tally
  <2> DEFINE Y == {c \in Conns : reWorker[c] \in {"counted", "refusing"}}
             A == At(reWorker, "counted")
             B == At(reWorker, "refusing")
  <2>7. Cardinality(Y) = Cardinality(A \cup B)
    BY <2>1
  <2>8. Cardinality(A) \in Nat /\ Cardinality(B) \in Nat
          /\ Cardinality(Y) = Cardinality(A) + Cardinality(B) - 0
        /\ n.making = Cardinality(A) /\ n.refusing = Cardinality(B)
    BY <2>4, <2>5, <2>6, <2>7
  <2> HIDE DEF n, Y, A, B
  <2>9. Cardinality(Y) = n.making + n.refusing
    BY <2>8
  <2> QED
    BY <2>9 DEF Y
<1>8. /\ n.making \in Nat /\ n.refusing \in Nat /\ Cardinality(X) \in Nat /\ MaxTotal \in Nat
      /\ shard.total = Cardinality(X) + n.making + n.refusing
           /\ Cardinality(X) + n.making <= MaxTotal
      /\ \A i \in Ips : shard.perIp[i] = Cardinality({c \in X : IpOf[c] = i})
           /\ shard.perIp[i] <= MaxPerIp
  <2>1. W \subseteq Conns /\ Seated(shard) \subseteq Conns
    BY <1>1, ReactorFacts, SeatedAreConns DEF Context
  <2>2. Cardinality(X) \in Nat
    BY <2>1, FS_Subset, FS_CardinalityType DEF ReactorConstants
  <2> QED
    BY <2>2, <1>1, ReactorFacts DEF BooksOk, ReactorConstants
<1> HIDE DEF X, n, W
<1>9. Reactor!SlotsAccountedFor
  <2>1. shard.total
          = Cardinality(X) + Cardinality({c \in Conns : reWorker[c] \in {"counted", "refusing"}})
    BY <1>7, <1>8
  <2> QED
    BY <2>1, <1>6, <1>8, SameCounting DEF Reactor!SlotsAccountedFor
<1>10. Reactor!CapsAreHard
  <2>1. Cardinality(X) <= MaxTotal
    BY <1>8
  <2>2. \A i \in Ips : Cardinality({c \in X : IpOf[c] = i}) <= MaxPerIp
    BY <1>8
  <2> QED
    BY <2>1, <2>2, <1>6, SameCounting DEF Reactor!CapsAreHard
<1>11. Reactor!NoLostWake /\ Reactor!HandlesReachTheirOwner
  BY <1>2 DEF Reactor!NoLostWake, Reactor!HandlesReachTheirOwner, WakeOk, LoopOk
<1>12. Reactor!ClosedOnce
  BY <1>1, <1>3 DEF Reactor!ClosedOnce, OwnersOk
<1> QED
  BY <1>5, <1>9, <1>10, <1>11, <1>12

\* What the shard promises: the counters of the admission stand for the
\* connections that were let in and never pass their caps, a slot and its
\* generation are free, taken or given back in step, no command is left behind
\* with the shard asleep, a connection is closed once, and a handle reaches the
\* connection it was made for or none.
ReactorSafety ==
  /\ Reactor!TypeOK
  /\ Reactor!SlotsAccountedFor
  /\ Reactor!CapsAreHard
  /\ Reactor!NoLostWake
  /\ Reactor!ClosedOnce
  /\ Reactor!HandlesReachTheirOwner

\* reactor.rs keeps its promises with any number of connections and addresses,
\* any caps, and any frames in any pieces.
THEOREM ReactorIsSafe == ReactorConstants => (Reactor!Spec => []ReactorSafety)
<1> SUFFICES ASSUME ReactorConstants
             PROVE  Reactor!Spec => []ReactorSafety
  OBVIOUS
<1>1. Reactor!Init => ReactorInv
  BY ReactorInit
<1>2. ReactorInv /\ [Reactor!Next]_(Reactor!vars) => ReactorInv'
  BY ReactorNext
<1>3. ReactorInv => ReactorSafety
  BY ReactorSafe DEF ReactorSafety
<1> QED
  BY <1>1, <1>2, <1>3, PTL DEF Reactor!Spec

(***************************************************************************)
(* The web service.  A request has an answer by cases: a probe, the guard, *)
(* a stage before the routes, or the first route that matches, whose       *)
(* parameters spell its path; the invariant adds what a worker has in hand *)
(* and who is counted where.  The rate limiter's is stated with signed     *)
(* times: what was let through since each request.                         *)
(***************************************************************************)

Segment == [kind : {"lit", "param", "rest"}, name : Words]

\* A rest comes last (the comment on Seg), and a pattern's parameters have names
\* of their own.
WellFormed(pattern) ==
  /\ pattern \in Seq(Segment)
  /\ \A i \in DOMAIN pattern : pattern[i].kind = "rest" => i = Len(pattern)
  /\ \A i, j \in DOMAIN pattern :
       pattern[i].kind # "lit" /\ pattern[j].kind # "lit" /\ pattern[i].name = pattern[j].name
         => i = j

AppRoute == [method : Words, segs : Seq(Segment), guarded : BOOLEAN, does : {"app"}]

\* A path has a segment, be it an empty one.
Sendable == [path : Seq(Words) \ {<<>>}, exact : BOOLEAN, method : Words, auth : BOOLEAN,
          body : {"bad", "json", "fits"}]

WebConstants ==
  /\ IsFiniteSet(WebWorkers)
  /\ MaxServed \in Nat
  /\ Requests \subseteq Sendable
  /\ AppRoutes \in Seq(AppRoute)
  /\ \A i \in DOMAIN AppRoutes : WellFormed(AppRoutes[i].segs)
  /\ Tools \in [DOMAIN Tools -> BOOLEAN]
  /\ {"GET", "POST", "__tools", "name", "stream"} \subseteq Words

\* What the flattening of a sequence of sequences is: whatever grows by the next
\* one at each step.
Accumulates(g, seqs, n) ==
  g[1] = seqs[1] /\ \A i \in 1..n : i # 1 => g[i] = g[i - 1] \o seqs[i]

LEMMA Flattened ==
  ASSUME NEW n \in Nat \ {0}, NEW seqs, Len(seqs) = n, NEW g, Accumulates(g, seqs, n)
  PROVE  Web!FlattenSeq(seqs) = g[n]
<1>0. g[1] = seqs[1] /\ \A i \in 1..n : i # 1 => g[i] = g[i - 1] \o seqs[i]
  BY DEF Accumulates
<1> DEFINE Def(f) == f = [i \in 1..n |-> IF i = 1
                                           THEN seqs[i]
                                           ELSE f[i - 1] \o seqs[i]]
           flatten[i \in 1..n] == IF i = 1
                                    THEN seqs[i]
                                    ELSE flatten[i - 1] \o seqs[i]
           h == [i \in 1..n |-> g[i]]
<1>1. flatten = CHOOSE f : Def(f)
  BY DEF flatten
<1>2. Def(h)
  <2>1. ASSUME NEW i \in 1..n PROVE h[i] = IF i = 1
                                             THEN seqs[i]
                                             ELSE h[i - 1] \o seqs[i]
    <3>1. CASE i = 1
      BY <3>1, <1>0
    <3>2. CASE i # 1
      <4>1. i - 1 \in 1..n
        BY <3>2
      <4>2. h[i] = g[i] /\ h[i - 1] = g[i - 1]
        BY <4>1
      <4> HIDE DEF h
      <4> QED
        BY <3>2, <4>2, <1>0
    <3> QED
      BY <3>1, <3>2
  <2> QED
    BY <2>1
<1>3. Def(flatten)
  <2> HIDE DEF Def, flatten, h
  <2> QED
    BY <1>1, <1>2
<1>4. Web!FlattenSeq(seqs) = flatten[n]
  BY DEF Web!FlattenSeq, flatten
<1> HIDE DEF flatten, h
<1>5. \A i \in 1..n : flatten[i] = IF i = 1
                                     THEN seqs[i]
                                     ELSE flatten[i - 1] \o seqs[i]
  BY <1>3
<1> DEFINE Wrong == {i \in 1..n : flatten[i] # g[i]}
<1> SUFFICES ASSUME Wrong # {} PROVE FALSE
  BY <1>4
<1>6. Wrong \subseteq Nat
  OBVIOUS
<1>7. PICK m \in Wrong : \A i \in Wrong : ~(<<i, m>> \in OpToRel(<, Nat))
  BY <1>6, NatLessThanWellFounded, WFMin
<1>8. \A i \in Wrong : ~(i < m)
  BY <1>6, <1>7 DEF OpToRel
<1>9. m \in 1..n /\ flatten[m] # g[m]
  OBVIOUS
<1>10. m # 1
  BY <1>0, <1>5, <1>9
<1>11. m - 1 \in 1..n /\ m - 1 < m
  BY <1>9, <1>10
<1>12. flatten[m - 1] = g[m - 1]
  BY <1>8, <1>11
<1> QED
  BY <1>0, <1>5, <1>9, <1>10, <1>12

\* One segment of a path, and one more.
LEMMA OneSegment ==
  ASSUME NEW S, NEW path \in Seq(S), 1 \in 1..Len(path)
  PROVE  SubSeq(path, 1, 1) = <<path[1]>>
<1> DEFINE a == SubSeq(path, 1, 1)
<1>1. a \in Seq(S) /\ Len(a) = 1 /\ a[1] = path[1]
  OBVIOUS
<1> HIDE DEF a
<1>2. a = <<a[1]>>
  BY <1>1
<1> QED
  BY <1>1, <1>2 DEF a

LEMMA OneSegmentMore ==
  ASSUME NEW S, NEW path \in Seq(S), NEW i \in 1..Len(path), i # 1
  PROVE  SubSeq(path, 1, i) = SubSeq(path, 1, i - 1) \o <<path[i]>>
OBVIOUS

LEMMA WholePath ==
  ASSUME NEW S, NEW path \in Seq(S), NEW k \in 1..Len(path) + 1
  PROVE  SubSeq(path, 1, k - 1) \o SubSeq(path, k, Len(path)) = path
<1> DEFINE a == SubSeq(path, 1, k - 1)
           b == SubSeq(path, k, Len(path))
<1>1. Len(path) \in Nat /\ DOMAIN path = 1..Len(path) /\ k - 1 \in 0..Len(path)
  OBVIOUS
<1>2. /\ a \in Seq(S) /\ Len(a) = k - 1
      /\ \A i \in 1..k - 1 : a[i] = path[i]
  BY <1>1
<1>3. /\ b \in Seq(S) /\ Len(b) = Len(path) - k + 1
      /\ \A i \in 1..(Len(path) - k + 1) : b[i] = path[k + i - 1]
  BY <1>1
<1> HIDE DEF a, b
<1>4. /\ a \o b \in Seq(S) /\ Len(a \o b) = Len(a) + Len(b)
      /\ \A i \in 1..Len(a) + Len(b) :
           (a \o b)[i] = IF i <= Len(a)
                           THEN a[i]
                           ELSE b[i - Len(a)]
  BY <1>2, <1>3, Concatenated
<1>5. Len(a \o b) = Len(path)
  <2>1. Len(a \o b) = (k - 1) + (Len(path) - k + 1)
    BY <1>2, <1>3, <1>4, Zenon
  <2>2. (k - 1) + (Len(path) - k + 1) = Len(path)
    <3> DEFINE m == Len(path)
    <3>1. m \in Nat /\ k \in Int
      BY <1>1
    <3> HIDE DEF m
    <3>2. (k - 1) + (m - k + 1) = m
      BY <3>1
    <3> QED
      BY <3>2 DEF m
  <2> QED
    BY <2>1, <2>2, Zenon
<1>6. ASSUME NEW i \in 1..Len(path) PROVE (a \o b)[i] = path[i]
  <2>1. i \in 1..Len(a) + Len(b)
    BY <1>1, <1>2, <1>3
  <2>2. CASE i <= k - 1
    BY <2>1, <2>2, <1>1, <1>2, <1>4
  <2>3. CASE ~(i <= k - 1)
    <3>1. i - (k - 1) \in 1..(Len(path) - k + 1) /\ k + (i - (k - 1)) - 1 = i
      BY <2>3, <1>1
    <3>2. b[i - (k - 1)] = path[i]
      BY <3>1, <1>3
    <3> QED
      BY <2>1, <2>3, <3>2, <1>2, <1>4
  <2> QED
    BY <2>2, <2>3
<1>7. a \o b = path
  <2> DEFINE c == a \o b
  <2>1. c \in Seq(S) /\ Len(c) = Len(path) /\ \A i \in 1..Len(path) : c[i] = path[i]
    BY <1>4, <1>5, <1>6
  <2> HIDE DEF c
  <2>2. c = path
    BY <2>1
  <2> QED
    BY <2>2 DEF c
<1> QED
  BY <1>7 DEF a, b

\* What a parameter holds, in a pattern whose names are its own.
LEMMA Captured ==
  ASSUME NEW pattern, WellFormed(pattern), NEW path, NEW i \in DOMAIN pattern,
         pattern[i].kind # "lit"
  PROVE  Web!match_segs(pattern, path)[pattern[i].name]
           = IF pattern[i].kind = "rest"
               THEN SubSeq(path, i, Len(path))
               ELSE <<path[i]>>
<1> DEFINE names == {j \in DOMAIN pattern : pattern[j].kind # "lit"}
           nameOf == [j \in names |-> pattern[j].name]
           the(n) == CHOOSE k \in names : nameOf[k] = n
           value(k) == IF pattern[k].kind = "rest"
                         THEN SubSeq(path, k, Len(path))
                         ELSE <<path[k]>>
<1>1. Web!match_segs(pattern, path) = [n \in Web!Range(nameOf) |-> value(the(n))]
  BY DEF Web!match_segs
<1>2. i \in names /\ nameOf[i] = pattern[i].name
  OBVIOUS
<1>3. \A k \in names : nameOf[k] = pattern[k].name
  OBVIOUS
<1>4. DOMAIN nameOf = names
  OBVIOUS
<1> HIDE DEF nameOf
<1>5. pattern[i].name \in Web!Range(nameOf)
  BY <1>2, <1>4 DEF Web!Range
<1>6. \A k \in names : nameOf[k] = pattern[i].name => k = i
  BY <1>2, <1>3 DEF WellFormed
<1>7. the(pattern[i].name) = i
  <2> HIDE DEF names
  <2> QED
    BY <1>2, <1>6
<1> HIDE DEF the, value
<1>8. Web!match_segs(pattern, path)[pattern[i].name] = value(the(pattern[i].name))
  BY <1>1, <1>5
<1> QED
  BY <1>7, <1>8 DEF value

LEMMA SecondCaptured ==
  ASSUME NEW pattern, WellFormed(pattern), NEW path, 2 \in DOMAIN pattern,
         pattern[2].kind = "param"
  PROVE  Web!match_segs(pattern, path)[pattern[2].name] = <<path[2]>>
<1>1. Web!match_segs(pattern, path)[pattern[2].name]
        = IF pattern[2].kind = "rest"
            THEN SubSeq(path, 2, Len(path))
            ELSE <<path[2]>>
  BY Captured
<1> QED
  BY <1>1

\* The parameters of a pattern that matches a path spell the path back, the rest
\* of it included, whatever the pattern and the path (match_segs).
THEOREM PathsAreSpelledBack ==
  ASSUME NEW pattern, WellFormed(pattern), NEW path \in Seq(Words) \ {<<>>},
         Web!Matches(pattern, path)
  PROVE  Web!Instantiate(pattern, Web!match_segs(pattern, path)) = path
<1> DEFINE n == Len(pattern)
           params == Web!match_segs(pattern, path)
           seqs == [i \in DOMAIN pattern |->
                      IF pattern[i].kind = "lit"
                        THEN <<pattern[i].name>>
                        ELSE params[pattern[i].name]]
           g == [i \in 1..n |-> IF i = n
                                  THEN path
                                  ELSE SubSeq(path, 1, i)]
<1>1. n \in Nat /\ DOMAIN pattern = 1..n /\ Len(path) \in Nat \ {0} /\ DOMAIN path = 1..Len(path)
      /\ \A i \in 1..n : pattern[i] \in Segment
  BY DEF WellFormed
<1>2. n # 0
  <2> SUFFICES ASSUME n = 0 PROVE FALSE
    OBVIOUS
  <2>1. pattern = <<>>
    BY <1>1 DEF WellFormed
  <2> QED
    BY <2>1, <1>1 DEF Web!Matches, Web!LongEnough, Web!has_rest
<1>3. IF pattern[n].kind = "rest"
        THEN Len(path) + 1 >= n
        ELSE Len(path) = n
  <2>1. pattern # <<>> /\ Web!Last(pattern) = pattern[n]
    BY <1>1, <1>2 DEF Web!Last
  <2>2. Web!has_rest(pattern) <=> pattern[n].kind = "rest"
    BY <2>1 DEF Web!has_rest
  <2> QED
    BY <2>2 DEF Web!Matches, Web!LongEnough
<1>4. \A i \in 1..n : seqs[i] = IF pattern[i].kind = "lit" THEN <<pattern[i].name>>
                                ELSE params[pattern[i].name]
  BY <1>1
<1>5. Len(seqs) = n
  <2>1. DOMAIN seqs = 1..n /\ seqs = [i \in 1..n |-> seqs[i]]
    BY <1>1
  <2> HIDE DEF seqs
  <2> QED
    BY <2>1, <1>1
<1> HIDE DEF seqs
<1>6. ASSUME NEW i \in 1..n, pattern[i].kind # "rest" PROVE seqs[i] = <<path[i]>>
  <2>1. CASE pattern[i].kind = "lit"
    BY <2>1, <1>1, <1>4 DEF Web!Matches
  <2>2. CASE pattern[i].kind # "lit"
    <3>1. params[pattern[i].name] = <<path[i]>>
      <4>1. i \in DOMAIN pattern
        BY <1>1
      <4>2. Web!match_segs(pattern, path)[pattern[i].name]
              = IF pattern[i].kind = "rest"
                  THEN SubSeq(path, i, Len(path))
                  ELSE <<path[i]>>
        BY <4>1, <2>2, Captured
      <4> QED
        BY <4>2, <1>6
    <3> QED
      BY <2>2, <3>1, <1>4
  <2> QED
    BY <2>1, <2>2
<1>7. ASSUME NEW i \in 1..n, pattern[i].kind = "rest" PROVE seqs[i] = SubSeq(path, i, Len(path))
  <2>1. pattern[i].kind # "lit"
    BY <1>7
  <2>2. params[pattern[i].name] = SubSeq(path, i, Len(path))
    BY <2>1, <1>1, <1>7, Captured
  <2> QED
    BY <2>1, <2>2, <1>4
<1>8. \A i \in 1..n : pattern[i].kind = "rest" => i = n
  BY <1>1 DEF WellFormed
<1>9. \A i \in 1..n : g[i] = IF i = n
                               THEN path
                               ELSE SubSeq(path, 1, i)
  OBVIOUS
<1>10. Web!Instantiate(pattern, params) = Web!FlattenSeq(seqs)
  BY DEF Web!Instantiate, seqs
<1> HIDE DEF g, params, n
<1>11. \A i \in 1..n : i # n => i \in 1..Len(path)
  <2>1. Len(path) + 1 >= n
    <3>1. CASE pattern[n].kind = "rest"
      BY <3>1, <1>3
    <3>2. CASE pattern[n].kind # "rest"
      <4>1. Len(path) = n
        BY <3>2, <1>3
      <4> QED
        BY <4>1, <1>1
    <3> QED
      BY <3>1, <3>2
  <2> QED
    BY <2>1, <1>1
<1>12. path \in Seq(Words) /\ SubSeq(path, 1, Len(path)) = path
  BY <1>1
<1>13. g[1] = seqs[1]
  <2>1. CASE n # 1
    <3>1. 1 \in 1..n /\ pattern[1].kind # "rest" /\ 1 \in 1..Len(path)
      BY <2>1, <1>1, <1>2, <1>8
    <3>2. g[1] = SubSeq(path, 1, 1) /\ seqs[1] = <<path[1]>>
      BY <3>1, <2>1, <1>6, <1>9
    <3>3. SubSeq(path, 1, 1) = <<path[1]>>
      BY <3>1, <1>12, OneSegment
    <3> QED
      BY <3>2, <3>3
  <2>2. CASE n = 1 /\ pattern[1].kind = "rest"
    BY <2>2, <1>7, <1>9, <1>12
  <2>3. CASE n = 1 /\ pattern[1].kind # "rest"
    <3>1. Len(path) = 1 /\ g[1] = path /\ seqs[1] = <<path[1]>>
      BY <2>3, <1>3, <1>6, <1>9
    <3>2. path = <<path[1]>>
      BY <3>1, <1>12
    <3> QED
      BY <3>1, <3>2
  <2> QED
    BY <2>1, <2>2, <2>3
<1>14. ASSUME NEW i \in 1..n, i # 1 PROVE g[i] = g[i - 1] \o seqs[i]
  <2>1. i - 1 \in 1..n /\ i - 1 # n
    BY <1>1, <1>14
  <2>2. g[i - 1] = SubSeq(path, 1, i - 1)
    BY <2>1, <1>9
  <2>3. CASE pattern[i].kind = "rest"
    <3>1. i = n /\ g[i] = path /\ seqs[i] = SubSeq(path, i, Len(path))
      BY <2>3, <1>7, <1>8, <1>9
    <3>2. i \in 1..Len(path) + 1
      BY <3>1, <2>3, <1>1, <1>3
    <3>3. SubSeq(path, 1, i - 1) \o SubSeq(path, i, Len(path)) = path
      BY <3>2, <1>12, WholePath
    <3> QED
      BY <2>2, <3>1, <3>3
  <2>4. CASE pattern[i].kind # "rest"
    <3>1. seqs[i] = <<path[i]>> /\ i \in 1..Len(path) /\ (i = n => pattern[n].kind # "rest")
      BY <2>4, <1>1, <1>3, <1>6, <1>11
    <3>2. g[i] = SubSeq(path, 1, i)
      BY <3>1, <1>3, <1>9, <1>12
    <3>3. SubSeq(path, 1, i) = SubSeq(path, 1, i - 1) \o <<path[i]>>
      BY <3>1, <1>12, <1>14, OneSegmentMore
    <3> QED
      BY <2>2, <3>1, <3>2, <3>3
  <2> QED
    BY <2>3, <2>4
<1>15. Web!FlattenSeq(seqs) = g[n]
  <2>1. n \in Nat \ {0}
    BY <1>1, <1>2
  <2>2. Accumulates(g, seqs, n)
    BY <1>13, <1>14 DEF Accumulates
  <2> QED
    BY <2>1, <2>2, <1>5, Flattened, Zenon
<1> QED
  BY <1>1, <1>2, <1>9, <1>10, <1>15 DEF params

AnyRoute == [method : Words, segs : Seq(Segment), guarded : BOOLEAN,
             does : {"app", "manifest", "invoke", "stream"}]

InvokeSegs == <<Web!Lit("__tools"), Web!Param("name")>>
StreamSegs == <<Web!Lit("__tools"), Web!Param("name"), Web!Lit("stream")>>

\* A route of the table: the tool endpoints are the ones that were mounted.
Mounted(r) ==
  /\ r \in AnyRoute /\ WellFormed(r.segs)
  /\ r.does = "invoke" => r.segs = InvokeSegs
  /\ r.does = "stream" => r.segs = StreamSegs

LEMMA RoutesMounted ==
  ASSUME WebConstants
  PROVE  Web!Routes \in Seq(AnyRoute) /\ \A i \in DOMAIN Web!Routes : Mounted(Web!Routes[i])
<1> DEFINE manifest == <<Web!Lit("__tools")>>
<1>1. /\ manifest \in Seq(Segment) /\ InvokeSegs \in Seq(Segment) /\ StreamSegs \in Seq(Segment)
      /\ WellFormed(manifest) /\ WellFormed(InvokeSegs) /\ WellFormed(StreamSegs)
  <2>1. Web!Lit("__tools") \in Segment /\ Web!Param("name") \in Segment
          /\ Web!Lit("stream") \in Segment
        /\ Web!Lit("__tools").kind = "lit" /\ Web!Param("name").kind = "param"
             /\ Web!Lit("stream").kind = "lit"
    BY DEF Web!Lit, Web!Param, Segment, WebConstants
  <2>2. manifest \in Seq(Segment) /\ DOMAIN manifest = 1..1 /\ manifest[1].kind = "lit"
    BY <2>1
  <2>3. /\ InvokeSegs \in Seq(Segment) /\ Len(InvokeSegs) = 2 /\ DOMAIN InvokeSegs = 1..2
        /\ InvokeSegs[1].kind = "lit" /\ InvokeSegs[2].kind = "param"
    BY <2>1 DEF InvokeSegs
  <2>4. /\ StreamSegs \in Seq(Segment) /\ Len(StreamSegs) = 3 /\ DOMAIN StreamSegs = 1..3
        /\ StreamSegs[1].kind = "lit" /\ StreamSegs[2].kind = "param"
             /\ StreamSegs[3].kind = "lit"
    BY <2>1 DEF StreamSegs
  <2>5. WellFormed(manifest)
    <3> HIDE DEF manifest
    <3> QED
      BY <2>2 DEF WellFormed
  <2>6. WellFormed(InvokeSegs)
    BY <2>3 DEF WellFormed
  <2>7. WellFormed(StreamSegs)
    BY <2>4 DEF WellFormed
  <2> QED
    BY <2>2, <2>3, <2>4, <2>5, <2>6, <2>7
<1>2. /\ Web!mount_tools \in Seq(AnyRoute) /\ Len(Web!mount_tools) = 3
      /\ Web!mount_tools[1].segs = manifest /\ Web!mount_tools[1].does = "manifest"
      /\ Web!mount_tools[2].segs = InvokeSegs /\ Web!mount_tools[2].does = "invoke"
      /\ Web!mount_tools[3].segs = StreamSegs /\ Web!mount_tools[3].does = "stream"
  <2>1. /\ Web!mount_tools
             = <<[method |-> "GET", segs |-> manifest, guarded |-> FALSE, does |-> "manifest"],
                           [method |-> "POST", segs |-> InvokeSegs, guarded |-> FALSE,
                             does |-> "invoke"],
                           [method |-> "POST", segs |-> StreamSegs, guarded |-> FALSE,
                             does |-> "stream"]>>
    BY DEF Web!mount_tools, InvokeSegs, StreamSegs
  <2> DEFINE entry(m, p, d) == [method |-> m, segs |-> p, guarded |-> FALSE, does |-> d]
             a == entry("GET", manifest, "manifest")
             b == entry("POST", InvokeSegs, "invoke")
             c == entry("POST", StreamSegs, "stream")
  <2> HIDE DEF manifest
  <2>2. /\ a \in AnyRoute /\ a.segs = manifest /\ a.does = "manifest"
        /\ b \in AnyRoute /\ b.segs = InvokeSegs /\ b.does = "invoke"
        /\ c \in AnyRoute /\ c.segs = StreamSegs /\ c.does = "stream"
    BY <1>1 DEF AnyRoute, WebConstants
  <2>3. Web!mount_tools = <<a, b, c>>
    BY <2>1
  <2> HIDE DEF a, b, c
  <2> QED
    BY <2>2, <2>3
<1> HIDE DEF manifest
<1>3. \A i \in 1..3 : Web!mount_tools[i] \in AnyRoute
  <2>1. Web!mount_tools \in Seq(AnyRoute) /\ Len(Web!mount_tools) = 3
    BY <1>2
  <2> QED
    BY <2>1
<1>4. \A i \in 1..3 : Mounted(Web!mount_tools[i])
  <2> SUFFICES ASSUME NEW i \in 1..3 PROVE Mounted(Web!mount_tools[i])
    OBVIOUS
  <2>1. i = 1 \/ i = 2 \/ i = 3
    OBVIOUS
  <2> QED
    BY <2>1, <1>1, <1>2, <1>3 DEF Mounted
<1>5. AppRoutes \in Seq(AnyRoute) /\ \A i \in 1..Len(AppRoutes) : Mounted(AppRoutes[i])
  <2>1. \A i \in 1..Len(AppRoutes) : AppRoutes[i] \in AppRoute /\ WellFormed(AppRoutes[i].segs)
    BY DEF WebConstants
  <2>2. \A r \in AppRoute : r \in AnyRoute /\ r.does = "app"
    BY DEF AppRoute, AnyRoute
  <2>3. \A i \in 1..Len(AppRoutes) : Mounted(AppRoutes[i])
    BY <2>1, <2>2 DEF Mounted
  <2>4. AppRoutes \in Seq(AppRoute)
    BY DEF WebConstants
  <2>5. AppRoutes \in Seq(AnyRoute)
    BY <2>2, <2>4
  <2> QED
    BY <2>3, <2>5
<1>6. /\ Web!Routes \in Seq(AnyRoute) /\ Len(Web!Routes) = Len(AppRoutes) + 3
           /\ Len(AppRoutes) \in Nat
      /\ \A i \in 1..Len(AppRoutes) + 3 :
           Web!Routes[i] = IF i <= Len(AppRoutes)
                         THEN AppRoutes[i]
                         ELSE Web!mount_tools[i - Len(AppRoutes)]
  <2>1. \A u \in Seq(AnyRoute) : Len(u) = 3 =>
          /\ AppRoutes \o u \in Seq(AnyRoute) /\ Len(AppRoutes \o u) = Len(AppRoutes) + 3
          /\ Len(AppRoutes) \in Nat
          /\ \A i \in 1..Len(AppRoutes) + 3 :
               (AppRoutes \o u)[i] = IF i <= Len(AppRoutes)
                                       THEN AppRoutes[i]
                                       ELSE u[i - Len(AppRoutes)]
    <3> SUFFICES ASSUME NEW u \in Seq(AnyRoute), Len(u) = 3
                 PROVE  /\ AppRoutes \o u \in Seq(AnyRoute)
                             /\ Len(AppRoutes \o u) = Len(AppRoutes) + 3
                        /\ Len(AppRoutes) \in Nat
                        /\ \A i \in 1..Len(AppRoutes) + 3 :
                             (AppRoutes \o u)[i] = IF i <= Len(AppRoutes) THEN AppRoutes[i]
                                                   ELSE u[i - Len(AppRoutes)]
      OBVIOUS
    <3>1. AppRoutes \in Seq(AnyRoute)
      BY <1>5
    <3>2. /\ AppRoutes \o u \in Seq(AnyRoute) /\ Len(AppRoutes \o u) = Len(AppRoutes) + Len(u)
          /\ Len(AppRoutes) \in Nat
          /\ \A i \in 1..Len(AppRoutes) + Len(u) :
               (AppRoutes \o u)[i] = IF i <= Len(AppRoutes) THEN AppRoutes[i]
                                     ELSE u[i - Len(AppRoutes)]
      BY <3>1, Concatenated
    <3> QED
      BY <3>2
  <2>2. Web!Routes = AppRoutes \o Web!mount_tools
    BY DEF Web!Routes
  <2> QED
    BY <1>2, <2>1, <2>2
<1>7. ASSUME NEW i \in 1..Len(AppRoutes) + 3 PROVE Mounted(Web!Routes[i])
  <2>1. CASE i <= Len(AppRoutes)
    <3>1. i \in 1..Len(AppRoutes)
      BY <2>1, <1>6
    <3> QED
      BY <3>1, <2>1, <1>5, <1>6
  <2>2. CASE ~(i <= Len(AppRoutes))
    <3>1. i - Len(AppRoutes) \in 1..3
      BY <2>2, <1>6
    <3>2. Web!Routes[i] = Web!mount_tools[i - Len(AppRoutes)]
      BY <2>2, <1>6
    <3> QED
      BY <3>1, <3>2, <1>4
  <2> QED
    BY <2>1, <2>2
<1> QED
  BY <1>6, <1>7

\* The first of some routes is one of them.
LEMMA FirstOfThem ==
  ASSUME NEW S, S \subseteq Nat, S # {}
  PROVE  Web!Min(S) \in S
<1>1. PICK m \in S : \A i \in S : ~(<<i, m>> \in OpToRel(<, Nat))
  BY NatLessThanWellFounded, WFMin
<1>2. \A i \in S : m <= i
  <2>1. \A i \in S : ~(i < m)
    BY <1>1 DEF OpToRel
  <2> QED
    BY <2>1
<1> QED
  BY <1>2 DEF Web!Min

\* match_route finds a route that matches, and misses none.
LEMMA RouteFound ==
  ASSUME WebConstants, NEW method, NEW path
  PROVE  LET k == Web!match_route(Web!Routes, method, path) IN
         /\ k = 0 => \A i \in DOMAIN Web!Routes :
              ~(Web!Routes[i].method = method /\ Web!Matches(Web!Routes[i].segs, path))
         /\ k # 0 => k \in DOMAIN Web!Routes /\ Web!Routes[k].method = method
              /\ Web!Matches(Web!Routes[k].segs, path)
<1> DEFINE hits == Web!MatchingRoutes(Web!Routes, method, path)
<1>1. DOMAIN Web!Routes \subseteq Nat \ {0}
  BY RoutesMounted
<1>2. hits \subseteq DOMAIN Web!Routes
  BY DEF Web!MatchingRoutes
<1>3. CASE hits = {}
  BY <1>3 DEF Web!match_route, Web!MatchingRoutes
<1>4. CASE hits # {}
  <2>1. Web!Min(hits) \in hits
    BY <1>1, <1>2, <1>4, FirstOfThem
  <2>2. Web!match_route(Web!Routes, method, path) = Web!Min(hits)
    BY <1>4 DEF Web!match_route
  <2> QED
    BY <1>1, <1>2, <2>1, <2>2 DEF Web!MatchingRoutes
<1> QED
  BY <1>3, <1>4

\* A route knows a path: it matches, and its parameters spell the path.
Knows(i, path) ==
  /\ Web!Matches(Web!Routes[i].segs, path)
  /\ Web!Instantiate(Web!Routes[i].segs, Web!match_segs(Web!Routes[i].segs, path)) = path

LEMMA WhoMatchesKnows ==
  ASSUME WebConstants, NEW req \in Requests, NEW i \in DOMAIN Web!Routes,
         Web!Matches(Web!Routes[i].segs, req.path)
  PROVE  Knows(i, req.path)
<1>1. req.path \in Seq(Words) \ {<<>>}
  BY DEF WebConstants, Sendable
<1>2. WellFormed(Web!Routes[i].segs)
  BY RoutesMounted DEF Mounted
<1> QED
  BY <1>1, <1>2, PathsAreSpelledBack DEF Knows

\* A pattern whose literals are the path's, segment by segment or up to its rest.
Fits(pattern, path) ==
  \/ /\ Len(pattern) = Len(path)
     /\ \A k \in DOMAIN path : pattern[k].kind = "lit" => pattern[k].name = path[k]
  \/ /\ Web!has_rest(pattern)
     /\ Len(path) >= Len(pattern) - 1
     /\ \A k \in 1..(Len(pattern) - 1) :
          pattern[k].kind = "lit" => pattern[k].name = path[k]

LEMMA WhatFitsMatches ==
  ASSUME NEW pattern, WellFormed(pattern), NEW path \in Seq(Words), Fits(pattern, path)
  PROVE  Web!Matches(pattern, path)
<1>1. /\ Len(pattern) \in Nat /\ DOMAIN pattern = 1..Len(pattern)
      /\ Len(path) \in Nat /\ DOMAIN path = 1..Len(path)
  BY DEF WellFormed
<1>2. CASE Web!has_rest(pattern) /\ Len(path) >= Len(pattern) - 1
           /\ \A k \in 1..(Len(pattern) - 1) : pattern[k].kind = "lit"
                => pattern[k].name = path[k]
  <2>1. pattern[Len(pattern)].kind = "rest"
    BY <1>2 DEF Web!has_rest, Web!Last
  <2>2. \A k \in 1..Len(pattern) : pattern[k].kind = "lit" => k \in 1..(Len(pattern) - 1)
    BY <1>1, <2>1
  <2> QED
    BY <1>1, <1>2, <2>2 DEF Web!Matches, Web!LongEnough
<1>3. CASE Len(pattern) = Len(path)
           /\ \A k \in DOMAIN path : pattern[k].kind = "lit" => pattern[k].name = path[k]
  BY <1>1, <1>3 DEF Web!Matches, Web!LongEnough
<1> QED
  BY <1>2, <1>3 DEF Fits

\* What a response is that the service may give to a request.
Whats == {"none", "panic", "probe", "guard", "preflight", "internal", "group", "handler", "tool",
          "405", "404"}

Responses == [what : Whats, status : Nat, origins : {0, 1}, ran : DOMAIN Tools \cup {"none"}]

RightWay(rq, resp) ==
  /\ resp.what = "404" => \A i \in DOMAIN Web!Routes : ~Fits(Web!Routes[i].segs, rq.path)
  /\ resp.what = "405" => \E i \in DOMAIN Web!Routes : Web!Routes[i].method # rq.method
       /\ Knows(i, rq.path)
  /\ resp.what \in {"handler", "tool"} =>
       \E i \in DOMAIN Web!Routes : Web!Routes[i].method = rq.method /\ Knows(i, rq.path)

Guarded(rq, resp) ==
  /\ rq.path # <<>> /\ Head(rq.path) \in Web!Internal
       /\ resp.what \notin {"probe", "guard", "panic"}
       => rq.auth
  /\ resp.ran # "none" =>
       /\ rq.auth /\ rq.body = "fits"
       /\ rq.path = IF Tools[resp.ran] THEN <<"__tools", resp.ran, "stream">>
                                     ELSE <<"__tools", resp.ran>>

\* The answer of a tool's endpoint, unary or streaming.
FromUnary(t, n, body) ==
  /\ t \in Responses /\ t.what = "tool"
  /\ t.ran # "none" => t.ran = n /\ body = "fits" /\ ~Tools[n]
FromFeed(t, n, body) ==
  /\ t \in Responses /\ t.what = "tool"
  /\ t.ran # "none" => t.ran = n /\ body = "fits" /\ Tools[n]

LEMMA ToolSays ==
  ASSUME WebConstants, NEW n, NEW body
  PROVE  FromUnary(Web!RunTool(n, FALSE, body), n, body)
           /\ FromFeed(Web!RunTool(n, TRUE, body), n, body)
<1>1. n \in DOMAIN Tools => Tools[n] \in BOOLEAN
  BY DEF WebConstants
<1> DEFINE ran == [Web!Response("tool", 200) EXCEPT !.ran = n]
           Refused(t) ==
             t = Web!Response("tool", 400) \/ t = Web!Response("tool", 404) \/ t
               = Web!Response("tool", 422)
<1>2. \A t : Refused(t) => t \in Responses /\ t.what = "tool" /\ t.ran = "none"
  BY DEF Web!Response, Responses, Whats
<1>3. n \in DOMAIN Tools => ran \in Responses /\ ran.what = "tool" /\ ran.ran = n
  BY DEF Web!Response, Responses, Whats
<1>4. \/ Refused(Web!RunTool(n, FALSE, body))
      \/ Web!RunTool(n, FALSE, body) = ran /\ n \in DOMAIN Tools /\ ~Tools[n] /\ body = "fits"
  <2>1. CASE body = "bad" \/ body # "fits" \/ n \notin DOMAIN Tools \/ Tools[n] # FALSE
    <3>1. CASE body = "bad"
      <4>1. Web!RunTool(n, FALSE, body) = Web!Response("tool", 400)
        BY <3>1, Zenon DEF Web!RunTool
      <4> QED
        BY <4>1, Zenon
    <3>2. CASE body # "bad" /\ (n \notin DOMAIN Tools \/ Tools[n] # FALSE)
      <4>1. Web!RunTool(n, FALSE, body) = Web!Response("tool", 404)
        BY <3>2, Zenon DEF Web!RunTool
      <4> QED
        BY <4>1, Zenon
    <3>3. CASE body # "bad" /\ ~(n \notin DOMAIN Tools \/ Tools[n] # FALSE)
      <4>1. Web!RunTool(n, FALSE, body) = Web!Response("tool", 422)
        BY <2>1, <3>3, Zenon DEF Web!RunTool
      <4> QED
        BY <4>1, Zenon
    <3> QED
      BY <3>1, <3>2, <3>3, Zenon
  <2>2. CASE ~(body = "bad" \/ body # "fits" \/ n \notin DOMAIN Tools \/ Tools[n] # FALSE)
    <3>1. Web!RunTool(n, FALSE, body) = ran
      BY <2>2, Zenon DEF Web!RunTool
    <3>2. ~Tools[n]
      BY <1>1, <2>2
    <3> QED
      BY <2>2, <3>1, <3>2
  <2> QED
    BY <2>1, <2>2
<1>5. \/ Refused(Web!RunTool(n, TRUE, body))
      \/ Web!RunTool(n, TRUE, body) = ran /\ n \in DOMAIN Tools /\ Tools[n] /\ body = "fits"
  <2>1. CASE body = "bad" \/ body # "fits" \/ n \notin DOMAIN Tools \/ Tools[n] # TRUE
    <3>1. CASE body = "bad"
      <4>1. Web!RunTool(n, TRUE, body) = Web!Response("tool", 400)
        BY <3>1, Zenon DEF Web!RunTool
      <4> QED
        BY <4>1, Zenon
    <3>2. CASE body # "bad" /\ (n \notin DOMAIN Tools \/ Tools[n] # TRUE)
      <4>1. Web!RunTool(n, TRUE, body) = Web!Response("tool", 404)
        BY <3>2, Zenon DEF Web!RunTool
      <4> QED
        BY <4>1, Zenon
    <3>3. CASE body # "bad" /\ ~(n \notin DOMAIN Tools \/ Tools[n] # TRUE)
      <4>1. Web!RunTool(n, TRUE, body) = Web!Response("tool", 422)
        BY <2>1, <3>3, Zenon DEF Web!RunTool
      <4> QED
        BY <4>1, Zenon
    <3> QED
      BY <3>1, <3>2, <3>3, Zenon
  <2>2. CASE ~(body = "bad" \/ body # "fits" \/ n \notin DOMAIN Tools \/ Tools[n] # TRUE)
    <3>1. Web!RunTool(n, TRUE, body) = ran
      BY <2>2, Zenon DEF Web!RunTool
    <3>2. Tools[n]
      BY <1>1, <2>2
    <3> QED
      BY <2>2, <3>1, <3>2
  <2> QED
    BY <2>1, <2>2
<1> HIDE DEF ran, Refused
<1>6. FromUnary(Web!RunTool(n, FALSE, body), n, body)
  BY <1>2, <1>3, <1>4 DEF FromUnary
<1>7. FromFeed(Web!RunTool(n, TRUE, body), n, body)
  BY <1>2, <1>3, <1>5 DEF FromFeed
<1> QED
  BY <1>6, <1>7

LEMMA ToolRuns ==
  ASSUME WebConstants, NEW req \in Requests, NEW k \in DOMAIN Web!Routes,
         Web!Matches(Web!Routes[k].segs, req.path), NEW resp, resp
           = Web!Handle(Web!Routes[k], req)
  PROVE  /\ resp \in Responses /\ resp.what \in {"handler", "tool"}
         /\ resp.ran # "none" =>
              /\ req.body = "fits" /\ Head(req.path) = "__tools" /\ Len(req.path) > 1
              /\ req.path = IF Tools[resp.ran] THEN <<"__tools", resp.ran, "stream">>
                                     ELSE <<"__tools", resp.ran>>
<1> DEFINE segs == Web!Routes[k].segs
           params == Web!match_segs(segs, req.path)
           name == params["name"][1]
<1>1. /\ req.path \in Seq(Words) /\ Mounted(Web!Routes[k]) /\ WellFormed(segs)
           /\ Len(req.path) \in Nat
      /\ req.body \in {"bad", "json", "fits"}
  BY RoutesMounted DEF WebConstants, Sendable, Mounted
<1>3. CASE Web!Routes[k].does = "invoke"
  <2>1. segs = InvokeSegs
    BY <1>1, <1>3 DEF Mounted
  <2>2. /\ Len(segs) = 2 /\ DOMAIN segs = 1..2 /\ segs[1].kind = "lit" /\ segs[1].name = "__tools"
        /\ segs[2].kind = "param" /\ segs[2].name = "name"
    BY <2>1 DEF InvokeSegs, Web!Lit, Web!Param
  <2>3. segs # <<>> /\ ~Web!has_rest(segs)
    BY <2>2 DEF Web!has_rest, Web!Last
  <2>4. Len(req.path) = 2 /\ req.path[1] = "__tools"
    BY <2>2, <2>3 DEF Web!Matches, Web!LongEnough
  <2>5. params["name"] = <<req.path[2]>>
    <3>1. params[segs[2].name] = <<req.path[2]>>
      <4>1. 2 \in DOMAIN segs /\ segs[2].kind = "param"
        BY <2>2
      <4>2. WellFormed(segs)
        BY <1>1
      <4> HIDE DEF segs
      <4>3. Web!match_segs(segs, req.path)[segs[2].name] = <<req.path[2]>>
        BY <4>1, <4>2, SecondCaptured, Zenon
      <4> QED
        BY <4>3
    <3> HIDE DEF params
    <3> QED
      BY <2>2, <3>1
  <2>6. resp = Web!RunTool(req.path[2], FALSE, req.body)
    BY <1>3, <2>5 DEF Web!Handle, Web!tool_invoke
  <2>7. req.path = <<"__tools", req.path[2]>> /\ Head(req.path) = "__tools"
    BY <1>1, <2>4
  <2>8. /\ resp \in Responses /\ resp.what = "tool"
        /\ resp.ran # "none" => resp.ran = req.path[2] /\ ~Tools[resp.ran] /\ req.body = "fits"
    <3>1. FromUnary(resp, req.path[2], req.body)
      BY <2>6, ToolSays, Zenon
    <3> QED
      BY <3>1 DEF FromUnary
  <2> QED
    BY <2>4, <2>7, <2>8
<1>4. CASE Web!Routes[k].does = "stream"
  <2>1. segs = StreamSegs
    BY <1>1, <1>4 DEF Mounted
  <2>2. /\ Len(segs) = 3 /\ DOMAIN segs = 1..3 /\ segs[1].kind = "lit" /\ segs[1].name = "__tools"
        /\ segs[2].kind = "param" /\ segs[2].name = "name"
        /\ segs[3].kind = "lit" /\ segs[3].name = "stream"
    BY <2>1 DEF StreamSegs, Web!Lit, Web!Param
  <2>3. segs # <<>> /\ ~Web!has_rest(segs)
    BY <2>2 DEF Web!has_rest, Web!Last
  <2>4. Len(req.path) = 3 /\ req.path[1] = "__tools" /\ req.path[3] = "stream"
    BY <2>2, <2>3 DEF Web!Matches, Web!LongEnough
  <2>5. params["name"] = <<req.path[2]>>
    <3>1. params[segs[2].name] = <<req.path[2]>>
      <4>1. 2 \in DOMAIN segs /\ segs[2].kind = "param"
        BY <2>2
      <4>2. WellFormed(segs)
        BY <1>1
      <4> HIDE DEF segs
      <4>3. Web!match_segs(segs, req.path)[segs[2].name] = <<req.path[2]>>
        BY <4>1, <4>2, SecondCaptured, Zenon
      <4> QED
        BY <4>3
    <3> HIDE DEF params
    <3> QED
      BY <2>2, <3>1
  <2>6. resp = Web!RunTool(req.path[2], TRUE, req.body)
    BY <1>4, <2>5 DEF Web!Handle, Web!tool_stream
  <2>7. req.path = <<"__tools", req.path[2], "stream">> /\ Head(req.path) = "__tools"
    BY <1>1, <2>4
  <2>8. /\ resp \in Responses /\ resp.what = "tool"
        /\ resp.ran # "none" => resp.ran = req.path[2] /\ Tools[resp.ran] /\ req.body = "fits"
    <3>1. FromFeed(resp, req.path[2], req.body)
      BY <2>6, ToolSays, Zenon
    <3> QED
      BY <3>1 DEF FromFeed
  <2> QED
    BY <2>4, <2>7, <2>8
<1>5. CASE Web!Routes[k].does \notin {"invoke", "stream"}
  BY <1>5 DEF Web!Handle, Web!Response, Responses, Whats
<1> QED
  BY <1>3, <1>4, <1>5

\* The service's answer: a route of the table's, or of a stage before it.
LEMMA RespondIsRight ==
  ASSUME WebConstants, NEW req \in Requests
  PROVE  /\ Web!Respond(req) \in Responses /\ Web!Respond(req).what \notin {"none", "panic"}
         /\ RightWay(req, Web!Respond(req)) /\ Guarded(req, Web!Respond(req))
<1> DEFINE resp == Web!Respond(req)
           k == Web!match_route(Web!Routes, req.method, req.path)
           pre == [Web!Response("preflight", 204) EXCEPT !.origins = 1]
           inner == IF Web!Preflight(req) THEN pre
                    ELSE IF \E n \in {"__metrics", "__introspect", "__logs"} : Web!Is(req, n)
                         THEN Web!Response("internal", 200)
                    ELSE IF k # 0
                         THEN IF Web!Routes[k].guarded
                           /\ ~req.auth THEN Web!Response("group", 401)
                              ELSE Web!Handle(Web!Routes[k], req)
                    ELSE IF Web!PathIsKnown(Web!Routes, req.path)
                           THEN Web!Response("405", 405)
                    ELSE Web!Response("404", 404)
           early == Web!Is(req, "__health") \/ Web!Is(req, "__ready")
<1>1. /\ req.path \in Seq(Words) /\ req.path # <<>> /\ req.auth \in BOOLEAN
           /\ req.exact \in BOOLEAN
  BY DEF WebConstants, Sendable
<1>2. /\ Web!Response("probe", 200) \in Responses /\ Web!Response("probe", 503) \in Responses
      /\ Web!Response("guard", 401) \in Responses /\ Web!Response("internal", 200) \in Responses
      /\ Web!Response("group", 401) \in Responses /\ Web!Response("405", 405) \in Responses
      /\ Web!Response("404", 404) \in Responses
      /\ pre \in Responses /\ pre.what = "preflight" /\ pre.ran = "none"
      /\ \A w, st : Web!Response(w, st).what = w /\ Web!Response(w, st).ran = "none"
  BY DEF Web!Response, Responses, Whats
<1>3. CASE early
  <2>1. resp = Web!Response("probe", 200) \/ resp = Web!Response("probe", 503)
    BY <1>3 DEF Web!Respond, Web!Is
  <2> QED
    BY <1>2, <2>1 DEF RightWay, Guarded
<1>4. CASE ~early /\ Web!ops_surface(req) /\ ~req.auth
  <2>1. resp = Web!Response("guard", 401)
    BY <1>4 DEF Web!Respond
  <2> QED
    BY <1>2, <2>1 DEF RightWay, Guarded
<1>5. CASE ~early /\ (Web!ops_surface(req) => req.auth)
  <2>1. resp = inner
    BY <1>5 DEF Web!Respond
  <2>2. /\ k = 0 => \A i \in DOMAIN Web!Routes :
                      ~(Web!Routes[i].method = req.method
                        /\ Web!Matches(Web!Routes[i].segs, req.path))
        /\ k # 0 => k \in DOMAIN Web!Routes /\ Web!Routes[k].method = req.method
                    /\ Web!Matches(Web!Routes[k].segs, req.path)
    BY RouteFound
  <2>3. Head(req.path) \in Web!Internal => req.auth
    BY <1>5 DEF Web!ops_surface
  <2> HIDE DEF k
  <2>4. CASE /\ ~Web!Preflight(req)
                  /\ ~\E n \in {"__metrics", "__introspect", "__logs"} : Web!Is(req, n)
             /\ k # 0 /\ ~(Web!Routes[k].guarded /\ ~req.auth)
    <3>1. resp = Web!Handle(Web!Routes[k], req)
      BY <2>1, <2>4
    <3>2. Knows(k, req.path)
      BY <2>2, <2>4, WhoMatchesKnows
    <3> HIDE DEF resp
    <3>3. /\ resp \in Responses /\ resp.what \in {"handler", "tool"}
          /\ resp.ran # "none" =>
               /\ req.body = "fits" /\ Head(req.path) = "__tools" /\ Len(req.path) > 1
               /\ req.path = IF Tools[resp.ran] THEN <<"__tools", resp.ran, "stream">>
                                                ELSE <<"__tools", resp.ran>>
      BY <2>2, <2>4, <3>1, ToolRuns
    <3>4. RightWay(req, resp)
      BY <2>2, <2>4, <3>2, <3>3 DEF RightWay
    <3>5. Guarded(req, resp)
      BY <2>3, <3>3 DEF Guarded, Web!Internal
    <3> QED
      BY <3>3, <3>4, <3>5 DEF resp
  <2>5. CASE /\ ~Web!Preflight(req)
                  /\ ~\E n \in {"__metrics", "__introspect", "__logs"} : Web!Is(req, n)
             /\ k = 0 /\ Web!PathIsKnown(Web!Routes, req.path)
    <3>1. resp = Web!Response("405", 405)
      BY <2>1, <2>5
    <3>2. PICK i \in DOMAIN Web!Routes : Web!Matches(Web!Routes[i].segs, req.path)
      BY <2>5 DEF Web!PathIsKnown
    <3>3. Web!Routes[i].method # req.method /\ Knows(i, req.path)
      BY <2>2, <2>5, <3>2, WhoMatchesKnows
    <3> HIDE DEF resp
    <3> QED
      BY <1>2, <2>3, <3>1, <3>3 DEF RightWay, Guarded, resp
  <2>6. CASE /\ ~Web!Preflight(req)
                  /\ ~\E n \in {"__metrics", "__introspect", "__logs"} : Web!Is(req, n)
             /\ k = 0 /\ ~Web!PathIsKnown(Web!Routes, req.path)
    <3>1. resp = Web!Response("404", 404)
      BY <2>1, <2>6
    <3>2. ASSUME NEW i \in DOMAIN Web!Routes, Fits(Web!Routes[i].segs, req.path) PROVE FALSE
      <4>1. WellFormed(Web!Routes[i].segs)
        BY RoutesMounted DEF Mounted
      <4>2. Web!Matches(Web!Routes[i].segs, req.path)
        BY <1>1, <3>2, <4>1, WhatFitsMatches
      <4> QED
        BY <2>6, <4>2 DEF Web!PathIsKnown
    <3> HIDE DEF resp
    <3> QED
      BY <1>2, <2>3, <3>1, <3>2 DEF RightWay, Guarded, resp
  <2>7. CASE \/ Web!Preflight(req) \/ \E n \in {"__metrics", "__introspect", "__logs"} :
                  Web!Is(req, n)
             \/ k # 0 /\ Web!Routes[k].guarded /\ ~req.auth
    <3>1. resp = pre \/ resp = Web!Response("internal", 200) \/ resp = Web!Response("group", 401)
      BY <2>1, <2>7
    <3> HIDE DEF resp, pre
    <3>2. resp \in Responses /\ resp.what \in {"preflight", "internal", "group"}
            /\ resp.ran = "none"
      BY <1>2, <3>1
    <3>3. RightWay(req, resp) /\ Guarded(req, resp)
      BY <2>3, <3>2 DEF RightWay, Guarded
    <3> QED
      BY <3>2, <3>3 DEF resp
  <2> QED
    BY <2>4, <2>5, <2>6, <2>7
<1> QED
  BY <1>3, <1>4, <1>5

\* What the service last said: nothing, the 500 of a panic, or its answer with an
\* origin on it.
SaidTruly ==
  \/ last = [req |-> Web!Free, resp |-> Web!Response("none", 0)]
  \/ last.req \in Requests /\ last.resp = Web!Response("panic", 500)
  \/ last.req \in Requests /\ last.resp = Web!cors_credentialed(Web!Respond(last.req))

\* A worker that has an answer in hand has the one to its request.
AtWork ==
  \A w \in WebWorkers :
    /\ stage[w] # "free" => webWorker[w] \in Requests
    /\ stage[w] = "answered" => answer[w] = Web!Respond(webWorker[w])

Counted ==
  /\ in_flight \in Nat /\ total \in Nat /\ panicked \in Nat /\ served \in 0..MaxServed
  /\ class \in [{"2xx", "4xx", "5xx", "other"} -> Nat]
  /\ Web!GaugeCountsRequests

\* Nobody works once the server has returned, and a listener that ended stays so.
LifeEnds ==
  /\ main # "serving" => Web!Busy = {}
  /\ main = "returned" => \A l \in Listeners : listener[l] = "ended"

\* Inductive.
WebInv ==
  /\ webWorker \in [WebWorkers -> Requests \cup {Web!Free}]
  /\ stage \in [WebWorkers -> {"free", "began", "answered"}]
  /\ answer \in [WebWorkers -> Responses]
  /\ main \in {"serving", "stopping", "joining", "returned"}
  /\ webShutdown \in BOOLEAN
  /\ listener \in [Listeners -> {"running", "ended"}]
  /\ SaidTruly /\ AtWork /\ Counted /\ LifeEnds

WebSafety ==
  /\ Web!TypeOK /\ Web!ToolsRunChecked /\ Web!OpsBehindGuard /\ Web!RoutedAsAdded
  /\ Web!GaugeCountsRequests /\ Web!OneAllowOrigin /\ Web!NothingOutlivesRun

LEMMA WebCounts == \A S : Web!Cardinality(S) = Cardinality(S)
BY DEF Web!Cardinality, Cardinality, Web!IsFiniteSet, IsFiniteSet

LEMMA NoneBusy == Cardinality({}) = 0 /\ IsFiniteSet({})
BY FS_EmptySet

LEMMA WebInit == ASSUME WebConstants, Web!Init PROVE WebInv
<1>1. Web!Busy = {}
  BY DEF Web!Init, Web!Busy
<1>2. Web!Response("none", 0) \in Responses
  BY DEF Web!Response, Responses, Whats
<1>3. Counted
  BY <1>1, NoneBusy, WebCounts DEF Web!Init, Counted, Web!GaugeCountsRequests, WebConstants
<1>4. SaidTruly /\ AtWork
  BY DEF Web!Init, SaidTruly, AtWork
<1>5. LifeEnds
  BY DEF Web!Init, LifeEnds
<1> QED
  BY <1>2, <1>3, <1>4, <1>5 DEF Web!Init, WebInv

\* Busy gains or loses a worker.
LEMMA BusyIsFinite == ASSUME WebConstants
PROVE  IsFiniteSet(Web!Busy) /\ Cardinality(Web!Busy) \in Nat
<1>1. Web!Busy \subseteq WebWorkers
  BY DEF Web!Busy
<1> QED
  BY <1>1, FS_Subset, FS_CardinalityType DEF WebConstants

LEMMA StageTaken ==
  ASSUME WebConstants, WebInv, NEW w \in WebWorkers, stage[w] = "free",
         stage' = [stage EXCEPT ![w] = "began"]
  PROVE  Cardinality(Web!Busy)' = Cardinality(Web!Busy) + 1
<1>1. w \notin Web!Busy /\ Web!Busy' = Web!Busy \cup {w}
  BY DEF Web!Busy, WebInv
<1> QED
  BY <1>1, BusyIsFinite, FS_AddElement

LEMMA StageLeft ==
  ASSUME WebConstants, WebInv, NEW w \in WebWorkers, stage[w] # "free",
         stage' = [stage EXCEPT ![w] = "free"]
  PROVE  Cardinality(Web!Busy)' = Cardinality(Web!Busy) - 1 /\ Cardinality(Web!Busy) > 0
<1>1. w \in Web!Busy /\ Web!Busy' = Web!Busy \ {w}
  BY DEF Web!Busy, WebInv
<1>2. IsFiniteSet(Web!Busy')
  BY <1>1, BusyIsFinite, FS_Subset
<1>3. Web!Busy = Web!Busy' \cup {w} /\ w \notin Web!Busy'
  BY <1>1
<1>4. Cardinality(Web!Busy) = Cardinality(Web!Busy') + 1 /\ Cardinality(Web!Busy') \in Nat
  BY <1>2, <1>3, FS_AddElement, FS_CardinalityType
<1> QED
  BY <1>4

LEMMA BeginKeeps ==
  ASSUME WebConstants, WebInv, NEW w \in WebWorkers, NEW req \in Requests, main = "serving",
         Web!Begin(w, req)
  PROVE  WebInv'
<1>1. SaidTruly'
  BY DEF WebInv, SaidTruly, Web!Begin
<1>2. AtWork'
  BY DEF WebInv, AtWork, Web!Begin
<1>3. Counted'
  <2> DEFINE n == Cardinality(Web!Busy)
             m == Cardinality(Web!Busy)'
  <2>1. n \in Nat /\ m = n + 1
    BY StageTaken, BusyIsFinite DEF Web!Begin
  <2>2. MaxServed \in Nat /\ served' = served + 1 /\ served < MaxServed
        /\ in_flight' = in_flight + 1 /\ UNCHANGED <<total, panicked, class>>
    BY DEF Web!Begin, WebConstants
  <2>3. in_flight = n + panicked /\ total + panicked + n = served
    BY WebCounts DEF WebInv, Counted, Web!GaugeCountsRequests
  <2> HIDE DEF n, m
  <2>4. in_flight' = m + panicked' /\ total' + panicked' + m = served' /\ served' \in 0..MaxServed
        /\ in_flight' \in Nat
    BY <2>1, <2>2, <2>3 DEF WebInv, Counted
  <2> QED
    BY <2>2, <2>4, WebCounts DEF WebInv, Counted, Web!GaugeCountsRequests, m
<1>4. LifeEnds'
  BY DEF WebInv, LifeEnds, Web!Begin, Web!life
<1> QED
  BY <1>1, <1>2, <1>3, <1>4 DEF WebInv, Web!Begin, Web!life

LEMMA AnswerKeeps ==
  ASSUME WebConstants, WebInv, NEW w \in WebWorkers, Web!Answer(w)
  PROVE  WebInv'
<1>1. SaidTruly'
  BY DEF WebInv, SaidTruly, Web!Answer
<1>2. AtWork'
  BY DEF WebInv, AtWork, Web!Answer
<1>3. Web!Busy' = Web!Busy
  BY DEF WebInv, Web!Answer, Web!Busy
<1>4. Counted'
  BY <1>3 DEF WebInv, Counted, Web!GaugeCountsRequests, Web!Answer
<1>5. LifeEnds'
  BY <1>3 DEF WebInv, LifeEnds, Web!Answer, Web!life
<1>6. answer' \in [WebWorkers -> Responses]
  <2>1. webWorker[w] \in Requests
    BY DEF WebInv, AtWork, Web!Answer
  <2> QED
    BY <2>1, RespondIsRight DEF WebInv, Web!Answer
<1> QED
  BY <1>1, <1>2, <1>4, <1>5, <1>6 DEF WebInv, Web!Answer, Web!life

LEMMA PanicKeeps ==
  ASSUME WebConstants, WebInv, NEW w \in WebWorkers, Web!Panic(w)
  PROVE  WebInv'
<1>1. SaidTruly'
  <2>1. last' = [req |-> webWorker[w], resp |-> Web!Response("panic", 500)]
          /\ webWorker[w] \in Requests
    BY DEF WebInv, AtWork, Web!Panic
  <2> QED
    BY <2>1 DEF SaidTruly
<1>2. AtWork'
  BY DEF WebInv, AtWork, Web!Panic
<1>3. Counted'
  <2> DEFINE n == Cardinality(Web!Busy)
             m == Cardinality(Web!Busy)'
  <2>1. n \in Nat /\ n > 0 /\ m = n - 1
    BY StageLeft, BusyIsFinite DEF Web!Panic
  <2>2. panicked' = panicked + 1 /\ UNCHANGED <<in_flight, total, served, class>>
    BY DEF Web!Panic
  <2>3. in_flight = n + panicked /\ total + panicked + n = served
    BY WebCounts DEF WebInv, Counted, Web!GaugeCountsRequests
  <2> HIDE DEF n, m
  <2>4. in_flight' = m + panicked' /\ total' + panicked' + m = served' /\ panicked' \in Nat
    BY <2>1, <2>2, <2>3 DEF WebInv, Counted
  <2> QED
    BY <2>2, <2>4, WebCounts DEF WebInv, Counted, Web!GaugeCountsRequests, m
<1>4. LifeEnds'
  BY DEF WebInv, LifeEnds, Web!Panic, Web!life, Web!Busy
<1> QED
  BY <1>1, <1>2, <1>3, <1>4 DEF WebInv, Web!Panic, Web!life

LEMMA FinishKeeps ==
  ASSUME WebConstants, WebInv, NEW w \in WebWorkers, Web!Finish(w)
  PROVE  WebInv'
<1>1. SaidTruly'
  <2>1. last' = [req |-> webWorker[w], resp |-> Web!cors_credentialed(answer[w])]
          /\ webWorker[w] \in Requests
        /\ answer[w] = Web!Respond(webWorker[w])
    BY DEF WebInv, AtWork, Web!Finish
  <2> QED
    BY <2>1 DEF SaidTruly
<1>2. AtWork'
  BY DEF WebInv, AtWork, Web!Finish
<1>3. Counted'
  <2> DEFINE c == Web!ClassOf(Web!cors_credentialed(answer[w]).status)
  <2>1. c \in {"2xx", "4xx", "5xx", "other"}
    BY DEF Web!ClassOf
  <2>2. class' = [class EXCEPT ![c] = @ + 1]
    BY DEF Web!Finish
  <2> DEFINE n == Cardinality(Web!Busy)
             m == Cardinality(Web!Busy)'
  <2>3. n \in Nat /\ n > 0 /\ m = n - 1
    BY StageLeft, BusyIsFinite DEF Web!Finish
  <2>4. in_flight' = in_flight - 1 /\ total' = total + 1 /\ UNCHANGED <<panicked, served>>
    BY DEF Web!Finish
  <2>5. in_flight = n + panicked /\ total + panicked + n = served
        /\ total = class["2xx"] + class["4xx"] + class["5xx"] + class["other"]
    BY WebCounts DEF WebInv, Counted, Web!GaugeCountsRequests
  <2> HIDE DEF n, m, c
  <2>6. in_flight' = m + panicked' /\ total' + panicked' + m = served' /\ in_flight' \in Nat
        /\ total' \in Nat
    BY <2>3, <2>4, <2>5 DEF WebInv, Counted
  <2>7. class \in [{"2xx", "4xx", "5xx", "other"} -> Nat]
    BY DEF WebInv, Counted
  <2>8. class' \in [{"2xx", "4xx", "5xx", "other"} -> Nat]
    BY <2>1, <2>2, <2>7
  <2>9. total' = class'["2xx"] + class'["4xx"] + class'["5xx"] + class'["other"]
    BY <2>1, <2>2, <2>4, <2>5, <2>7
  <2> QED
    BY <2>4, <2>6, <2>8, <2>9, WebCounts DEF WebInv, Counted, Web!GaugeCountsRequests, m
<1>4. LifeEnds'
  BY DEF WebInv, LifeEnds, Web!Finish, Web!life, Web!Busy
<1> QED
  BY <1>1, <1>2, <1>3, <1>4 DEF WebInv, Web!Finish, Web!life

LEMMA LifeKeeps ==
  ASSUME WebConstants, WebInv,
         \/ Web!Signal \/ Web!ServerReturns \/ Web!StopListeners \/ Web!JoinListeners
         \/ \E l \in Listeners : Web!ListenerEnds(l) \/ Web!ListenerPanics(l)
  PROVE  WebInv'
<1> USE DEF Web!Signal, Web!ServerReturns, Web!StopListeners, Web!JoinListeners,
      Web!ListenerEnds, Web!ListenerPanics
<1>1. UNCHANGED Web!requestVars /\ Web!Busy' = Web!Busy
  BY DEF Web!requestVars, Web!Busy
<1>2. SaidTruly' /\ AtWork'
  BY <1>1 DEF WebInv, SaidTruly, AtWork, Web!requestVars
<1>3. Counted'
  BY <1>1 DEF WebInv, Counted, Web!GaugeCountsRequests, Web!requestVars
<1>4. LifeEnds'
  BY <1>1 DEF WebInv, LifeEnds, Web!Busy
<1>5. /\ main' \in {"serving", "stopping", "joining", "returned"} /\ webShutdown' \in BOOLEAN
      /\ listener' \in [Listeners -> {"running", "ended"}]
  BY DEF WebInv
<1> QED
  BY <1>1, <1>2, <1>3, <1>4, <1>5 DEF WebInv, Web!requestVars

LEMMA WebNext == ASSUME WebConstants, WebInv, [Web!Next]_(Web!vars) PROVE WebInv'
<1>1. CASE UNCHANGED Web!vars
  <2>1. Web!Busy' = Web!Busy
    BY <1>1 DEF Web!vars, Web!Busy
  <2>2. SaidTruly' /\ AtWork' /\ Counted' /\ LifeEnds'
    BY <1>1, <2>1 DEF Web!vars, WebInv, SaidTruly, AtWork, Counted, Web!GaugeCountsRequests,
       LifeEnds
  <2> QED
    BY <1>1, <2>2 DEF Web!vars, WebInv
<1> QED
  BY <1>1, BeginKeeps, AnswerKeeps, PanicKeeps, FinishKeeps, LifeKeeps DEF Web!Next

LEMMA WebSafe == ASSUME WebConstants, WebInv PROVE WebSafety
<1>1. Web!TypeOK
  <2> DEFINE n == Cardinality(Web!Busy)
  <2>1. n \in Nat
    BY BusyIsFinite
  <2>2. /\ in_flight = n + panicked /\ total + panicked + n = served /\ MaxServed \in Nat
        /\ in_flight \in Nat /\ total \in Nat /\ panicked \in Nat /\ served \in 0..MaxServed
    BY WebCounts DEF WebInv, Counted, Web!GaugeCountsRequests, WebConstants
  <2> HIDE DEF n
  <2>3. in_flight \in 0..MaxServed /\ total \in 0..MaxServed /\ panicked \in 0..MaxServed
    BY <2>1, <2>2
  <2> QED
    BY <2>3 DEF WebInv, Web!TypeOK
<1>2. Web!ToolsRunChecked /\ Web!OpsBehindGuard /\ Web!RoutedAsAdded /\ Web!OneAllowOrigin
  <2>1. CASE last = [req |-> Web!Free, resp |-> Web!Response("none", 0)]
    BY <2>1 DEF Web!Free, Web!Response, Web!ToolsRunChecked, Web!OpsBehindGuard,
       Web!RoutedAsAdded, Web!OneAllowOrigin
  <2>2. CASE last.req \in Requests /\ last.resp = Web!Response("panic", 500)
    BY <2>2 DEF Web!Response, Web!ToolsRunChecked, Web!OpsBehindGuard, Web!RoutedAsAdded,
       Web!OneAllowOrigin
  <2>3. CASE last.req \in Requests /\ last.resp = Web!cors_credentialed(Web!Respond(last.req))
    <3> DEFINE resp == Web!Respond(last.req)
               told == last.resp
               rq == last.req
    <3>1. /\ resp \in Responses /\ resp.what \notin {"none", "panic"}
          /\ RightWay(rq, resp) /\ Guarded(rq, resp)
      BY <2>3, RespondIsRight
    <3>2. told = [resp EXCEPT !.origins = IF @ > 0
                                            THEN @
                                            ELSE 1]
      BY <2>3 DEF Web!cors_credentialed
    <3> HIDE DEF resp
    <3>3. told.what = resp.what /\ told.ran = resp.ran /\ told.origins = 1
      BY <3>1, <3>2 DEF Responses
    <3>4. RightWay(rq, told) /\ Guarded(rq, told)
      BY <3>1, <3>3 DEF RightWay, Guarded
    <3> HIDE DEF told, rq
    <3>5. Web!ToolsRunChecked /\ Web!OpsBehindGuard
      BY <3>4 DEF Guarded, Web!ToolsRunChecked, Web!OpsBehindGuard, told, rq
    <3>6. Web!RoutedAsAdded
      BY <3>4 DEF RightWay, Knows, Fits, Web!RoutedAsAdded, told, rq
    <3> QED
      BY <3>3, <3>5, <3>6 DEF Web!OneAllowOrigin, told
  <2> QED
    BY <2>1, <2>2, <2>3 DEF WebInv, SaidTruly
<1>3. Web!GaugeCountsRequests /\ Web!NothingOutlivesRun
  BY DEF WebInv, Counted, LifeEnds, Web!NothingOutlivesRun
<1> QED
  BY <1>1, <1>2, <1>3 DEF WebSafety

RateConstants == Capacity \in Nat /\ MaxClock \in Nat /\ MaxAdmitted \in Nat

\* What was let through since any request, and what is left in the bucket, is a
\* full bucket, what the time refilled, and the time given back.
FromEach ==
  \A i \in DOMAIN admitted :
    Len(admitted) - i + 1 + bucket.tokens <= Capacity + (bucket.at - admitted[i]) + rewound

BetweenAny ==
  \A i, j \in DOMAIN admitted :
    i < j => j - i + 1 <= Capacity + (admitted[j] - admitted[i]) + rewound

\* Inductive.
RateInv ==
  /\ webClock \in 0..MaxClock /\ rewound \in Nat
  /\ read \in [Threads -> 0..Web!Idle]
  /\ admitted \in Seq(0..MaxClock)
  /\ \/ bucket = Web!None /\ admitted = <<>>
     \/ bucket \in [tokens : 0..Capacity, at : 0..MaxClock] /\ FromEach
  /\ BetweenAny

LEMMA RateStarts == ASSUME RateConstants, Web!RateInit PROVE RateInv
BY DEF RateConstants, Web!RateInit, RateInv, BetweenAny, Web!Idle

LEMMA LimitKeeps ==
  ASSUME RateConstants, RateInv, NEW t \in Threads, Web!rate_limit(t)
  PROVE  RateInv'
<1> DEFINE r == read[t]
           entry == IF bucket = Web!None
                      THEN [tokens |-> Capacity, at |-> r]
                      ELSE bucket
           e == Web!duration_since(r, entry.at)
           b == Web!duration_since(entry.at, r)
           k == Web!Refill(entry.tokens, e)
           n == Len(admitted)
<1>1. r \in 0..MaxClock /\ MaxClock \in Nat /\ Capacity \in Nat /\ rewound \in Nat
      /\ n \in Nat /\ admitted \in Seq(0..MaxClock) /\ DOMAIN admitted = 1..n
      /\ \A i \in 1..n : admitted[i] \in 0..MaxClock
  BY DEF RateInv, RateConstants, Web!rate_limit, Web!Idle
<1>2. entry \in [tokens : 0..Capacity, at : 0..MaxClock]
  BY <1>1 DEF RateInv
<1>3. \A i \in 1..n : n - i + 1 + entry.tokens <= Capacity + (entry.at - admitted[i]) + rewound
  <2>1. CASE bucket = Web!None /\ admitted = <<>>
    BY <2>1, <1>1
  <2>2. CASE bucket \in [tokens : 0..Capacity, at : 0..MaxClock] /\ FromEach
    <3>1. entry = bucket
      BY <2>2, <1>1 DEF Web!None
    <3> HIDE DEF entry
    <3> QED
      BY <2>2, <3>1, <1>1 DEF FromEach
  <2> QED
    BY <2>1, <2>2 DEF RateInv
<1>4. /\ bucket' = [tokens |-> IF k >= 1
                                 THEN k - 1
                                 ELSE k, at |-> r]
      /\ admitted' = IF k >= 1
                       THEN Append(admitted, r)
                       ELSE admitted
      /\ rewound' = rewound + b
      /\ read' = [read EXCEPT ![t] = Web!Idle] /\ webClock' = webClock
  BY DEF Web!rate_limit
<1> DEFINE et == entry.tokens
           at == entry.at
<1>5. et \in 0..Capacity /\ at \in 0..MaxClock
  BY <1>2
<1>6. e \in Nat /\ b \in Nat /\ r - at = e - b /\ k = (IF et + e > Capacity
                                                         THEN Capacity
                                                         ELSE et + e)
  <2> HIDE DEF r, entry
  <2> QED
    BY <1>1, <1>5 DEF Web!duration_since, Web!Refill
<1>7. k \in 0..Capacity /\ k <= et + e
  <2> HIDE DEF r, entry, e, k, et
  <2> QED
    BY <1>1, <1>5, <1>6
<1>8. BetweenAny
  BY DEF RateInv
<1> HIDE DEF r, entry, e, b, k, n, et, at
<1>12. /\ b \in Nat /\ rewound \in Nat /\ Capacity \in Nat /\ k \in Nat /\ n \in Nat /\ r \in Nat
       /\ \A i \in 1..n : admitted[i] \in Nat
  BY <1>1, <1>6, <1>7
<1>9. \A i \in 1..n : n - i + 1 + k <= Capacity + (r - admitted[i]) + (rewound + b)
  <2> SUFFICES ASSUME NEW i \in 1..n
               PROVE  n - i + 1 + k <= Capacity + (r - admitted[i]) + (rewound + b)
    OBVIOUS
  <2>1. n - i + 1 + et <= Capacity + (at - admitted[i]) + rewound
    BY <1>3 DEF et, at
  <2> DEFINE x == admitted[i]
  <2>2. x \in Nat /\ et \in Nat /\ at \in Nat /\ e \in Nat
    BY <1>5, <1>6, <1>12
  <2> HIDE DEF x
  <2>3. n - i + 1 + et <= Capacity + (at - x) + rewound
    BY <2>1 DEF x
  <2>4. r - at = e - b /\ k <= et + e
    BY <1>6, <1>7
  <2>5. n - i + 1 + k <= Capacity + (at - x) + rewound + e
    BY <2>2, <2>3, <2>4, <1>12
  <2>6. at + e = r + b
    BY <2>2, <2>4, <1>12
  <2>7. Capacity + (at - x) + rewound + e = Capacity + (r - x) + (rewound + b)
    BY <2>2, <2>6, <1>12
  <2>8. n - i + 1 + k <= Capacity + (r - x) + (rewound + b)
    BY <2>5, <2>7
  <2> QED
    BY <2>8 DEF x
<1>10. CASE ~(k >= 1)
  <2>1. /\ bucket' = [tokens |-> k, at |-> r] /\ admitted' = admitted /\ rewound' = rewound + b
    BY <1>4, <1>10
  <2>2. FromEach'
    BY <2>1, <1>1, <1>9 DEF FromEach, n
  <2>3. BetweenAny'
    <3> SUFFICES ASSUME NEW i \in 1..n, NEW j \in 1..n, i < j
                 PROVE  j - i + 1 <= Capacity + (admitted[j] - admitted[i]) + (rewound + b)
      BY <2>1, <1>1 DEF BetweenAny
    <3>1. j - i + 1 <= Capacity + (admitted[j] - admitted[i]) + rewound
      BY <1>1, <1>8 DEF BetweenAny
    <3> DEFINE x == admitted[i]
               y == admitted[j]
    <3>2. x \in Nat /\ y \in Nat
      BY <1>12
    <3> HIDE DEF x, y
    <3>3. j - i + 1 <= Capacity + (y - x) + rewound
      BY <3>1 DEF x, y
    <3>4. j - i + 1 <= Capacity + (y - x) + (rewound + b)
      BY <3>2, <3>3, <1>12
    <3> QED
      BY <3>4 DEF x, y
  <2> QED
    BY <2>1, <2>2, <2>3, <1>1, <1>4, <1>6, <1>7 DEF RateInv, Web!Idle
<1>11. CASE k >= 1
  <2>1. /\ bucket' = [tokens |-> k - 1, at |-> r] /\ rewound' = rewound + b
        /\ admitted' = Append(admitted, r)
    BY <1>4, <1>11
  <2>2. /\ admitted' \in Seq(0..MaxClock) /\ Len(admitted') = n + 1
             /\ DOMAIN admitted' = 1..(n + 1)
        /\ \A i \in 1..n : admitted'[i] = admitted[i]
        /\ admitted'[n + 1] = r
    BY <2>1, <1>1 DEF n
  <2>3. \A i \in 1..(n + 1) :
          (n + 1) - i + 1 + (k - 1) <= Capacity + (r - admitted'[i]) + (rewound + b)
    <3> SUFFICES ASSUME NEW i \in 1..(n + 1)
                 PROVE  (n + 1) - i + 1 + (k - 1) <= Capacity + (r - admitted'[i]) + (rewound + b)
      OBVIOUS
    <3>1. CASE i = n + 1
      BY <3>1, <2>2, <1>1, <1>6, <1>7
    <3>2. CASE i # n + 1
      <4>1. i \in 1..n
        BY <3>2, <1>1
      <4>2. n - i + 1 + k <= Capacity + (r - admitted[i]) + (rewound + b)
            /\ admitted'[i] = admitted[i]
        BY <4>1, <2>2, <1>9
      <4> DEFINE x == admitted[i]
      <4>3. x \in Nat
        BY <4>1, <1>12
      <4> HIDE DEF x
      <4>4. n - i + 1 + k <= Capacity + (r - x) + (rewound + b)
        BY <4>2 DEF x
      <4>5. (n + 1) - i + 1 + (k - 1) <= Capacity + (r - x) + (rewound + b)
        BY <4>1, <4>3, <4>4, <1>12
      <4> QED
        BY <4>2, <4>5 DEF x
    <3> QED
      BY <3>1, <3>2
  <2>4. FromEach'
    BY <2>1, <2>2, <2>3 DEF FromEach
  <2>5. BetweenAny'
    <3> SUFFICES ASSUME NEW i \in 1..(n + 1), NEW j \in 1..(n + 1), i < j
                 PROVE  j - i + 1 <= Capacity + (admitted'[j] - admitted'[i]) + (rewound + b)
      BY <2>1, <2>2 DEF BetweenAny
    <3> DEFINE x == admitted[i]
               y == admitted[j]
    <3>1. i \in 1..n /\ admitted'[i] = x /\ x \in Nat
      BY <2>2, <1>1, <1>12
    <3> HIDE DEF x, y
    <3>2. CASE j = n + 1
      <4>1. n - i + 1 + k <= Capacity + (r - x) + (rewound + b)
        BY <3>1, <1>9 DEF x
      <4>2. j - i + 1 <= Capacity + (r - x) + (rewound + b)
        BY <4>1, <3>1, <3>2, <1>11, <1>12
      <4> QED
        BY <4>2, <3>1, <3>2, <2>2
    <3>3. CASE j # n + 1
      <4>1. j \in 1..n /\ admitted'[j] = y /\ y \in Nat
        BY <3>3, <2>2, <1>1, <1>12 DEF y
      <4>2. j - i + 1 <= Capacity + (y - x) + rewound
        BY <3>1, <4>1, <1>1, <1>8 DEF BetweenAny, x, y
      <4>3. j - i + 1 <= Capacity + (y - x) + (rewound + b)
        BY <3>1, <4>1, <4>2, <1>12
      <4> QED
        BY <3>1, <4>1, <4>3
    <3> QED
      BY <3>2, <3>3
  <2>6. bucket' \in [tokens : 0..Capacity, at : 0..MaxClock]
    BY <2>1, <1>1, <1>7, <1>11
  <2> QED
    BY <2>1, <2>2, <2>4, <2>5, <2>6, <1>1, <1>4, <1>6 DEF RateInv, Web!Idle
<1> QED
  BY <1>10, <1>11

LEMMA RateSteps == ASSUME RateConstants, RateInv, [Web!RateNext]_(Web!rateVars) PROVE RateInv'
<1>1. CASE Web!Tick
  BY <1>1 DEF RateInv, Web!Tick, FromEach, BetweenAny, RateConstants
<1>2. ASSUME NEW t \in Threads, Web!ReadClock(t) PROVE RateInv'
  BY <1>2 DEF RateInv, Web!ReadClock, FromEach, BetweenAny, Web!Idle, RateConstants
<1>3. CASE UNCHANGED Web!rateVars
  BY <1>3 DEF RateInv, Web!rateVars, FromEach, BetweenAny
<1> QED
  BY <1>1, <1>2, <1>3, LimitKeeps DEF Web!RateNext

LEMMA RateSafe == ASSUME RateConstants, RateInv PROVE Web!RateTypeOK /\ Web!BurstsAreBounded
<1>1. Web!RateTypeOK
  BY DEF RateInv, Web!RateTypeOK
<1>2. Web!BurstsAreBounded
  <2> SUFFICES ASSUME NEW i \in DOMAIN admitted, NEW j \in DOMAIN admitted, i < j
               PROVE  j - i + 1 <= Capacity + Web!duration_since(admitted[j],
                        admitted[i]) + rewound
    BY DEF Web!BurstsAreBounded
  <2>1. j - i + 1 <= Capacity + (admitted[j] - admitted[i]) + rewound
    BY DEF RateInv, BetweenAny
  <2>2. admitted[i] \in Nat /\ admitted[j] \in Nat /\ i \in Nat /\ j \in Nat /\ rewound \in Nat
        /\ Capacity \in Nat
    BY DEF RateInv, RateConstants
  <2> QED
    BY <2>1, <2>2 DEF Web!duration_since
<1> QED
  BY <1>1, <1>2

UpgradeConstants == MaxUpgraded \in Nat /\ MaxUpgrades \in Nat

UpgradeInv ==
  /\ Web!UpgradeTypeOK /\ Web!RoomIsKept /\ Web!OnlyGatedUpgrade
  /\ upgradeTotal \in Nat

LEMMA UpgradeStarts == ASSUME UpgradeConstants, Web!UpgradeInit PROVE UpgradeInv
BY DEF UpgradeConstants, Web!UpgradeInit, UpgradeInv, Web!UpgradeTypeOK, Web!RoomIsKept,
   Web!OnlyGatedUpgrade

LEMMA UpgradeSteps == ASSUME UpgradeConstants, UpgradeInv,
  [Web!UpgradeNext]_(Web!upgradeVars) PROVE UpgradeInv'
<1> USE DEF UpgradeConstants, UpgradeInv, Web!UpgradeTypeOK, Web!RoomIsKept, Web!OnlyGatedUpgrade
<1>1. CASE Web!Release
  BY <1>1 DEF Web!Release
<1>2. ASSUME NEW w \in UpgradeWorkers, Web!adopt(w) PROVE UpgradeInv'
  BY <1>2 DEF Web!adopt
<1>3. ASSUME NEW w \in UpgradeWorkers, NEW req \in Web!Handshakes, Web!upgrade_response(w, req)
      PROVE  UpgradeInv'
  <2> DEFINE status == Web!Refusal(req, upgradeTotal < MaxUpgraded)
  <2>1. status = 101 => req.origin = "listed" /\ req.authorized /\ req.upgrade /\ req.key
    BY DEF Web!Refusal, Web!OriginAllowed, Web!Handshakes
  <2>2. /\ seen' = seen + 1 /\ seen < MaxUpgrades
        /\ upgradeLast' = [req |-> req, status |-> status]
        /\ phase' = [phase EXCEPT ![w] = IF status = 101
                                           THEN "switched"
                                           ELSE "idle"]
        /\ UNCHANGED <<upgradeTotal, adopted, cut>>
    BY <1>3 DEF Web!upgrade_response
  <2> HIDE DEF status
  <2> QED
    BY <2>1, <2>2
<1>4. CASE UNCHANGED Web!upgradeVars
  BY <1>4 DEF Web!upgradeVars
<1> QED
  BY <1>1, <1>2, <1>3, <1>4 DEF Web!UpgradeNext

\* into_service and run keep their promises for any routes, tools, requests and
\* workers: the operators' surface and the tools are behind the guard, a 404 and a
\* 405 are true, the first route that matches answers, the gauge is off by the
\* panics exactly, and nothing outlives run.
THEOREM ServiceIsSafe == WebConstants => (Web!Spec => []WebSafety)
<1> SUFFICES ASSUME WebConstants
             PROVE  Web!Spec => []WebSafety
  OBVIOUS
<1>1. Web!Init => WebInv
  BY WebInit
<1>2. WebInv /\ [Web!Next]_(Web!vars) => WebInv'
  BY WebNext
<1>3. WebInv => WebSafety
  BY WebSafe
<1> QED
  BY <1>1, <1>2, <1>3, PTL DEF Web!Spec

\* Whatever the workers' order at the lock, rate_limit lets through no more than a
\* full bucket, what the time between refilled, and the time given back.
THEOREM BurstsStayBounded == RateConstants => (Web!RateSpec => []Web!BurstsAreBounded)
<1> SUFFICES ASSUME RateConstants
             PROVE  Web!RateSpec => []Web!BurstsAreBounded
  OBVIOUS
<1>1. Web!RateInit => RateInv
  BY RateStarts
<1>2. RateInv /\ [Web!RateNext]_(Web!rateVars) => RateInv'
  BY RateSteps
<1>3. RateInv => Web!BurstsAreBounded
  BY RateSafe
<1> QED
  BY <1>1, <1>2, <1>3, PTL DEF Web!RateSpec

\* However many workers sent their 101 for the same room, the cap holds, and no
\* socket is promised past the origin check and the gate (upgrade_response, adopt).
THEOREM UpgradesAreGated ==
  UpgradeConstants => (Web!UpgradeSpec => [](Web!RoomIsKept /\ Web!OnlyGatedUpgrade))
<1> SUFFICES ASSUME UpgradeConstants
             PROVE  Web!UpgradeSpec => [](Web!RoomIsKept /\ Web!OnlyGatedUpgrade)
  OBVIOUS
<1>1. Web!UpgradeInit => UpgradeInv
  BY UpgradeStarts
<1>2. UpgradeInv /\ [Web!UpgradeNext]_(Web!upgradeVars) => UpgradeInv'
  BY UpgradeSteps
<1>3. UpgradeInv => Web!RoomIsKept /\ Web!OnlyGatedUpgrade
  BY DEF UpgradeInv
<1> QED
  BY <1>1, <1>2, <1>3, PTL DEF Web!UpgradeSpec

=============================================================================
