----------------------------- MODULE MCProgress -----------------------------
(***************************************************************************)
(* What must eventually happen, under the fairness the threads give: the   *)
(* components that wait, retry, poll or shut down, on small instances.  A  *)
(* behaviour takes the steps of one component, chosen by part; the others  *)
(* stay as they begin, and their fairness asks nothing.                    *)
(***************************************************************************)
EXTENDS Integers, Sequences

CONSTANTS Parts, NONE, Wrong

\* The component whose steps a behaviour takes.
VARIABLE part

VARIABLES strategy, spc, cur, supFrom, ending, supInbox, recent, supGen, join,
          stat, restarts, thr, stopq, now, exits, supShutdown, supEvents
VARIABLES supervised, boxGen, thread, box, mlen, kept, cpc, boxCall, ref, chan,
          boxResult, boxOps, drift
VARIABLES projEvents, requests, projAnswer, position, model, projLock, wpc,
          projFrom, projBatch, handled, stop, rebuilding, projFaults
VARIABLES up, local, entry, remote, live, nextSub, presInbox, pend, due,
          presOps, presFaults
VARIABLES psHeard, publisher, mutex, psPc, attempt, psSent, again, psListener,
          psQueue, buffered, handles, psShutdown, psFaults
VARIABLES open, idle, tpc, leaked
VARIABLES watchBackend, db, txn, owner, watchOut, opened, hooked, hook,
          trigger, pump, feed, watchWorker, watchCall, rows, snapshot,
          watchQueue, view, writes, watchHeard
VARIABLES lockBackend, lockPc, registry, session, late, lockCut
VARIABLES bucket, s3Call, s3Wire, step, s3Out, token, pages, s3Result, s3Seen,
          changes, s3Faults, s3Calls
VARIABLES cache, seq, broken, pgCall, got, pgResult, pgInbox, outbox, named,
          portal, unnamed, skipping, schema, pgCalls, timeouts, failures,
          notices, password, server, phase, scram, sstate, pgSeen, toServer,
          toClient, pgCut
VARIABLES reWorker, sender, cmds, reInbox, pipe, pending, rePc, reBatch, todo,
          s, reWire, peer, reSent, handle, misrouted, reclaimed
VARIABLES backlog, acceptor, handing, httpShutdown, httpQueue, httpLock,
          httpWorker, conn, httpSent, replies, gone
VARIABLES webWorker, stage, webAnswer, in_flight, total, class, panicked,
          served, last, main, webShutdown, webListener

Off == "off"
Word == 8

\* Appends of two events, whatever the stream's version.
AnyVersion(q, v) == q.expected = -1

\* One guarded route, and requests that meet it, miss it or lack the token.
Seg(k, n) == [kind |-> k, name |-> n]
Route(m, p, g) == [method |-> m, segs |-> p, guarded |-> g, does |-> "app"]
Request(p, a) == [path |-> p, exact |-> TRUE, method |-> "GET", auth |-> a, body |-> "bad"]
Requested == {Request(p, a) : p \in {<<"a">>, <<"b">>}, a \in BOOLEAN}
Routes == <<Route("GET", <<Seg("lit", "a")>>, TRUE)>>

Sup == INSTANCE Supervisor
  WITH N <- 2, Policy <- <<"Permanent", "Transient">>,
       Strategies <- {"OneForOne", "OneForAll"}, MaxRestarts <- 1, Window <- 1,
       MaxExits <- 2, MaxTime <- 1, from <- supFrom, inbox <- supInbox,
       gen <- supGen, shutdown <- supShutdown, events <- supEvents

Box == INSTANCE ActorMailbox
  WITH Clients <- {"c1"}, Cap <- 1, MaxGen <- 2, MaxOps <- 2, gen <- boxGen,
       call <- boxCall, result <- boxResult, ops <- boxOps

Proj == INSTANCE Projections
  WITH Pods <- {"p1", "p2"}, Names <- {"totals"}, Batch <- 1, Calls <- {1},
       Requests <- [stream : {"s"}, expected : {-1}, n : {2}],
       Matches <- AnyVersion, MaxFaults <- 1, MayPanic <- FALSE,
       Rebuilds <- "none", events <- projEvents, answer <- projAnswer,
       lock <- projLock, from <- projFrom, batch <- projBatch,
       faults <- projFaults

Presence == INSTANCE Presence
  WITH Pods <- {"p", "q"}, Conns <- {"a", "b"}, Keys <- {"k"},
       Home <- [c \in {"a", "b"} |-> IF c = "a" THEN "p" ELSE "q"],
       MaxOps <- 1, MaxFaults <- 1, inbox <- presInbox, ops <- presOps,
       faults <- presFaults

PubSub == INSTANCE PgPubSub
  WITH Pods <- {"p"}, Threads <- {"a", "b"},
       PodOf <- [t \in {"a", "b"} |-> "p"], MaxMsgs <- 1, MaxFaults <- 1,
       heard <- psHeard, pc <- psPc, sent <- psSent, listener <- psListener,
       queue <- psQueue, shutdown <- psShutdown, faults <- psFaults

Pool == INSTANCE ConnectionPool
  WITH Threads <- {"t1", "t2", "t3"}, MaxSize <- 2, Discards <- TRUE,
       MayPanic <- TRUE

Watching == INSTANCE Watch
  WITH Conns <- {"c1"}, Keys <- {"k"}, Contents <- {1}, MaxWrites <- 2,
       backend <- watchBackend, out <- watchOut, worker <- watchWorker,
       call <- watchCall, queue <- watchQueue, heard <- watchHeard

Locks == INSTANCE AdvisoryLock
  WITH Callers <- {"c1", "c2"}, NamespaceOf <- [c \in {"c1", "c2"} |-> "n"],
       None <- NONE, backend <- lockBackend, pc <- lockPc, cut <- lockCut

S3 == INSTANCE S3Storage
  WITH Keys <- 1..2, Markers <- {}, ListPrefixes <- {1..2}, Bodies <- {"a"},
       None <- NONE, PageSize <- 1, MaxListKeys <- 1, MaxChanges <- 0,
       MaxFaults <- 1, MaxCalls <- 1, call <- s3Call, wire <- s3Wire,
       out <- s3Out, result <- s3Result, seen <- s3Seen, faults <- s3Faults,
       calls <- s3Calls

Pg == INSTANCE PgClient
  WITH Sqls <- {"q"}, Ddl <- "ddl", CacheMax <- 1, None <- NONE, MaxCalls <- 2,
       MaxTimeouts <- 1, MaxFailures <- 1, MaxNotices <- 0, Passwords <- {"p"},
       User <- "u", Methods <- {"md5", "scram", "gss"}, Iterations <- {2},
       IterMax <- 4, AuthNone <- NONE, Ints <- {0}, Texts <- {<<>>},
       Names <- {<<>>}, MaxCols <- 1, cols <- Off, failed <- Off,
       arrived <- Off, call <- pgCall, result <- pgResult, inbox <- pgInbox,
       calls <- pgCalls, seen <- pgSeen, cut <- pgCut

Reactor == INSTANCE Reactor
  WITH Conns <- {"c1"}, Ips <- {"near"}, IpOf <- [c \in {"c1"} |-> "near"],
       MaxTotal <- 1, MaxPerIp <- 1, MaxBuffered <- 2, FramesPerWake <- 1,
       Grace <- 1, PingAfter <- 1, IdleAfter <- 2,
       PeerStates <- {"reading", "stalled"}, Frames <- {"data", "close"},
       MaxFrames <- 1, MaxCmds <- 1, worker <- reWorker, inbox <- reInbox,
       pc <- rePc, batch <- reBatch, wire <- reWire, sent <- reSent

Http == INSTANCE HttpServer
  WITH Clients <- {"a"}, Workers <- {"w1", "w2"}, MaxPending <- 1,
       KeepAliveMax <- 2, Kinds <- {"keep", "panic"}, MaxRequests <- 2,
       shutdown <- httpShutdown, queue <- httpQueue, lock <- httpLock,
       worker <- httpWorker, sent <- httpSent

Web == INSTANCE WebService
  WITH Workers <- {"w1"}, Listeners <- {"l"}, Requests <- Requested,
       AppRoutes <- Routes, Tools <- [unary |-> FALSE], MaxRequests <- 1,
       Panics <- TRUE, Threads <- {}, Capacity <- 1, MaxClock <- 1,
       MaxAdmitted <- 1, UpgradeWorkers <- {}, MaxTotal <- 1, MaxUpgrades <- 1,
       clock <- Off, bucket <- Off, read <- Off, admitted <- Off,
       rewound <- Off, phase <- Off, upgradeTotal <- Off, upgradeLast <- Off,
       adopted <- Off, dropped <- Off, seen <- Off, worker <- webWorker,
       answer <- webAnswer, shutdown <- webShutdown, listener <- webListener

supervisorVars == <<strategy, spc, cur, supFrom, ending, supInbox, recent,
                    supGen, join, stat, restarts, thr, stopq, now, exits,
                    supShutdown, supEvents>>
mailboxVars == <<supervised, boxGen, thread, box, mlen, kept, cpc, boxCall,
                 ref, chan, boxResult, boxOps, drift>>
projectionsVars == <<projEvents, requests, projAnswer, position, model,
                     projLock, wpc, projFrom, projBatch, handled, stop,
                     rebuilding, projFaults>>
presenceVars == <<up, local, entry, remote, live, nextSub, presInbox, pend,
                  due, presOps, presFaults>>
pubsubVars == <<psHeard, publisher, mutex, psPc, attempt, psSent, again,
                psListener, psQueue, buffered, handles, psShutdown, psFaults>>
poolVars == <<open, idle, tpc, leaked>>
watchVars == <<watchBackend, db, txn, owner, watchOut, opened, hooked, hook,
               trigger, pump, feed, watchWorker, watchCall, rows, snapshot,
               watchQueue, view, writes, watchHeard>>
locksVars == <<lockBackend, lockPc, registry, session, late, lockCut>>
s3Vars == <<bucket, s3Call, s3Wire, step, s3Out, token, pages, s3Result,
            s3Seen, changes, s3Faults, s3Calls>>
pgVars == <<cache, seq, broken, pgCall, got, pgResult, pgInbox, outbox, named,
            portal, unnamed, skipping, schema, pgCalls, timeouts, failures,
            notices>>
authVars == <<password, server, phase, scram, sstate, pgSeen, toServer,
              toClient, pgCut>>
reactorVars == <<reWorker, sender, cmds, reInbox, pipe, pending, rePc, reBatch,
                 todo, s, reWire, peer, reSent, handle, misrouted, reclaimed>>
httpVars == <<backlog, acceptor, handing, httpShutdown, httpQueue, httpLock,
              httpWorker, conn, httpSent, replies, gone>>
webVars == <<webWorker, stage, webAnswer, in_flight, total, class, panicked,
             served, last, main, webShutdown, webListener>>
allVars == <<part, supervisorVars, mailboxVars, projectionsVars, presenceVars,
             pubsubVars, poolVars, watchVars, locksVars, s3Vars, pgVars,
             authVars, reactorVars, httpVars, webVars>>

MCInit ==
  /\ part \in Parts
  /\ Sup!Init /\ (part # "supervisor" => strategy = "OneForOne")
  /\ Box!Init /\ (part # "mailbox" => supervised)
  /\ Proj!Init
  /\ Presence!Init
  /\ PubSub!Init
  /\ Pool!Init
  /\ Watching!Init /\ (part # "watch" => watchBackend = "sqlite")
  /\ Locks!Init /\ (part # "locks" => lockBackend = "sqlite")
  /\ S3!Init /\ (part # "s3" => bucket = [k \in 1..2 |-> NONE])
  /\ Pg!Init
  /\ Pg!AuthInit /\ (part # "auth" => server.method = "md5")
  /\ Reactor!Init
  /\ Http!Init
  /\ Web!Init

\* The components that are not under test keep still.
Rest ==
  /\ part' = part
  /\ part # "supervisor" => UNCHANGED supervisorVars
  /\ part # "mailbox" => UNCHANGED mailboxVars
  /\ part # "projections" => UNCHANGED projectionsVars
  /\ part # "presence" => UNCHANGED presenceVars
  /\ part # "pubsub" => UNCHANGED pubsubVars
  /\ part # "pool" => UNCHANGED poolVars
  /\ part # "watch" => UNCHANGED watchVars
  /\ part # "locks" => UNCHANGED locksVars
  /\ part # "s3" => UNCHANGED s3Vars
  /\ part # "pg" => UNCHANGED pgVars
  /\ part # "auth" => UNCHANGED authVars
  /\ part # "reactor" => UNCHANGED reactorVars
  /\ part # "http" => UNCHANGED httpVars
  /\ part # "web" => UNCHANGED webVars

SupervisorStep == part = "supervisor" /\ Sup!Next /\ Rest
MailboxStep == part = "mailbox" /\ Box!Next /\ Rest
ProjectionsStep == part = "projections" /\ Proj!Next /\ Rest
PresenceStep == part = "presence" /\ Presence!Next /\ Rest
PubsubStep == part = "pubsub" /\ PubSub!Next /\ Rest
PoolStep == part = "pool" /\ Pool!Next /\ Rest
WatchStep == part = "watch" /\ Watching!Next /\ Rest
LocksStep == part = "locks" /\ Locks!Next /\ Rest
S3Step == part = "s3" /\ S3!Next /\ Rest
PgStep == part = "pg" /\ Pg!Next /\ Rest
AuthStep == part = "auth" /\ Pg!AuthNext /\ Rest
ReactorStep == part = "reactor" /\ Reactor!Next /\ Rest
HttpStep == part = "http" /\ Http!Next /\ Rest
WebStep == part = "web" /\ Web!Next /\ Rest

MCNext ==
  \/ SupervisorStep \/ MailboxStep \/ ProjectionsStep \/ PresenceStep \/
     PubsubStep \/ PoolStep \/ WatchStep \/ LocksStep \/ S3Step \/ PgStep \/
     AuthStep \/ ReactorStep \/ HttpStep \/ WebStep

(***************************************************************************)
(* Fairness: the threads of the component under test run (WF); a lock that *)
(* is free again and again is taken (SF).                                  *)
(***************************************************************************)

SupervisorFair ==
  /\ WF_supervisorVars(part = "supervisor" /\ Sup!SupervisorStep)
  /\ \A c \in Sup!Children, g \in Sup!Gens :
       WF_supervisorVars(part = "supervisor"
                           /\ (Sup!Started(c, g) \/ Sup!TakeStop(c, g) \/ Sup!Report(c, g)))

MailboxFair ==
  /\ WF_mailboxVars(part = "mailbox" /\ (Box!Receive \/ Box!HangUp))
  /\ WF_mailboxVars(part = "mailbox" /\ Box!Return)
  /\ WF_mailboxVars(part = "mailbox" /\ Box!ThreadEnds)
  /\ WF_mailboxVars(part = "mailbox" /\ (Box!Count("c1") \/ Box!AskReturns("c1")))

ProjectionsFair ==
  /\ \A w \in Proj!Workers :
       WF_projectionsVars(part = "projections" /\ (Proj!Tick(w) \/ Proj!PollTimeout(w)))
  /\ \A pod \in {"p1", "p2"} :
       /\ WF_projectionsVars(part = "projections" /\ Proj!Start(pod))
       /\ WF_projectionsVars(part = "projections" /\ Proj!Joined(pod))
  /\ WF_projectionsVars(part = "projections" /\ Proj!Migrate("totals"))
  /\ WF_projectionsVars(part = "projections" /\ Proj!Reset("totals"))

PresenceFair ==
  /\ \A t \in Presence!Threads :
       WF_presenceVars(part = "presence" /\ (Presence!Unsubscribe(t) \/ Presence!PublishAction(t)))
  /\ \A p \in {"p", "q"} :
       /\ WF_presenceVars(part = "presence" /\ Presence!OnBrokerMessage(p))
       /\ WF_presenceVars(part = "presence" /\ Presence!Housekeep(p))
  /\ WF_presenceVars(part = "presence" /\ Presence!Tick)

PubsubFair ==
  /\ \A t \in {"a", "b"} :
       /\ WF_pubsubVars(part = "pubsub" /\ PubSub!Lock(t))
       /\ WF_pubsubVars(part = "pubsub" /\ PubSub!Connect(t))
       /\ WF_pubsubVars(part = "pubsub" /\ PubSub!NotifyOk(t))
  /\ WF_pubsubVars(part = "pubsub" /\ PubSub!Recv("p"))
  /\ WF_pubsubVars(part = "pubsub" /\ PubSub!Reconnect("p"))
  /\ WF_pubsubVars(part = "pubsub" /\ PubSub!Listened("p"))

PoolFair ==
  \A t \in {"t1", "t2", "t3"} :
    /\ WF_poolVars(part = "pool" /\ tpc[t] = "woken" /\ Pool!Checkout(t))
    /\ WF_poolVars(part = "pool" /\ Pool!Connect(t))
    /\ WF_poolVars(part = "pool" /\ Pool!Finish(t))

WatchFair ==
  /\ WF_watchVars(part = "watch" /\ Watching!Recv)
  /\ WF_watchVars(part = "watch" /\ Watching!Requery)
  /\ WF_watchVars(part = "watch" /\ Watching!RecvChange)

LocksFair ==
  \A c \in {"c1", "c2"} :
    /\ WF_locksVars(part = "locks" /\ (Locks!Poll(c) \/ Locks!Wake(c)))
    /\ WF_locksVars(part = "locks" /\ (Locks!Deadline(c) \/ Locks!StatementTimeout(c)))
    /\ WF_locksVars(part = "locks" /\ Locks!Drop(c))
    /\ WF_locksVars(part = "locks" /\ (Locks!LiftTimeout(c) \/ Locks!LiftFails(c)))
    /\ WF_locksVars(part = "locks" /\ Locks!TxEnd(c))
    /\ WF_locksVars(part = "locks" /\ c \in lockCut /\ Locks!SessionLost(c))

ClientsFair ==
  /\ WF_s3Vars(part = "s3" /\ S3!Serve)
  /\ WF_s3Vars(part = "s3" /\ S3!Handle)
  /\ WF_pgVars(part = "pg" /\ Pg!recv)
  /\ WF_pgVars(part = "pg" /\ Pg!Serve)
  /\ WF_authVars(part = "auth" /\ Pg!startup)
  /\ WF_authVars(part = "auth" /\ (Pg!authRecv \/ Pg!RecvClosed))
  /\ WF_authVars(part = "auth" /\ Pg!AuthServe)

ReactorFair ==
  /\ WF_reactorVars(part = "reactor" /\ (Reactor!ShardStep \/ Reactor!NoSweep \/ Reactor!Sweep))
  /\ WF_reactorVars(part = "reactor" /\ Reactor!WakeCmd)
  /\ WF_reactorVars(part = "reactor" /\ Reactor!WorkerStep("c1"))

HttpFair ==
  /\ WF_httpVars(part = "http" /\ Http!AcceptorStep)
  /\ \A w \in {"w1", "w2"} :
       WF_httpVars(part = "http" /\ (Http!Recv(w) \/ Http!Disconnected(w) \/ Http!Serve(w)
                                      \/ Http!IdleOut(w)))

WebFair ==
  /\ WF_webVars(part = "web" /\ (Web!Answer("w1") \/ Web!Finish("w1")))
  /\ WF_webVars(part = "web" /\ (Web!ServerReturns \/ Web!StopListeners \/ Web!JoinListeners))
  /\ WF_webVars(part = "web" /\ Web!ListenerEnds("l"))

\* The row a worker waits for, the sweep whose time comes again and again, and
\* the receiver the workers share.
GrantedInTheEnd ==
  /\ \A w \in Proj!Workers : SF_projectionsVars(part = "projections" /\ Proj!Claim(w))
  /\ SF_reactorVars(part = "reactor" /\ Reactor!Sweep)
  /\ \A w \in {"w1", "w2"} : SF_httpVars(part = "http" /\ Http!LockReceiver(w))

MCSpec ==
  /\ MCInit /\ [][MCNext]_allVars
  /\ SupervisorFair /\ MailboxFair /\ ProjectionsFair /\ PresenceFair /\ PubsubFair
  /\ PoolFair /\ WatchFair /\ LocksFair /\ ClientsFair /\ ReactorFair /\ HttpFair /\ WebFair /\ GrantedInTheEnd

(***************************************************************************)
(* What the run checks.                                                    *)
(***************************************************************************)

\* A crashed child that is due runs again or the supervisor gives up, and a
\* shutdown ends; an actor told to stop, or that nobody refers to, ends; a
\* projection applies what was appended, and ends when stopped; the
\* presence lists of the pods agree once changes and faults stop; a publish
\* returns, connection lost or not.
RealtimeProgress ==
  /\ part = "supervisor" => Sup!CrashedComesBack /\ Sup!ShutdownEnds
  /\ part = "mailbox" => Box!StopEnds /\ Box!LastRefEnds
  /\ part = "projections" => Proj!CatchesUp /\ Proj!StopEnds
  /\ part = "presence" => Presence!EventuallyAgree
  /\ part = "pubsub" => PubSub!PublishReturns

\* Who waits for a connection is woken; a watcher sees the last write; a lock
\* is granted or refused in time; a call to the bucket or the database
\* returns, whatever is lost, and so does a handshake.
StoresProgress ==
  /\ part = "pool" => Pool!WaitersWake
  /\ part = "watch" => Watching!EventuallySeen
  /\ part = "locks" => Locks!CallsReturn
  /\ part = "s3" => S3!CallsReturn
  /\ part = "pg" => Pg!CallsReturn
  /\ part = "auth" => Pg!ConnectReturns

\* A connection whose peer stops answering is closed; a drain ends although
\* clients keep their connections; run returns once it was told to.
ServerProgress ==
  /\ part = "reactor" => Reactor!ConnectionsEnd
  /\ part = "http" => Http!DrainEnds
  /\ part = "web" => Web!RunReturns
=============================================================================
