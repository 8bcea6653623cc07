------------------------------ MODULE MCServer ------------------------------
(***************************************************************************)
(* The runs of the servers and of what an application sees of a request:   *)
(* the WebSocket reactor, the HTTP server, the web service with its        *)
(* middleware, the log, accounts, sessions and mail.  A behaviour takes    *)
(* the steps of one component, chosen by part.                             *)
(***************************************************************************)
EXTENDS Naturals, Sequences, TLC, TLAPS

CONSTANTS Parts, NONE, Redacted

\* The component whose steps a behaviour takes.
VARIABLE part

VARIABLES reWorker, sender, cmds, inbox, pipe, pending, rePc, batch, todo, s,
          wire, peer, reSent, handle, misrouted, reclaimed
VARIABLES backlog, acceptor, handing, httpShutdown, queue, lock, httpWorker,
          conn, httpSent, replies, gone
VARIABLES webWorker, stage, answer, in_flight, total, class, panicked, served,
          last, main, webShutdown, listener, webClock, bucket, read, admitted,
          rewound, phase, upgradeTotal, upgradeLast, adopted, dropped, seen
VARIABLES config, counts, recent, logPc, record, context, scopes, captures,
          chosen, frames, passed, emits, locals, seq, requests, ids, now,
          accessContext, accessRecent, written, lines
VARIABLES users, persons, highest, accWorker, accLinks, tokens, accClock, acted
VARIABLES hash, latest, hashes, undone, jar, rows, vals, revoked, redeemed,
          overlaps, sesLinks, resets, late, req, throttleRow, throttleClock,
          sesWorker, hits, lost, begun, cookieClock, cookieJar, page, call,
          minted, live, crossed
VARIABLES transport, creds, caps, draft, asked, script, sending, relay, box,
          result, sends

Off == "off"

\* Log records of two targets, one of which looks like a child of the other's
\* prefix; a field with a secret key; and the filters.
Field(k, v) == [key |-> k, val |-> v]
FieldLists == {<<>>, <<Field("id", 1), Field("token", 2)>>}
LogTargets == {<<"a", ".", "b">>, <<"a", "b">>}
Filters ==
  {[level |-> 1, targets |-> {[target |-> <<"a">>, level |-> 0]}],
   [level |-> 0, targets |-> {[target |-> <<"a">>, level |-> 0],
                              [target |-> <<"a", ".", "b">>, level |-> 1]}]}

\* Addresses as people type them, and what normalisation makes of them.
Normalised ==
  ("Ann@x.io" :> "ann@x.io") @@ ("ann@x.io" :> "ann@x.io") @@ ("bo@x.io" :> "bo@x.io")
    @@ ("nobody" :> "bad")

\* Message bodies with lines that begin with dots.
Bodies == {<< <<"x">>, <<".">> >>, << <<".", "x">>, <<>>, <<".", ".">> >>}

\* A guarded route with a parameter, a literal one beside it, a catch-all.
Seg(k, n) == [kind |-> k, name |-> n]
Route(m, p, g) == [method |-> m, segs |-> p, guarded |-> g, does |-> "app"]
Request(p, e, m, a, b) == [path |-> p, exact |-> e, method |-> m, auth |-> a, body |-> b]
Requested ==
  {Request(p, TRUE, m, a, "bad") :
     p \in {<<"a">>, <<"a", "b">>, <<"f">>, <<"f", "a", "b">>},
     m \in {"GET", "POST"}, a \in BOOLEAN}
  \cup {Request(<<n>>, e, "GET", a, "bad") :
          n \in {"__health", "__metrics", "__tools"}, e \in BOOLEAN, a \in BOOLEAN}
  \cup {Request(p, FALSE, "POST", a, b) :
          p \in {<<"__tools", "unary">>, <<"__tools", "feed">>, <<"__tools", "feed", "stream">>},
          a \in BOOLEAN, b \in {"bad", "json", "fits"}}
  \cup {Request(<<"a">>, TRUE, "OPTIONS", FALSE, "bad")}
Routes ==
  <<Route("GET", <<Seg("lit", "a"), Seg("param", "id")>>, TRUE),
    Route("POST", <<Seg("lit", "a"), Seg("lit", "b")>>, FALSE),
    Route("GET", <<Seg("lit", "f"), Seg("rest", "path")>>, FALSE)>>

\* The reactor, the HTTP server, accounts, mail and the web service, with what is
\* proved about them: two workers of the server, and accounts with verification mails; or
\* one worker and every kind of request, and accounts with API tokens.
Many == INSTANCE ServerProofs
  WITH Clients <- {"a", "b"}, Workers <- {"w1", "w2"}, MaxPending <- 1,
       KeepAliveMax <- 2, Kinds <- {"keep", "panic"}, MaxRequests <- 2,
       shutdown <- httpShutdown, worker <- httpWorker, sent <- httpSent,
       AccountWorkers <- {"w1", "w2"}, Written <- DOMAIN Normalised,
       Normal <- Normalised, ReuseIds <- FALSE, MaxPersons <- 2,
       MaxLinks <- 2, MaxTokens <- 0, Addrs <- {"a", "b"}, Bad <- "bad",
       Contents <- Bodies, Transports <- {"smtp", "sendmail", "memory"},
       None <- NONE, MaxCalls <- 3, MaxSends <- 1,
       Conns <- {"c1", "c3"}, Ips <- {"near", "far"},
       IpOf <- [c \in {"c1", "c3"} |-> IF c = "c3" THEN "far" ELSE "near"],
       MaxTotal <- 1, MaxPerIp <- 1, MaxBuffered <- 2, FramesPerWake <- 1,
       Grace <- 1, PingAfter <- 1, IdleAfter <- 2,
       PeerStates <- {"reading", "stalled", "gone"}, Frames <- {"close"},
       MaxFrames <- 1, MaxCmds <- 1, shard <- s,
       WebWorkers <- {"w1", "w2"}, Listeners <- {"l"}, Requests <- Requested,
       AppRoutes <- Routes, Tools <- [unary |-> FALSE, feed |-> TRUE],
       MaxServed <- 2, Panics <- TRUE, Words <- STRING, Threads <- {"t1", "t2"},
       Capacity <- 1, MaxClock <- 3, MaxAdmitted <- 5,
       UpgradeWorkers <- {"w1", "w2"}, MaxUpgraded <- 1, MaxUpgrades <- 3,
       cut <- dropped

One == INSTANCE ServerProofs
  WITH Clients <- {"a", "b"}, Workers <- {"w1"}, MaxPending <- 1,
       KeepAliveMax <- 2, Kinds <- {"keep", "panic", "refused", "upgrade"}, MaxRequests <- 2,
       shutdown <- httpShutdown, worker <- httpWorker, sent <- httpSent,
       AccountWorkers <- {"w1", "w2"}, Written <- DOMAIN Normalised,
       Normal <- Normalised, ReuseIds <- FALSE, MaxPersons <- 2,
       MaxLinks <- 0, MaxTokens <- 1, Addrs <- {"a", "b"}, Bad <- "bad",
       Contents <- Bodies, Transports <- {"smtp", "sendmail", "memory"},
       None <- NONE, MaxCalls <- 3, MaxSends <- 1,
       Conns <- {"c1", "c3"}, Ips <- {"near", "far"},
       IpOf <- [c \in {"c1", "c3"} |-> IF c = "c3" THEN "far" ELSE "near"],
       MaxTotal <- 1, MaxPerIp <- 1, MaxBuffered <- 2, FramesPerWake <- 1,
       Grace <- 1, PingAfter <- 1, IdleAfter <- 2,
       PeerStates <- {"reading", "stalled", "gone"}, Frames <- {"close"},
       MaxFrames <- 1, MaxCmds <- 1, shard <- s,
       WebWorkers <- {"w1", "w2"}, Listeners <- {"l"}, Requests <- Requested,
       AppRoutes <- Routes, Tools <- [unary |-> FALSE, feed |-> TRUE],
       MaxServed <- 2, Panics <- TRUE, Words <- STRING, Threads <- {"t1", "t2"},
       Capacity <- 1, MaxClock <- 3, MaxAdmitted <- 5,
       UpgradeWorkers <- {"w1", "w2"}, MaxUpgraded <- 1, MaxUpgrades <- 3,
       cut <- dropped

Log == INSTANCE Logging
  WITH Threads <- {"t1", "t2"}, Targets <- LogTargets, Configs <- Filters,
       EnvConfig <- [level |-> 1, targets |-> {}], Unset <- NONE,
       FieldSets <- FieldLists, SecretKeys <- {"token"}, MaxContext <- 3,
       Capacity <- 1, MaxEmits <- 2, MaxLocal <- 2, Workers <- {"w1", "w2"},
       Inbound <- {"abc", "a b"}, Safe <- {"abc"}, TrustIds <- TRUE,
       MinLevel <- 1, AccessCapacity <- 3, AccessMaxContext <- 2,
       MaxRequests <- 3, MaxLines <- 2, NONE <- "none", pc <- logPc

\* Two changes of the password; or one, and a store that may fail.
Sessions == INSTANCE Sessions
  WITH Devices <- {"d"}, Requests <- {"r1", "r2"}, StoreFails <- FALSE,
       MaxHashes <- 3, MaxTokens <- 2, MaxLinks <- 1,
       Workers <- {"w1", "w2", "w3"}, Limit <- 2, Per <- 2,
       ThrottleMaxClock <- 4, MaxHits <- 5, Tabs <- {"t1", "t2"}, Ttl <- 1,
       CookieMaxClock <- 2, CookieMaxTokens <- 3, links <- sesLinks,
       worker <- sesWorker

SessionsFail == INSTANCE Sessions
  WITH Devices <- {"d"}, Requests <- {"r1", "r2"}, StoreFails <- TRUE,
       MaxHashes <- 2, MaxTokens <- 2, MaxLinks <- 1,
       Workers <- {"w1", "w2", "w3"}, Limit <- 2, Per <- 2,
       ThrottleMaxClock <- 4, MaxHits <- 5, Tabs <- {"t1", "t2"}, Ttl <- 1,
       CookieMaxClock <- 2, CookieMaxTokens <- 3, links <- sesLinks,
       worker <- sesWorker

reactorVars == <<reWorker, sender, cmds, inbox, pipe, pending, rePc, batch,
                 todo, s, wire, peer, reSent, handle, misrouted, reclaimed>>
httpVars == <<backlog, acceptor, handing, httpShutdown, queue, lock,
              httpWorker, conn, httpSent, replies, gone>>
webVars == <<webWorker, stage, answer, in_flight, total, class, panicked,
             served, last, main, webShutdown, listener>>
rateVars == <<webClock, bucket, read, admitted, rewound>>
upgradeVars == <<phase, upgradeTotal, upgradeLast, adopted, dropped, seen>>
logVars == <<config, counts, recent, logPc, record, context, scopes, captures,
             chosen, frames, passed, emits, locals>>
accessVars == <<seq, requests, ids, now, accessContext, accessRecent, written,
                lines>>
accountVars == <<users, persons, highest, accWorker, accLinks, tokens,
                 accClock, acted>>
loginVars == <<hash, latest, hashes, undone, jar, rows, vals, revoked,
               redeemed, overlaps, sesLinks, resets, late, req>>
throttleVars == <<throttleRow, throttleClock, sesWorker, hits, lost, begun>>
cookieVars == <<cookieClock, cookieJar, page, call, minted, live, crossed>>
mailVars == <<transport, creds, caps, draft, asked, script, sending, relay,
              box, result, sends>>
allVars == <<part, reactorVars, httpVars, webVars, rateVars, upgradeVars,
             logVars, accessVars, accountVars, loginVars, throttleVars,
             cookieVars, mailVars>>

MCInit ==
  /\ part \in Parts
  /\ \/ /\ part = "reactor" /\ Many!Reactor!Init
     \/ /\ part # "reactor"
        /\ reWorker = Off /\ sender = Off /\ cmds = Off /\ inbox = Off
        /\ pipe = Off /\ pending = Off /\ rePc = Off /\ batch = Off
        /\ todo = Off /\ s = Off /\ wire = Off /\ peer = Off /\ reSent = Off
        /\ handle = Off /\ misrouted = Off /\ reclaimed = Off
  /\ \/ /\ part = "http" /\ Many!Init
     \/ /\ part = "http_one" /\ One!Init
     \/ /\ part \notin {"http", "http_one"}
        /\ backlog = Off /\ acceptor = Off /\ handing = Off
        /\ httpShutdown = Off /\ queue = Off /\ lock = Off
        /\ httpWorker = Off /\ conn = Off /\ httpSent = Off /\ replies = Off
        /\ gone = Off
  /\ \/ /\ part = "web" /\ Many!Web!Init
     \/ /\ part # "web"
        /\ webWorker = Off /\ stage = Off /\ answer = Off /\ in_flight = Off
        /\ total = Off /\ class = Off /\ panicked = Off /\ served = Off
        /\ last = Off /\ main = Off /\ webShutdown = Off /\ listener = Off
  /\ \/ /\ part = "rate" /\ Many!Web!RateInit
     \/ /\ part # "rate"
        /\ webClock = Off /\ bucket = Off /\ read = Off /\ admitted = Off
        /\ rewound = Off
  /\ \/ /\ part = "upgrade" /\ Many!Web!UpgradeInit
     \/ /\ part # "upgrade"
        /\ phase = Off /\ upgradeTotal = Off /\ upgradeLast = Off
        /\ adopted = Off /\ dropped = Off /\ seen = Off
  /\ Log!Init
  /\ \/ /\ part = "access" /\ Log!AccessInit
     \/ /\ part # "access"
        /\ seq = Off /\ requests = Off /\ ids = Off /\ now = Off
        /\ accessContext = Off /\ accessRecent = Off /\ written = Off
        /\ lines = Off
  /\ \/ /\ part = "accounts" /\ Many!Accounts!Init
     \/ /\ part = "tokens" /\ One!Accounts!Init
     \/ /\ part \notin {"accounts", "tokens"}
        /\ users = Off /\ persons = Off /\ highest = Off /\ accWorker = Off
        /\ accLinks = Off /\ tokens = Off /\ accClock = Off /\ acted = Off
  /\ \/ /\ part = "logins" /\ Sessions!Init
     \/ /\ part = "logins_fail" /\ SessionsFail!Init
     \/ /\ part \notin {"logins", "logins_fail"}
        /\ hash = Off /\ latest = Off /\ hashes = Off /\ undone = Off
        /\ jar = Off /\ rows = Off /\ vals = Off /\ revoked = Off
        /\ redeemed = Off /\ overlaps = Off /\ sesLinks = Off /\ resets = Off
        /\ late = Off /\ req = Off
  /\ Sessions!ThrottleInit
  /\ \/ /\ part = "cookie" /\ Sessions!CookieInit
     \/ /\ part # "cookie"
        /\ cookieClock = Off /\ cookieJar = Off /\ page = Off /\ call = Off
        /\ minted = Off /\ live = Off /\ crossed = Off
  /\ \/ /\ part = "mail" /\ Many!Mail!Init
     \/ /\ part # "mail"
        /\ transport = Off /\ creds = Off /\ caps = Off /\ draft = Off
        /\ asked = Off /\ script = Off /\ sending = Off /\ relay = Off
        /\ box = Off /\ result = Off /\ sends = Off

\* The components that are not under test keep still.
Rest ==
  /\ part' = part
  /\ part # "reactor" => UNCHANGED reactorVars
  /\ part \notin {"http", "http_one"} => UNCHANGED httpVars
  /\ part # "web" => UNCHANGED webVars
  /\ part # "rate" => UNCHANGED rateVars
  /\ part # "upgrade" => UNCHANGED upgradeVars
  /\ part # "log" => UNCHANGED logVars
  /\ part # "access" => UNCHANGED accessVars
  /\ part \notin {"accounts", "tokens"} => UNCHANGED accountVars
  /\ part \notin {"logins", "logins_fail"} => UNCHANGED loginVars
  /\ part # "throttle" => UNCHANGED throttleVars
  /\ part # "cookie" => UNCHANGED cookieVars
  /\ part # "mail" => UNCHANGED mailVars

ReactorStep == part = "reactor" /\ Many!Reactor!Next /\ Rest
HttpStep == part = "http" /\ Many!Next /\ Rest
HttpOneStep == part = "http_one" /\ One!Next /\ Rest
WebStep == part = "web" /\ Many!Web!Next /\ Rest
RateStep == part = "rate" /\ Many!Web!RateNext /\ Rest
UpgradeStep == part = "upgrade" /\ Many!Web!UpgradeNext /\ Rest
LogStep == part = "log" /\ Log!Next /\ Rest
AccessStep == part = "access" /\ Log!AccessNext /\ Rest
AccountsStep == part = "accounts" /\ Many!Accounts!Next /\ Rest
TokensStep == part = "tokens" /\ One!Accounts!Next /\ Rest
LoginsStep == part = "logins" /\ Sessions!Next /\ Rest
LoginsFailStep == part = "logins_fail" /\ SessionsFail!Next /\ Rest
ThrottleStep == part = "throttle" /\ Sessions!ThrottleNext /\ Rest
CookieStep == part = "cookie" /\ Sessions!CookieNext /\ Rest
MailStep == part = "mail" /\ Many!Mail!Next /\ Rest

MCNext ==
  \/ ReactorStep \/ HttpStep \/ HttpOneStep \/ WebStep \/ RateStep \/
     UpgradeStep \/ LogStep \/ AccessStep \/ AccountsStep \/ TokensStep \/
     LoginsStep \/ LoginsFailStep \/ ThrottleStep \/ CookieStep \/ MailStep

MCSpec == MCInit /\ [][MCNext]_allVars

ASSUME ServerConstants ==
  /\ Many!HttpConstants /\ One!HttpConstants
  /\ Many!AccountsConstants /\ One!AccountsConstants /\ Many!MailConstants
  /\ Many!ReactorConstants
  /\ Many!WebConstants /\ Many!RateConstants /\ Many!UpgradeConstants

(***************************************************************************)
(* What the run checks.                                                    *)
(***************************************************************************)

\* Workers hand sockets to a shard, senders write, the peer stalls or leaves:
\* every slot is free or owned and counted once, the caps on connections are
\* never exceeded, a wake is not lost between the drain and the poll, close is
\* reported once, and a command reaches the connection it was meant for.
ReactorHolds ==
  part = "reactor" =>
    /\ Many!Reactor!TypeOK /\ Many!Reactor!SlotsAccountedFor
    /\ Many!Reactor!CapsAreHard /\ Many!Reactor!NoLostWake
    /\ Many!Reactor!ClosedOnce /\ Many!Reactor!HandlesReachTheirOwner

\* The acceptor and the workers over one bounded queue, with handlers that
\* panic or take the socket over: a socket has one owner, no worker is lost,
\* replies are those to the requests in order, and what was accepted before the
\* drain is still served.
ServerHolds ==
  /\ part = "http" =>
       /\ Many!OneOwner /\ Many!WorkersStay
       /\ Many!RepliesInOrder /\ Many!DrainServesAccepted
  /\ part = "http_one" =>
       /\ One!OneOwner /\ One!WorkersStay
       /\ One!RepliesInOrder /\ One!DrainServesAccepted

\* A request through the middleware: a tool runs on a checked input only, the
\* operator's endpoints are behind the guard, a path reaches the route that was
\* added for it, gauges count the requests in the service, one allow-origin is
\* sent, and nothing outlives run().  The rate limiter's bursts are bounded
\* although the clock is read before the lock; an upgrade passes the gate, and
\* the room taken for it is given back.
ServiceHolds ==
  /\ part = "web" =>
       /\ Many!Web!TypeOK /\ Many!Web!ToolsRunChecked /\ Many!Web!OpsBehindGuard /\ Many!Web!RoutedAsAdded
       /\ Many!Web!GaugeCountsRequests /\ Many!Web!OneAllowOrigin /\ Many!Web!NothingOutlivesRun
  /\ part = "rate" => Many!Web!RateTypeOK /\ Many!Web!BurstsAreBounded
  /\ part = "upgrade" => Many!Web!UpgradeTypeOK /\ Many!Web!RoomIsKept /\ Many!Web!OnlyGatedUpgrade

\* Records carry the scopes that are open around them and no others, the
\* nearest target decides what is left out, a filter that was set is not
\* overwritten by the lazy default, the ring keeps the last records, and a
\* capture ends with what it began with.  The lines of a request carry its own
\* id although the worker before it panicked, and a search finds them.
LogsHold ==
  /\ [](/\ part = "log" =>
             /\ Log!TypeOK /\ Log!ConfigSticks /\ Log!CarriesOpenScopes
             /\ Log!LeftOutByNearest /\ Log!RecentIsTail
        /\ part = "access" => Log!TaggedByTheirRequest /\ Log!LogsFindTheRequest)
  /\ Log!CapturesNest

\* Two workers register, rename, verify and delete: an address belongs to one
\* account, who is verified has been mailed, and a token is its owner's.
AccountsHold ==
  /\ part = "accounts" =>
       Many!Accounts!TypeOK /\ Many!Accounts!EmailsUnique /\ Many!Accounts!VerifiedWasMailed
  /\ part = "tokens" => One!Accounts!TypeOK /\ One!Accounts!TokensReachTheirOwner

\* Requests of one person overlap with a change of password, with "remember
\* me" rotations and with failing writes: a session dies with the password it
\* was made under, a revoked cookie stays dead, one redemption per rotation,
\* one reset per link.  Throttled attempts are counted and a lock lasts; the
\* session cookie's forms work, logins end in time and a logout is kept by
\* the tab that made it.
SessionsHold ==
  /\ [](/\ part = "logins" =>
             /\ Sessions!TypeOK /\ Sessions!SessionsDieWithPassword
             /\ Sessions!RevokedStaysDead /\ Sessions!RevivesOnce /\ Sessions!LinksResetOnce
        /\ part = "logins_fail" =>
             /\ SessionsFail!TypeOK /\ SessionsFail!SessionsDieWithPassword
             /\ SessionsFail!RevokedStaysDead /\ SessionsFail!RevivesOnce
             /\ SessionsFail!LinksResetOnce
        /\ part = "throttle" => Sessions!ThrottleTypeOK /\ Sessions!HitsCount
        /\ part = "cookie" =>
             /\ Sessions!CookieTypeOK /\ Sessions!PageTokensWork
             /\ Sessions!LoginsExpire /\ Sessions!LogoutHolds)
  /\ Sessions!LocksHold

\* A message goes to all its recipients or send fails, one that the server
\* refuses or that is malformed is reported, and nobody reads who was in Bcc.
MailHolds ==
  part = "mail" => Many!Mail!AllOrNothing /\ Many!Mail!BccStaysHidden /\ Many!Mail!InvalidSurfaces

(***************************************************************************)
(* What the proofs of the components say of the run's behaviours.          *)
(***************************************************************************)

LEMMA ReactorPart ==
  MCSpec => [](part = "reactor" => Many!ReactorInv)
<1> DEFINE I == part = "reactor" => Many!ReactorInv
<1>1. MCInit => I
  BY ServerConstants, Many!ReactorInit DEF MCInit
<1>2. I /\ [MCNext]_allVars => I'
  <2> SUFFICES ASSUME I, [MCNext]_allVars, part' = "reactor"
               PROVE  Many!ReactorInv'
    OBVIOUS
  <2>1. CASE ReactorStep
    BY <2>1, ServerConstants, Many!ReactorNext DEF ReactorStep
  <2>2. CASE UNCHANGED allVars
    <3>1. part = "reactor" /\ UNCHANGED Many!Reactor!vars
      BY <2>2 DEF allVars, reactorVars, Many!Reactor!vars
    <3> QED
      BY <3>1, ServerConstants, Many!ReactorNext
  <2> QED
    BY <2>1, <2>2 DEF MCNext, Rest, HttpStep, HttpOneStep, WebStep, RateStep,
       UpgradeStep, LogStep, AccessStep, AccountsStep, TokensStep, LoginsStep,
       LoginsFailStep, ThrottleStep, CookieStep, MailStep
<1> QED
  BY <1>1, <1>2, PTL DEF MCSpec

\* The shard of the WebSocket engine is safe in the run's setting.
THEOREM ReactorIsSafe == MCSpec => []ReactorHolds
<1>1. (part = "reactor" => Many!ReactorInv) => ReactorHolds
  BY ServerConstants, Many!ReactorSafe DEF ReactorHolds
<1> QED
  BY <1>1, ReactorPart, PTL

LEMMA HttpPart ==
  MCSpec => [](/\ part = "http" => Many!HttpInv
               /\ part = "http_one" => One!HttpInv)
<1> DEFINE I == part = "http" => Many!HttpInv
           J == part = "http_one" => One!HttpInv
<1>1. MCInit => I
  BY ServerConstants, Many!HttpInit DEF MCInit
<1>2. MCInit => J
  BY ServerConstants, One!HttpInit DEF MCInit
<1>3. I /\ [MCNext]_allVars => I'
  <2> SUFFICES ASSUME I, [MCNext]_allVars, part' = "http"
               PROVE  Many!HttpInv'
    OBVIOUS
  <2>1. CASE HttpStep
    BY <2>1, ServerConstants, Many!HttpNext DEF HttpStep
  <2>2. CASE UNCHANGED allVars
    <3>1. part = "http" /\ UNCHANGED Many!vars
      BY <2>2 DEF allVars, httpVars, Many!vars
    <3> QED
      BY <3>1, ServerConstants, Many!HttpNext
  <2> QED
    BY <2>1, <2>2 DEF MCNext, Rest, ReactorStep, HttpOneStep, WebStep,
       RateStep, UpgradeStep, LogStep, AccessStep, AccountsStep, TokensStep,
       LoginsStep, LoginsFailStep, ThrottleStep, CookieStep, MailStep
<1>4. J /\ [MCNext]_allVars => J'
  <2> SUFFICES ASSUME J, [MCNext]_allVars, part' = "http_one"
               PROVE  One!HttpInv'
    OBVIOUS
  <2>1. CASE HttpOneStep
    BY <2>1, ServerConstants, One!HttpNext DEF HttpOneStep
  <2>2. CASE UNCHANGED allVars
    <3>1. part = "http_one" /\ UNCHANGED One!vars
      BY <2>2 DEF allVars, httpVars, One!vars
    <3> QED
      BY <3>1, ServerConstants, One!HttpNext
  <2> QED
    BY <2>1, <2>2 DEF MCNext, Rest, ReactorStep, HttpStep, WebStep, RateStep,
       UpgradeStep, LogStep, AccessStep, AccountsStep, TokensStep, LoginsStep,
       LoginsFailStep, ThrottleStep, CookieStep, MailStep
<1> QED
  BY <1>1, <1>2, <1>3, <1>4, PTL DEF MCSpec

\* The HTTP server is safe in both of the run's settings: the theorems behind
\* it are about any number of workers, clients and requests.
THEOREM ServerIsSafe == MCSpec => []ServerHolds
<1>1. /\ part = "http" => Many!HttpInv
      /\ part = "http_one" => One!HttpInv
      => ServerHolds
  BY ServerConstants, Many!HttpSafe, One!HttpSafe DEF ServerHolds
<1> QED
  BY <1>1, HttpPart, PTL

LEMMA AccountsPart ==
  MCSpec => [](/\ part = "accounts" => Many!AccountsInv
               /\ part = "tokens" => One!AccountsInv)
<1> DEFINE I == part = "accounts" => Many!AccountsInv
           J == part = "tokens" => One!AccountsInv
<1>1. MCInit => I
  BY ServerConstants, Many!AccountsInit DEF MCInit
<1>2. MCInit => J
  BY ServerConstants, One!AccountsInit DEF MCInit
<1>3. I /\ [MCNext]_allVars => I'
  <2> SUFFICES ASSUME I, [MCNext]_allVars, part' = "accounts"
               PROVE  Many!AccountsInv'
    OBVIOUS
  <2>1. CASE AccountsStep
    BY <2>1, ServerConstants, Many!AccountsNext DEF AccountsStep
  <2>2. CASE UNCHANGED allVars
    <3>1. part = "accounts" /\ UNCHANGED Many!Accounts!vars
      BY <2>2 DEF allVars, accountVars, Many!Accounts!vars
    <3> QED
      BY <3>1, ServerConstants, Many!AccountsNext
  <2> QED
    BY <2>1, <2>2 DEF MCNext, Rest, ReactorStep, HttpStep, HttpOneStep,
       WebStep, RateStep, UpgradeStep, LogStep, AccessStep, TokensStep,
       LoginsStep, LoginsFailStep, ThrottleStep, CookieStep, MailStep
<1>4. J /\ [MCNext]_allVars => J'
  <2> SUFFICES ASSUME J, [MCNext]_allVars, part' = "tokens"
               PROVE  One!AccountsInv'
    OBVIOUS
  <2>1. CASE TokensStep
    BY <2>1, ServerConstants, One!AccountsNext DEF TokensStep
  <2>2. CASE UNCHANGED allVars
    <3>1. part = "tokens" /\ UNCHANGED One!Accounts!vars
      BY <2>2 DEF allVars, accountVars, One!Accounts!vars
    <3> QED
      BY <3>1, ServerConstants, One!AccountsNext
  <2> QED
    BY <2>1, <2>2 DEF MCNext, Rest, ReactorStep, HttpStep, HttpOneStep,
       WebStep, RateStep, UpgradeStep, LogStep, AccessStep, AccountsStep,
       LoginsStep, LoginsFailStep, ThrottleStep, CookieStep, MailStep
<1> QED
  BY <1>1, <1>2, <1>3, <1>4, PTL DEF MCSpec

\* Accounts keep addresses, verifications and tokens apart, in both settings.
THEOREM AccountsAreSafe == MCSpec => []AccountsHold
<1>1. /\ part = "accounts" => Many!AccountsInv
      /\ part = "tokens" => One!AccountsInv
      => AccountsHold
  BY ServerConstants, Many!AccountsSafe, One!AccountsSafe DEF AccountsHold
<1> QED
  BY <1>1, AccountsPart, PTL

LEMMA MailPart ==
  MCSpec => [](part = "mail" => Many!MailInv)
<1> DEFINE I == part = "mail" => Many!MailInv
<1>1. MCInit => I
  BY ServerConstants, Many!MailInit DEF MCInit
<1>2. I /\ [MCNext]_allVars => I'
  <2> SUFFICES ASSUME I, [MCNext]_allVars, part' = "mail"
               PROVE  Many!MailInv'
    OBVIOUS
  <2>1. CASE MailStep
    BY <2>1, ServerConstants, Many!MailNext DEF MailStep
  <2>2. CASE UNCHANGED allVars
    <3>1. part = "mail" /\ UNCHANGED Many!Mail!vars
      BY <2>2 DEF allVars, mailVars, Many!Mail!vars, Many!Mail!sites
    <3> QED
      BY <3>1, ServerConstants, Many!MailNext
  <2> QED
    BY <2>1, <2>2 DEF MCNext, Rest, ReactorStep, HttpStep, HttpOneStep,
       WebStep, RateStep, UpgradeStep, LogStep, AccessStep, AccountsStep,
       TokensStep, LoginsStep, LoginsFailStep, ThrottleStep, CookieStep
<1> QED
  BY <1>1, <1>2, PTL DEF MCSpec

\* Mail goes to all its recipients or to nobody, in the setting of the run.
THEOREM MailIsSafe == MCSpec => []MailHolds
<1>1. (part = "mail" => Many!MailInv) => MailHolds
  BY Many!MailSafe DEF MailHolds
<1> QED
  BY <1>1, MailPart, PTL

LEMMA ServicePart ==
  MCSpec => [](/\ part = "web" => Many!WebInv
               /\ part = "rate" => Many!RateInv
               /\ part = "upgrade" => Many!UpgradeInv)
<1> DEFINE I == /\ part = "web" => Many!WebInv
                /\ part = "rate" => Many!RateInv
                /\ part = "upgrade" => Many!UpgradeInv
<1>1. MCInit => I
  BY ServerConstants, Many!WebInit, Many!RateStarts, Many!UpgradeStarts DEF MCInit
<1>2. ASSUME I, [MCNext]_allVars, part' = "web" PROVE Many!WebInv'
  <2>1. CASE WebStep
    BY <1>2, <2>1, ServerConstants, Many!WebNext DEF WebStep
  <2>2. CASE UNCHANGED allVars
    <3>1. part = "web" /\ UNCHANGED Many!Web!vars
      BY <1>2, <2>2 DEF allVars, webVars, Many!Web!vars
    <3> QED
      BY <1>2, <3>1, ServerConstants, Many!WebNext
  <2> QED
    BY <1>2, <2>1, <2>2 DEF MCNext, Rest, ReactorStep, HttpStep, HttpOneStep,
       RateStep, UpgradeStep, LogStep, AccessStep, AccountsStep, TokensStep,
       LoginsStep, LoginsFailStep, ThrottleStep, CookieStep, MailStep
<1>3. ASSUME I, [MCNext]_allVars, part' = "rate" PROVE Many!RateInv'
  <2>1. CASE RateStep
    BY <1>3, <2>1, ServerConstants, Many!RateSteps DEF RateStep
  <2>2. CASE UNCHANGED allVars
    <3>1. part = "rate" /\ UNCHANGED Many!Web!rateVars
      BY <1>3, <2>2 DEF allVars, rateVars, Many!Web!rateVars
    <3> QED
      BY <1>3, <3>1, ServerConstants, Many!RateSteps
  <2> QED
    BY <1>3, <2>1, <2>2 DEF MCNext, Rest, ReactorStep, HttpStep, HttpOneStep,
       WebStep, UpgradeStep, LogStep, AccessStep, AccountsStep, TokensStep,
       LoginsStep, LoginsFailStep, ThrottleStep, CookieStep, MailStep
<1>4. ASSUME I, [MCNext]_allVars, part' = "upgrade" PROVE Many!UpgradeInv'
  <2>1. CASE UpgradeStep
    BY <1>4, <2>1, ServerConstants, Many!UpgradeSteps DEF UpgradeStep
  <2>2. CASE UNCHANGED allVars
    <3>1. part = "upgrade" /\ UNCHANGED Many!Web!upgradeVars
      BY <1>4, <2>2 DEF allVars, upgradeVars, Many!Web!upgradeVars
    <3> QED
      BY <1>4, <3>1, ServerConstants, Many!UpgradeSteps
  <2> QED
    BY <1>4, <2>1, <2>2 DEF MCNext, Rest, ReactorStep, HttpStep, HttpOneStep,
       WebStep, RateStep, LogStep, AccessStep, AccountsStep, TokensStep,
       LoginsStep, LoginsFailStep, ThrottleStep, CookieStep, MailStep
<1>5. I /\ [MCNext]_allVars => I'
  BY <1>2, <1>3, <1>4
<1> QED
  BY <1>1, <1>5, PTL DEF MCSpec

\* The service, its rate limiter and its upgrades are safe in the run's setting.
THEOREM ServiceIsSafe == MCSpec => []ServiceHolds
<1>1. /\ part = "web" => Many!WebInv
      /\ part = "rate" => Many!RateInv
      /\ part = "upgrade" => Many!UpgradeInv
      => ServiceHolds
  BY ServerConstants, Many!WebSafe, Many!RateSafe
     DEF ServiceHolds, Many!WebSafety, Many!UpgradeInv
<1> QED
  BY <1>1, ServicePart, PTL

=============================================================================
