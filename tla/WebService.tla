------------------------------- MODULE WebService -------------------------------
(***************************************************************************)
(* The application of crates/sutegi-web: the service around the router, the *)
(* rate limiter, and the upgrade of a request to a WebSocket.              *)
(***************************************************************************)
EXTENDS Sequences, FiniteSets, SequencesExt, Functions, Integers

(***************************************************************************)
(* The route table of an App (sutegi-web/src/lib.rs).  A path is its       *)
(* segments, a pattern its compiled segments: a literal, a parameter or,   *)
(* in last place, a rest that takes what is left.  A route is a method and *)
(* a pattern; a group's routes carry the group's middleware.               *)
(***************************************************************************)


Lit(s) == [kind |-> "lit", name |-> s]
Param(s) == [kind |-> "param", name |-> s]
Rest(s) == [kind |-> "rest", name |-> s]

\* A path too short for the literals and parameters before the rest does not
\* match; the rest may be empty.
has_rest(pattern) == pattern # << >> /\ Last(pattern).kind = "rest"

LongEnough(pattern, path) ==
    IF has_rest(pattern) THEN Len(path) + 1 >= Len(pattern) ELSE Len(path) = Len(pattern)

Matches(pattern, path) ==
    /\ LongEnough(pattern, path)
    /\ \A i \in DOMAIN pattern : pattern[i].kind = "lit" => pattern[i].name = path[i]

\* The parameters captured where a pattern matches.
match_segs(pattern, path) ==
    LET names == {i \in DOMAIN pattern : pattern[i].kind # "lit"}
        nameOf == [i \in names |-> pattern[i].name]
    IN  [n \in Range(nameOf) |->
            LET i == CHOOSE k \in names : nameOf[k] = n
            IN  IF pattern[i].kind = "rest" THEN SubSeq(path, i, Len(path)) ELSE <<path[i]>>]

\* The first route, in the order they were added, of the request's method
\* whose pattern matches; 0 when there is none.
MatchingRoutes(routes, method, path) ==
    {i \in DOMAIN routes : routes[i].method = method /\ Matches(routes[i].segs, path)}

match_route(routes, method, path) ==
    LET hits == MatchingRoutes(routes, method, path)
    IN  IF hits = {} THEN 0 ELSE Min(hits)

PathIsKnown(routes, path) ==
    \E i \in DOMAIN routes : Matches(routes[i].segs, path)
-----------------------------------------------------------------------------
\* The path a pattern stands for once its parameters have their values.
Instantiate(pattern, params) ==
    FlattenSeq([i \in DOMAIN pattern |->
        IF pattern[i].kind = "lit" THEN <<pattern[i].name>> ELSE params[pattern[i].name]])

(***************************************************************************)
(* An App's request service and its life (sutegi-web/src/lib.rs): worker   *)
(* threads run requests through probes, ops guard, middleware, endpoints,  *)
(* route table and after-hooks; listener threads run beside the server and *)
(* are stopped and joined when it returns.                                 *)
(*                                                                         *)
(* A request's raw path is its segments and whether it is written exactly  *)
(* or with slashes to spare: the router splits both alike, the string      *)
(* comparisons of the built-in endpoints do not.                           *)
(***************************************************************************)


CONSTANTS Workers, Listeners,
          Requests,        \* the requests clients send
          AppRoutes,       \* the routes the application added
          Tools,           \* [name |-> TRUE] for a streaming tool, FALSE for a unary one
          MaxRequests,     \* bound
          Panics           \* the requests' handlers may panic

VARIABLES worker,      \* worker -> the request it runs, or Free
          stage,       \* worker -> "free", "began", "answered"
          answer,      \* worker -> [what, status, headers] of the response in hand
          in_flight,   \* Metrics::in_flight
          total,       \* Metrics::total
          class,       \* Metrics: responses by status class
          panicked,    \* requests whose handler panicked (history)
          served,      \* requests begun
          last,        \* the last response sent: [req, what, status, headers], or Free
          main,        \* "serving", "stopping", "joining", "returned"
          shutdown,    \* the flag listeners poll
          listener     \* listener -> "running", "ended"

vars == <<worker, stage, answer, in_flight, total, class, panicked, served, last,
          main, shutdown, listener>>

\* A request: its path, whether the guards accept its credentials, and
\* whether its body is no JSON ("bad"), JSON, or JSON the tool's schema accepts.
Free == [path |-> << >>, exact |-> TRUE, method |-> "none", auth |-> FALSE, body |-> "bad"]

\* The segments that begin with two underscores.
Internal == {"__health", "__ready", "__metrics", "__introspect", "__tools", "__logs"}

\* The tool endpoints go behind the application's routes when the service is built.
mount_tools ==
    <<[method |-> "GET", segs |-> <<Lit("__tools")>>, guarded |-> FALSE, does |-> "manifest"],
      [method |-> "POST", segs |-> <<Lit("__tools"), Param("name")>>, guarded |-> FALSE,
       does |-> "invoke"],
      [method |-> "POST", segs |-> <<Lit("__tools"), Param("name"), Lit("stream")>>,
       guarded |-> FALSE, does |-> "stream"]>>

Routes == AppRoutes \o mount_tools

ops_surface(req) == Head(req.path) \in Internal

\* req.path.as_str() == "/name"
Is(req, name) == req.exact /\ req.path = <<name>>

Response(what, status) == [what |-> what, status |-> status, origins |-> 0, ran |-> "none"]

\* Body, name, arguments, in this order, then the tool's own code.
RunTool(name, stream, body) ==
    IF body = "bad" THEN Response("tool", 400)
    ELSE IF name \notin DOMAIN Tools \/ Tools[name] # stream THEN Response("tool", 404)
    ELSE IF body # "fits" THEN Response("tool", 422)
    ELSE [Response("tool", 200) EXCEPT !.ran = name]

tool_invoke(req, params) == RunTool(params["name"][1], FALSE, req.body)
tool_stream(req, params) == RunTool(params["name"][1], TRUE, req.body)

\* route.handler: the application's handlers answer 200.
Handle(route, req) ==
    LET params == match_segs(route.segs, req.path)
    IN  CASE route.does = "invoke" -> tool_invoke(req, params)
          [] route.does = "stream" -> tool_stream(req, params)
          [] OTHER -> Response("handler", 200)

\* The preflight middleware answers OPTIONS with the CORS headers on it.
Preflight(req) == req.method = "OPTIONS"

\* The inner closure: the first stage that has an answer gives it.
Respond(req) ==
    LET k == match_route(Routes, req.method, req.path) IN
    CASE Is(req, "__health") -> Response("probe", 200)
      [] Is(req, "__ready") -> Response("probe", 503)
      [] ~(Is(req, "__health") \/ Is(req, "__ready")) /\ ops_surface(req) /\ ~req.auth ->
            Response("guard", 401)
      [] OTHER ->
            IF Preflight(req) THEN [Response("preflight", 204) EXCEPT !.origins = 1]
            ELSE IF \E n \in {"__metrics", "__introspect", "__logs"} : Is(req, n) THEN Response("internal", 200)
            ELSE IF k # 0
                 THEN IF Routes[k].guarded /\ ~req.auth THEN Response("group", 401)
                      ELSE Handle(Routes[k], req)
            ELSE IF PathIsKnown(Routes, req.path) THEN Response("405", 405)
            ELSE Response("404", 404)

Init ==
    /\ worker = [w \in Workers |-> Free]
    /\ stage = [w \in Workers |-> "free"]
    /\ answer = [w \in Workers |-> Response("none", 0)]
    /\ in_flight = 0
    /\ total = 0
    /\ class = [c \in {"2xx", "4xx", "5xx", "other"} |-> 0]
    /\ panicked = 0
    /\ served = 0
    /\ last = [req |-> Free, resp |-> Response("none", 0)]
    /\ main = "serving"
    /\ shutdown = FALSE
    /\ listener = [l \in Listeners |-> "running"]

life == <<main, shutdown, listener>>

Begin(w, req) ==
    /\ stage[w] = "free"
    /\ main # "returned"
    /\ served < MaxRequests
    /\ served' = served + 1
    /\ worker' = [worker EXCEPT ![w] = req]
    /\ stage' = [stage EXCEPT ![w] = "began"]
    /\ in_flight' = in_flight + 1
    /\ UNCHANGED <<answer, total, class, panicked, last, life>>

Answer(w) ==
    /\ stage[w] = "began"
    /\ answer' = [answer EXCEPT ![w] = Respond(worker[w])]
    /\ stage' = [stage EXCEPT ![w] = "answered"]
    /\ UNCHANGED <<worker, in_flight, total, class, panicked, served, last, life>>

\* The handler panics: the server's catch_unwind answers 500 and the service's
\* own bookkeeping below the call never runs.
Panic(w) ==
    /\ stage[w] = "began"
    /\ Panics
    /\ Respond(worker[w]).what \in {"handler", "tool"}
    /\ panicked' = panicked + 1
    /\ last' = [req |-> worker[w], resp |-> Response("panic", 500)]
    /\ stage' = [stage EXCEPT ![w] = "free"]
    /\ worker' = [worker EXCEPT ![w] = Free]
    /\ UNCHANGED <<answer, in_flight, total, class, served, life>>

\* cors_credentialed runs over every response, those the preflight finished
\* too, and leaves an origin header that is there alone.
cors_credentialed(resp) == [resp EXCEPT !.origins = IF @ > 0 THEN @ ELSE 1]

ClassOf(status) ==
    LET c == status \div 100
    IN  IF c = 2 THEN "2xx" ELSE IF c = 4 THEN "4xx" ELSE IF c = 5 THEN "5xx" ELSE "other"

\* The after-hooks and the metrics, on every path that returned a response.
Finish(w) ==
    /\ stage[w] = "answered"
    /\ LET resp == cors_credentialed(answer[w]) IN
        /\ last' = [req |-> worker[w], resp |-> resp]
        /\ total' = total + 1
        /\ class' = [class EXCEPT ![ClassOf(resp.status)] = @ + 1]
    /\ in_flight' = in_flight - 1
    /\ stage' = [stage EXCEPT ![w] = "free"]
    /\ worker' = [worker EXCEPT ![w] = Free]
    /\ UNCHANGED <<answer, panicked, served, life>>

requestVars == <<worker, stage, answer, in_flight, total, class, panicked, served, last>>

\* SIGTERM sets the flag listeners share with the server.
Signal ==
    /\ main = "serving" /\ ~shutdown
    /\ shutdown' = TRUE
    /\ UNCHANGED <<requestVars, main, listener>>

\* serve_until returns: drained after the flag, or at once on a bind error.
ServerReturns ==
    /\ main = "serving"
    /\ \A w \in Workers : stage[w] = "free"
    /\ shutdown \/ served = 0
    /\ main' = "stopping"
    /\ UNCHANGED <<requestVars, shutdown, listener>>

StopListeners ==
    /\ main = "stopping"
    /\ shutdown' = TRUE
    /\ main' = "joining"
    /\ UNCHANGED <<requestVars, listener>>

\* A listener that polls should_stop ends; one that panics is caught and ends.
ListenerEnds(l) ==
    /\ listener[l] = "running"
    /\ shutdown
    /\ listener' = [listener EXCEPT ![l] = "ended"]
    /\ UNCHANGED <<requestVars, main, shutdown>>

ListenerPanics(l) ==
    /\ listener[l] = "running"
    /\ listener' = [listener EXCEPT ![l] = "ended"]
    /\ UNCHANGED <<requestVars, main, shutdown>>

JoinListeners ==
    /\ main = "joining"
    /\ \A l \in Listeners : listener[l] = "ended"
    /\ main' = "returned"
    /\ UNCHANGED <<requestVars, shutdown, listener>>

Next ==
    \/ \E w \in Workers :
        \/ main = "serving" /\ ~shutdown /\ \E req \in Requests : Begin(w, req)
        \/ Answer(w) \/ Panic(w) \/ Finish(w)
    \/ Signal \/ ServerReturns \/ StopListeners \/ JoinListeners
    \/ \E l \in Listeners : ListenerEnds(l) \/ ListenerPanics(l)

\* Threads keep running, and a listener polls its flag.
Fairness ==
    /\ \A w \in Workers : WF_vars(Answer(w)) /\ WF_vars(Finish(w))
    /\ WF_vars(ServerReturns) /\ WF_vars(StopListeners) /\ WF_vars(JoinListeners)
    /\ \A l \in Listeners : WF_vars(ListenerEnds(l))

Spec == Init /\ [][Next]_vars /\ Fairness
-----------------------------------------------------------------------------
Busy == {w \in Workers : stage[w] # "free"}

TypeOK ==
    /\ worker \in [Workers -> Requests \cup {Free}]
    /\ stage \in [Workers -> {"free", "began", "answered"}]
    /\ in_flight \in 0..MaxRequests /\ total \in 0..MaxRequests /\ panicked \in 0..MaxRequests
    /\ main \in {"serving", "stopping", "joining", "returned"}
    /\ shutdown \in BOOLEAN
    /\ listener \in [Listeners -> {"running", "ended"}]

\* However its slashes are written, a request for the operators' surface runs
\* nothing but the two exact probes without passing the guard.
OpsBehindGuard ==
    /\ last.req.path # << >> /\ Head(last.req.path) \in Internal
    /\ last.resp.what \notin {"probe", "guard", "panic"}
    => last.req.auth

\* A tool runs behind the guard only, on arguments its schema accepts, through
\* the endpoint of its kind.
ToolsRunChecked ==
    last.resp.ran # "none" =>
        /\ last.req.auth /\ last.req.body = "fits"
        /\ last.req.path = IF Tools[last.resp.ran] THEN <<"__tools", last.resp.ran, "stream">>
                           ELSE <<"__tools", last.resp.ran>>

\* A 404 means no route knows the path under any method, a 405 that one does
\* under another, and a handler's answer that the first route added that
\* knows both was taken and its parameters spell the path back.
RoutedAsAdded ==
    LET knows(i) == /\ Matches(Routes[i].segs, last.req.path)
                    /\ Instantiate(Routes[i].segs, match_segs(Routes[i].segs, last.req.path))
                          = last.req.path
        literal(i) == Len(Routes[i].segs) = Len(last.req.path)
                      /\ \A k \in DOMAIN last.req.path :
                            Routes[i].segs[k].kind = "lit" => Routes[i].segs[k].name = last.req.path[k]
        prefix(i) == has_rest(Routes[i].segs)
                     /\ Len(last.req.path) >= Len(Routes[i].segs) - 1
                     /\ \A k \in 1..(Len(Routes[i].segs) - 1) :
                           Routes[i].segs[k].kind = "lit" => Routes[i].segs[k].name = last.req.path[k]
    IN  /\ last.resp.what = "404" => \A i \in DOMAIN Routes : ~(literal(i) \/ prefix(i))
        /\ last.resp.what = "405" =>
              \E i \in DOMAIN Routes : Routes[i].method # last.req.method /\ knows(i)
        /\ last.resp.what \in {"handler", "tool"} =>
              \E i \in DOMAIN Routes : Routes[i].method = last.req.method /\ knows(i)

\* The gauge counts the requests being handled; each panic leaves it one too
\* high for good, and its response in no class.
GaugeCountsRequests ==
    /\ in_flight = Cardinality(Busy) + panicked
    /\ total = class["2xx"] + class["4xx"] + class["5xx"] + class["other"]
    /\ total + panicked + Cardinality(Busy) = served

\* Every response but a panic's carries one Access-Control-Allow-Origin,
\* preflight or not.
OneAllowOrigin == last.resp.what \notin {"none", "panic"} => last.resp.origins = 1

\* Once run returns, nothing it started is still running.
NothingOutlivesRun ==
    main = "returned" => Busy = {} /\ \A l \in Listeners : listener[l] = "ended"

\* After a signal or a bind error, run returns.
RunReturns == shutdown \/ main # "serving" ~> main = "returned"

(***************************************************************************)
(* rate_limit of sutegi-web/src/lib.rs: one client's token bucket, shared  *)
(* by the HTTP workers.  A worker reads the clock first and takes the lock *)
(* second.  Tokens and ticks are scaled so that one tick refills one       *)
(* token (max_requests per `per`); a token is what one request costs.      *)
(***************************************************************************)


CONSTANTS Threads, Capacity,
          MaxClock, MaxAdmitted      \* bounds

VARIABLES clock,      \* Instant::now()
          bucket,     \* the entry: [tokens, at], or None
          read,       \* thread -> the clock it read, or Idle
          admitted,   \* clock values of the requests let through, in order
          rewound     \* how far the bucket's time was ever set back, summed

rateVars == <<clock, bucket, read, admitted, rewound>>

None == [tokens |-> 0, at |-> MaxClock + 1]
Idle == MaxClock + 1

RateInit == clock = 0 /\ bucket = None /\ read = [t \in Threads |-> Idle]
        /\ admitted = << >> /\ rewound = 0

Tick == clock < MaxClock /\ clock' = clock + 1 /\ UNCHANGED <<bucket, read, admitted, rewound>>

ReadClock(t) ==
    /\ read[t] = Idle
    /\ Len(admitted) < MaxAdmitted
    /\ read' = [read EXCEPT ![t] = clock]
    /\ UNCHANGED <<clock, bucket, admitted, rewound>>

\* Instant::duration_since is zero for an instant that lies ahead.
duration_since(now, then) == IF now >= then THEN now - then ELSE 0

Refill(tokens, elapsed) == IF tokens + elapsed > Capacity THEN Capacity ELSE tokens + elapsed

\* Under the lock: refill, move the bucket's time to the one read, spend a token.
rate_limit(t) ==
    LET entry == IF bucket = None THEN [tokens |-> Capacity, at |-> read[t]] ELSE bucket
        tokens == Refill(entry.tokens, duration_since(read[t], entry.at))
        pass == tokens >= 1
    IN  /\ read[t] # Idle
        /\ bucket' = [tokens |-> IF pass THEN tokens - 1 ELSE tokens, at |-> read[t]]
        /\ admitted' = IF pass THEN Append(admitted, read[t]) ELSE admitted
        /\ rewound' = rewound + duration_since(entry.at, read[t])
        /\ read' = [read EXCEPT ![t] = Idle]
        /\ UNCHANGED clock

RateNext == Tick \/ \E t \in Threads : ReadClock(t) \/ rate_limit(t)

RateSpec == RateInit /\ [][RateNext]_rateVars
-----------------------------------------------------------------------------
RateTypeOK ==
    /\ clock \in 0..MaxClock
    /\ bucket = None \/ bucket \in [tokens : 0..Capacity, at : 0..MaxClock]
    /\ read \in [Threads -> 0..Idle]

\* What went through between any two requests is a full bucket and what the
\* time between them refilled, and beyond that only the time a late worker
\* gave back: between reading the clock and taking the lock it was overtaken,
\* and it set the bucket's time back to its own.
BurstsAreBounded ==
    \A i, j \in DOMAIN admitted :
        i < j => j - i + 1 <= Capacity + duration_since(admitted[j], admitted[i]) + rewound

(***************************************************************************)
(* The WebSocket handshake of an HTTP worker (sutegi-web/src/ws.rs) and    *)
(* its handoff to the reactor: upgrade_response asks the runtime whether   *)
(* there is room, the server writes the 101, and only then does adopt      *)
(* reserve the room.  Between the two other workers do the same.           *)
(***************************************************************************)


CONSTANTS UpgradeWorkers, MaxTotal,
          MaxUpgrades           \* bound

VARIABLES phase,      \* worker -> "idle", or "switched": its 101 is out
          upgradeTotal,      \* Admission::total
          upgradeLast,       \* the last answer sent: [req, status]
          adopted,    \* connections handed to a shard
          dropped,    \* connections closed after the 101
          seen        \* handshakes taken up

upgradeVars == <<phase, upgradeTotal, upgradeLast, adopted, dropped, seen>>

\* What a handshake's headers hold.  `origin` is "none" when the header is
\* missing; with an allowlist (Ws::check_origin) only "listed" is on it.
Handshakes == [upgrade : BOOLEAN, version : BOOLEAN, key : BOOLEAN,
               origin : {"none", "listed", "other"}, authorized : BOOLEAN]

Good == [upgrade |-> TRUE, version |-> TRUE, key |-> TRUE, origin |-> "listed",
         authorized |-> TRUE]

UpgradeInit ==
    /\ phase = [w \in UpgradeWorkers |-> "idle"]
    /\ upgradeLast = [req |-> Good, status |-> 400]
    /\ upgradeTotal = 0 /\ adopted = 0 /\ dropped = 0 /\ seen = 0

OriginAllowed(req) == req.origin = "listed"

\* The refusals, in the order they are tried.
Refusal(req, room) ==
    CASE ~req.upgrade -> 400
      [] req.upgrade /\ ~req.version -> 426
      [] req.upgrade /\ req.version /\ ~req.key -> 400
      [] OTHER -> IF ~OriginAllowed(req) \/ ~req.authorized THEN 403
                  ELSE IF ~room THEN 503 ELSE 101

\* upgrade_response: total < max, then the 101 and its headers.
upgrade_response(w, req) ==
    LET status == Refusal(req, upgradeTotal < MaxTotal) IN
    /\ phase[w] = "idle" /\ seen < MaxUpgrades
    /\ seen' = seen + 1
    /\ upgradeLast' = [req |-> req, status |-> status]
    /\ phase' = [phase EXCEPT ![w] = IF status = 101 THEN "switched" ELSE "idle"]
    /\ UNCHANGED <<upgradeTotal, adopted, dropped>>

\* adopt: reserve or drop the stream the client was already told is a WebSocket.
adopt(w) ==
    /\ phase[w] = "switched"
    /\ phase' = [phase EXCEPT ![w] = "idle"]
    /\ \/ /\ upgradeTotal < MaxTotal
          /\ upgradeTotal' = upgradeTotal + 1 /\ adopted' = adopted + 1 /\ UNCHANGED dropped
       \/ /\ upgradeTotal >= MaxTotal
          /\ dropped' = dropped + 1 /\ UNCHANGED <<upgradeTotal, adopted>>
    /\ UNCHANGED <<upgradeLast, seen>>

\* A connection of the reactor ends and releases its place.
Release == adopted > 0 /\ adopted' = adopted - 1 /\ upgradeTotal' = upgradeTotal - 1
           /\ UNCHANGED <<phase, upgradeLast, dropped, seen>>

UpgradeNext == Release \/ \E w \in UpgradeWorkers : adopt(w) \/ \E req \in Handshakes : upgrade_response(w, req)

UpgradeSpec == UpgradeInit /\ [][UpgradeNext]_upgradeVars
-----------------------------------------------------------------------------
UpgradeTypeOK ==
    /\ phase \in [UpgradeWorkers -> {"idle", "switched"}]
    /\ upgradeTotal \in 0..MaxTotal /\ seen \in 0..MaxUpgrades

\* Workers that all saw room before their 101 still cannot put the reactor
\* over its cap, and a place is held by a connection or free.
RoomIsKept == upgradeTotal <= MaxTotal /\ adopted = upgradeTotal

\* A socket is only ever promised to a client whose origin is on the list and
\* whom the gate accepted, however its other headers look.
OnlyGatedUpgrade ==
    upgradeLast.status = 101 =>
        upgradeLast.req.origin = "listed" /\ upgradeLast.req.authorized /\ upgradeLast.req.upgrade /\ upgradeLast.req.key

=============================================================================
