-------------------------------- MODULE PgClient --------------------------------
(***************************************************************************)
(* The PostgreSQL client of crates/sutegi-pg, in three machines: calls over *)
(* an open connection, the opening of one, and the reading of its rows.    *)
(***************************************************************************)
EXTENDS Integers, Sequences, FiniteSets, SequencesExt

(***************************************************************************)
(* One connection of the PostgreSQL driver (sutegi-pg/src/protocol.rs):    *)
(* the extended-query exchange with its cache of prepared statements, the  *)
(* simple queries (batch), and the reading of answers up to ReadyForQuery. *)
(* The server handles one message at a time and may be slower than the     *)
(* client's read timeout; the pool replaces a connection that is broken.   *)
(*                                                                         *)
(* A call's parameter is its number, and the row it gets back carries the  *)
(* statement and the parameter the server executed.  A schema change       *)
(* (Ddl) makes every plan made before it stale.                            *)
(***************************************************************************)


CONSTANTS
    Sqls,          \* statements the application runs
    Ddl,           \* a statement that changes the schema, run as a batch
    CacheMax,      \* STMT_CACHE_MAX
    None,
    MaxCalls,      \* bound: calls
    MaxTimeouts,   \* bound: read timeouts
    MaxFailures,   \* bound: statements that fail
    MaxNotices     \* bound: asynchronous messages

VARIABLES
    cache,         \* [Sqls -> prepared-statement name, 0 for none]
    seq,           \* stmt_seq
    broken,
    call,          \* the call under way, [id, sql, name, parse], or None
    got,           \* what its answer holds so far, [rows, err]
    result,        \* history: the last call's outcome, [id, sql, rows, err], or None
    inbox,         \* messages on their way to the server
    outbox,        \* messages on their way to the client
    named,         \* the server's statements: [name |-> [sql, schema]]
    portal,        \* what Bind left to Execute: [sql, param], or None
    unnamed,       \* the server's unnamed statement, [sql, schema], or None
    skipping,      \* the server discards messages until Sync
    schema,        \* the version of the schema
    calls, timeouts, failures, notices

cvars == <<cache, seq, broken, call, got, result>>
svars == <<named, portal, unnamed, skipping, schema>>
bounds == <<calls, timeouts, failures, notices>>
vars == <<cache, seq, broken, call, got, result, inbox, outbox, named, portal, unnamed, skipping, schema,
          calls, timeouts, failures, notices>>

Empty == [rows |-> <<>>, err |-> ""]
\* A message: the statement's name, an SQL text or an error, the call's id.
Msg(tag, name, text, id) == [tag |-> tag, name |-> name, text |-> text, id |-> id]
Bare(tag) == Msg(tag, 0, "", 0)

(***************************************************************************)
(* The client.                                                             *)
(***************************************************************************)

\* pick_statement: a hit, the unnamed statement when the cache is full, or a
\* name never used on this connection.
pick_statement(c, sql) ==
    CASE c[sql] # 0 -> [name |-> c[sql], parse |-> FALSE, seq |-> seq]
      [] c[sql] = 0 /\ Cardinality({s \in Sqls : c[s] # 0}) >= CacheMax -> [name |-> 0, parse |-> TRUE, seq |-> seq]
      [] OTHER -> [name |-> seq + 1, parse |-> TRUE, seq |-> seq + 1]

\* extended_once: the whole pipeline in one write.
Pipeline(sql, id, pick) ==
    (IF pick.parse THEN <<Msg("Parse", pick.name, sql, 0)>> ELSE <<>>)
    \o <<Msg("Bind", pick.name, "", id), Bare("Execute"), Bare("Sync")>>

ExtendedCall(sql, id, pick) ==
    /\ call' = [id |-> id, sql |-> sql, name |-> pick.name, parse |-> pick.parse]
    /\ got' = Empty
    /\ seq' = pick.seq
    /\ inbox' = inbox \o Pipeline(sql, id, pick)

extended(sql) ==
    /\ call = None /\ ~broken /\ calls < MaxCalls
    /\ ExtendedCall(sql, calls + 1, pick_statement(cache, sql))
    /\ calls' = calls + 1
    /\ result' = None
    /\ UNCHANGED <<cache, broken, outbox, svars, timeouts, failures, notices>>

batch ==
    /\ call = None /\ ~broken /\ calls < MaxCalls
    /\ call' = [id |-> calls + 1, sql |-> Ddl, name |-> 0, parse |-> FALSE]
    /\ got' = Empty /\ result' = None
    /\ inbox' = Append(inbox, Msg("Query", 0, Ddl, calls + 1))
    /\ calls' = calls + 1
    /\ UNCHANGED <<cache, seq, broken, outbox, svars, timeouts, failures, notices>>

Finish(r) == result' = r /\ call' = None /\ got' = Empty
Outcome == [id |-> call.id, sql |-> call.sql, rows |-> got.rows, err |-> got.err]

\* A freshly parsed named statement is remembered once it went round cleanly.
Remember == got.err = "" /\ call.parse /\ call.name # 0

\* The retry after the server refused a cached plan.
Retry == ~call.parse /\ call.sql # Ddl /\ got.err = "cached plan"

\* stmt_cache.remove: the retry must not find the entry again.
Evicted(sql) == [cache EXCEPT ![sql] = 0]

\* ReadyForQuery: the call returns, or runs again with a fresh Parse.
Ready ==
    IF Retry
    THEN /\ cache' = Evicted(call.sql)
         /\ ExtendedCall(call.sql, call.id, pick_statement(cache', call.sql))
         /\ result' = result
    ELSE /\ cache' = IF Remember /\ call.sql # Ddl THEN [cache EXCEPT ![call.sql] = call.name] ELSE cache
         /\ Finish(Outcome)
         /\ UNCHANGED <<seq, inbox>>

\* One message: recv and the arms of the loop around it.
recv ==
    /\ call # None /\ outbox # <<>>
    /\ outbox' = Tail(outbox)
    /\ LET m == Head(outbox) IN
       CASE m.tag = "DataRow" ->
              got' = [got EXCEPT !.rows = Append(@, <<m.text, m.id>>)] /\ UNCHANGED <<cache, seq, call, result, inbox>>
         [] m.tag = "Error" ->
              got' = [got EXCEPT !.err = m.text] /\ UNCHANGED <<cache, seq, call, result, inbox>>
         [] m.tag = "Ready" -> Ready
         [] OTHER -> UNCHANGED <<cache, seq, call, got, result, inbox>>
    /\ UNCHANGED <<broken, svars, bounds>>

\* A read that fails marks the connection.
Breaks == TRUE

\* The read timeout: the answer is still on its way.
Timeout ==
    /\ call # None /\ timeouts < MaxTimeouts
    /\ broken' = Breaks
    /\ Finish([Outcome EXCEPT !.err = "read", !.rows = <<>>])
    /\ timeouts' = timeouts + 1
    /\ UNCHANGED <<cache, seq, inbox, outbox, svars, calls, failures, notices>>

\* The pool drops a broken connection; the next caller gets a new one.
Reconnect ==
    /\ broken /\ call = None
    /\ broken' = FALSE
    /\ cache' = [s \in Sqls |-> 0] /\ seq' = 0
    /\ inbox' = <<>> /\ outbox' = <<>>
    /\ named' = <<>> /\ portal' = None /\ unnamed' = None /\ skipping' = FALSE
    /\ UNCHANGED <<call, got, result, schema, bounds>>

(***************************************************************************)
(* The server.  named is a sequence: the statement called n is its n-th    *)
(* element, None when Parse failed.                                        *)
(***************************************************************************)
Says(ms) == outbox' = outbox \o ms
Refuses(why) == Says(<<Msg("Error", 0, why, 0)>>) /\ skipping' = TRUE

Statement(n) == IF n = 0 THEN unnamed ELSE IF n <= Len(named) THEN named[n] ELSE None
Padded(n) == IF n <= Len(named) THEN named ELSE named \o [i \in 1..(n - Len(named)) |-> None]

MayFail == failures < MaxFailures /\ failures' = failures + 1

Parse(m) ==
    \/ /\ m.name # 0 /\ Statement(m.name) # None
       /\ Refuses("already exists") /\ UNCHANGED <<named, unnamed, portal, schema, failures>>
    \/ /\ MayFail /\ Refuses("syntax")
       /\ UNCHANGED <<named, unnamed, portal, schema>>
    \/ /\ m.name = 0 \/ Statement(m.name) = None
       /\ LET st == [sql |-> m.text, schema |-> schema] IN
          IF m.name = 0 THEN unnamed' = st /\ named' = named
          ELSE named' = [Padded(m.name) EXCEPT ![m.name] = st] /\ unnamed' = unnamed
       /\ Says(<<Bare("ParseComplete")>>)
       /\ UNCHANGED <<portal, skipping, schema, failures>>

Bind(m) ==
    LET st == Statement(m.name) IN
    /\ IF st = None THEN Refuses("no such statement") /\ portal' = None
       ELSE IF st.schema # schema THEN Refuses("cached plan") /\ portal' = None
       ELSE portal' = [sql |-> st.sql, param |-> m.id] /\ skipping' = FALSE /\ Says(<<Bare("BindComplete")>>)
    /\ UNCHANGED <<named, unnamed, schema, failures>>

Execute ==
    /\ \/ /\ Says(<<Msg("DataRow", 0, portal.sql, portal.param), Bare("CommandComplete")>>)
          /\ UNCHANGED <<skipping, failures>>
       \/ MayFail /\ Refuses("constraint")
    /\ UNCHANGED <<named, unnamed, portal, schema>>

Query(m) ==
    /\ schema' = schema + 1
    /\ Says(<<Bare("CommandComplete"), Bare("Ready")>>)
    /\ UNCHANGED <<named, unnamed, portal, skipping, failures>>

Serve ==
    /\ inbox # <<>>
    /\ inbox' = Tail(inbox)
    /\ LET m == Head(inbox) IN
       \/ m.tag = "Sync" /\ Says(<<Bare("Ready")>>) /\ skipping' = FALSE
          /\ UNCHANGED <<named, unnamed, portal, schema, failures>>
       \/ m.tag # "Sync" /\ skipping /\ UNCHANGED <<outbox, svars, failures>>
       \/ ~skipping /\ m.tag = "Parse" /\ Parse(m)
       \/ ~skipping /\ m.tag = "Bind" /\ Bind(m)
       \/ ~skipping /\ m.tag = "Execute" /\ Execute
       \/ ~skipping /\ m.tag = "Query" /\ Query(m)
    /\ UNCHANGED <<cvars, calls, timeouts, notices>>

\* A notice or a parameter status, between any two messages.
Notice ==
    /\ notices < MaxNotices
    /\ notices' = notices + 1
    /\ Says(<<Bare("Notice")>>)
    /\ UNCHANGED <<cvars, inbox, svars, calls, timeouts, failures>>

Init ==
    /\ cache = [s \in Sqls |-> 0] /\ seq = 0 /\ broken = FALSE
    /\ call = None /\ got = Empty /\ result = None
    /\ inbox = <<>> /\ outbox = <<>>
    /\ named = <<>> /\ portal = None /\ unnamed = None /\ skipping = FALSE /\ schema = 0
    /\ calls = 0 /\ timeouts = 0 /\ failures = 0 /\ notices = 0

Next ==
    \/ \E s \in Sqls : extended(s)
    \/ batch \/ recv \/ Timeout \/ Reconnect \/ Serve \/ Notice

Fairness == WF_vars(recv) /\ WF_vars(Serve)
Spec == Init /\ [][Next]_vars /\ Fairness

-----------------------------------------------------------------------------
(***************************************************************************)
(* A call that succeeds returns the one row of its own statement with its  *)
(* own parameter: never the late answer to an earlier call, nor that of a  *)
(* statement another text was prepared under.                              *)
(***************************************************************************)
AnswersTheCall ==
    result # None /\ result.err = "" =>
        result.rows = IF result.sql = Ddl THEN <<>> ELSE << <<result.sql, result.id>> >>

(***************************************************************************)
(* What the client takes for prepared is prepared: a cached name is the    *)
(* server's name for that text, and the client never asks for a name the   *)
(* server has given out.                                                   *)
(***************************************************************************)
CacheIsTrue ==
    /\ ~broken => \A s \in Sqls : cache[s] # 0 =>
         Statement(cache[s]) # None /\ Statement(cache[s]).sql = s
    /\ result # None => result.err \notin {"already exists", "no such statement"}

(***************************************************************************)
(* A schema change is never what fails a call: a plan that went stale is   *)
(* prepared again.                                                         *)
(***************************************************************************)
StalePlansHeal == result # None => result.err # "cached plan"

(***************************************************************************)
(* Every call returns.                                                     *)
(***************************************************************************)
CallsReturn == (call # None) ~> (call = None)

(***************************************************************************)
(* The comment on STMT_CACHE_MAX: past it novel SQL runs through the       *)
(* unnamed statement "rather than growing without bound (the server keeps  *)
(* every named statement alive for the session)".                          *)
(***************************************************************************)
(***************************************************************************)
(* Opening a PostgreSQL connection (sutegi-pg/src/protocol.rs): the        *)
(* startup message, the password exchange the server asks for (none,       *)
(* cleartext, MD5, SCRAM-SHA-256), and the messages up to ReadyForQuery.   *)
(*                                                                         *)
(* Hashes are terms: two are equal when their arguments are.  The xor of   *)
(* the SCRAM proof is the symmetric difference of sets of terms, which     *)
(* cancels the way xor does.  The server is PostgreSQL's, and may hang up  *)
(* at any point.                                                           *)
(***************************************************************************)


CONSTANTS
    Passwords,     \* what the client is configured with, what the server stores
    User,
    Methods,       \* subset of {"trust", "cleartext", "md5", "scram", "gss"}
    Iterations,    \* PBKDF2 counts a server may be set to
    IterMax,       \* the client's ceiling, 1_000_000 in the code
    AuthNone

VARIABLES
    password,      \* cfg.password
    server,        \* the server's settings, [password, method, iterations]
    phase,         \* the client: "startup" | "auth" | "drain" | "ready" | "failed"
    scram,         \* the client's Scram, [nonce, signature], or None
    sstate,        \* where the server is
    seen,          \* the client-first message the server received, or None
    toServer, toClient,
    cut            \* the server hung up

authVars == <<password, server, phase, scram, sstate, seen, toServer, toClient, cut>>

\* Terms.
md5(x) == <<"md5", x>>
sha256(x) == <<"sha256", x>>
hmac(key, x) == <<"hmac", key, x>>
pbkdf2(pw, salt, n) == <<"pbkdf2", pw, salt, n>>
Xor(S, T) == (S \ T) \cup (T \ S)

Salt == "salt"
ClientNonce == <<"cn">>
ServerNonce == <<"cn", "sn">>
StartsWith(s, p) == Len(s) >= Len(p) /\ SubSeq(s, 1, Len(p)) = p

AuthSays(tag, x) == [tag |-> tag, x |-> x]
Send(m) == toServer' = Append(toServer, m)

(***************************************************************************)
(* The client.                                                             *)
(***************************************************************************)
client_first_bare == <<"n=", ClientNonce>>
server_first(nonce, n) == <<nonce, Salt, n>>
client_final_bare(nonce) == <<"c=biws", nonce>>

\* What both sides sign: the three messages so far.
auth_message(nonce, n) == <<client_first_bare, server_first(nonce, n), client_final_bare(nonce)>>

client_key(pw, n) == hmac(pbkdf2(pw, Salt, n), "Client Key")
client_signature(pw, nonce, n) == hmac(sha256(client_key(pw, n)), auth_message(nonce, n))
server_signature(pw, nonce, n) == hmac(hmac(pbkdf2(pw, Salt, n), "Server Key"), auth_message(nonce, n))
proof(pw, nonce, n) == Xor({client_key(pw, n)}, {client_signature(pw, nonce, n)})

Fail == phase' = "failed" /\ UNCHANGED <<scram, toServer>>

startup ==
    /\ phase = "startup"
    /\ phase' = "auth"
    /\ Send(AuthSays("startup", AuthNone))
    /\ UNCHANGED <<password, server, scram, sstate, seen, toClient, cut>>

auth_cleartext == Send(AuthSays("password", password))

\* md5(md5(password + user) + salt)
Md5Response(salt) == md5(<<md5(<<password, User>>), salt>>)
auth_md5(salt) == Send(AuthSays("password", Md5Response(salt)))

scram_first ==
    /\ scram' = [nonce |-> ClientNonce, signature |-> AuthNone]
    /\ Send(AuthSays("sasl-initial", client_first_bare))

handle_server_first(m) ==
    IF scram # AuthNone /\ m.iterations \in 1..IterMax /\ StartsWith(m.nonce, scram.nonce)
    THEN /\ scram' = [scram EXCEPT !.signature = server_signature(password, m.nonce, m.iterations)]
         /\ Send(AuthSays("sasl-response", [nonce |-> m.nonce, proof |-> proof(password, m.nonce, m.iterations)]))
         /\ phase' = phase
    ELSE Fail

verify_server_final(sig) ==
    IF scram # AuthNone /\ scram.signature # AuthNone /\ scram.signature = sig
    THEN UNCHANGED <<phase, scram, toServer>>
    ELSE Fail

authenticate(m) ==
    CASE m.tag = "AuthenticationOk" -> phase' = "drain" /\ UNCHANGED <<scram, toServer>>
      [] m.tag = "Cleartext" -> auth_cleartext /\ UNCHANGED <<phase, scram>>
      [] m.tag = "MD5" -> auth_md5(m.x) /\ UNCHANGED <<phase, scram>>
      [] m.tag = "SASL" -> scram_first /\ phase' = phase
      [] m.tag = "SASLContinue" -> handle_server_first(m.x)
      [] m.tag = "SASLFinal" -> verify_server_final(m.x)
      [] OTHER -> Fail

\* The rest of startup: parameters and keys are passed over.
Drain(m) ==
    /\ phase' = CASE m.tag = "Ready" -> "ready" [] m.tag = "Error" -> "failed" [] OTHER -> phase
    /\ UNCHANGED <<scram, toServer>>

authRecv ==
    /\ phase \in {"auth", "drain"} /\ toClient # <<>>
    /\ toClient' = Tail(toClient)
    /\ IF phase = "auth" THEN authenticate(Head(toClient)) ELSE Drain(Head(toClient))
    /\ UNCHANGED <<password, server, sstate, seen, cut>>

\* A read that finds the connection closed.
RecvClosed ==
    /\ phase \in {"auth", "drain"} /\ toClient = <<>> /\ cut
    /\ Fail
    /\ UNCHANGED <<password, server, sstate, seen, toClient, cut>>

(***************************************************************************)
(* The server.                                                             *)
(***************************************************************************)
Welcome == <<AuthSays("AuthenticationOk", AuthNone), AuthSays("ParameterStatus", AuthNone), AuthSays("Ready", AuthNone)>>
Judge(right) ==
    IF right THEN toClient' = toClient \o Welcome /\ sstate' = "ready"
    ELSE toClient' = Append(toClient, AuthSays("Error", AuthNone)) /\ sstate' = "done"

Asks ==
    CASE server.method = "cleartext" -> AuthSays("Cleartext", AuthNone)
      [] server.method = "md5" -> AuthSays("MD5", Salt)
      [] server.method = "scram" -> AuthSays("SASL", <<"SCRAM-SHA-256">>)
      [] OTHER -> AuthSays("GSS", AuthNone)

\* What the server makes of the exchange, from the messages it received and
\* sent and the password it stores.
ServerSalted == <<"pbkdf2", server.password, Salt, server.iterations>>
ServerAuthMessage(m) == <<seen, <<ServerNonce, Salt, server.iterations>>, <<"c=biws", m.nonce>> >>
StoredKey == <<"sha256", <<"hmac", ServerSalted, "Client Key">> >>
ServerFinal(m) == <<"hmac", <<"hmac", ServerSalted, "Server Key">>, ServerAuthMessage(m)>>
Proven(m) ==
    LET keys == Xor(m.proof, {<<"hmac", StoredKey, ServerAuthMessage(m)>>}) IN
    m.nonce = ServerNonce /\ Cardinality(keys) = 1 /\ \A k \in keys : <<"sha256", k>> = StoredKey

AuthServe ==
    /\ toServer # <<>> /\ ~cut
    /\ toServer' = Tail(toServer)
    /\ seen' = IF Head(toServer).tag = "sasl-initial" THEN Head(toServer).x ELSE seen
    /\ LET m == Head(toServer) IN
       CASE m.tag = "startup" ->
              IF server.method = "trust" THEN Judge(TRUE)
              ELSE toClient' = Append(toClient, Asks) /\ sstate' = "asked"
         [] m.tag = "password" ->
              Judge(m.x = IF server.method = "md5" THEN <<"md5", <<<<"md5", <<server.password, User>> >>, Salt>> >>
                          ELSE server.password)
         [] m.tag = "sasl-initial" ->
              /\ toClient' = Append(toClient, AuthSays("SASLContinue",
                                    [nonce |-> ServerNonce, iterations |-> server.iterations]))
              /\ sstate' = "challenged"
         [] OTHER ->
              IF Proven(m.x)
              THEN /\ toClient' = toClient \o
                        <<AuthSays("SASLFinal", ServerFinal(m.x))>> \o Welcome
                   /\ sstate' = "ready"
              ELSE Judge(FALSE)
    /\ UNCHANGED <<password, server, phase, scram, cut>>

HangUp ==
    /\ ~cut /\ phase \in {"auth", "drain"}
    /\ cut' = TRUE
    /\ UNCHANGED <<password, server, phase, scram, sstate, seen, toServer, toClient>>

AuthInit ==
    /\ password \in Passwords
    /\ server \in [password : Passwords, method : Methods, iterations : Iterations]
    /\ phase = "startup" /\ scram = AuthNone /\ sstate = "new" /\ seen = AuthNone
    /\ toServer = <<>> /\ toClient = <<>> /\ cut = FALSE

AuthNext == startup \/ authRecv \/ RecvClosed \/ AuthServe \/ HangUp
AuthFairness == WF_authVars(startup) /\ WF_authVars(authRecv) /\ WF_authVars(RecvClosed) /\ WF_authVars(AuthServe)
AuthSpec == AuthInit /\ [][AuthNext]_authVars /\ AuthFairness

-----------------------------------------------------------------------------
(***************************************************************************)
(* A connection opens when the server's password is the configured one and *)
(* only then: the two sides compute the same digests and proofs from the   *)
(* same messages, and what the client signs is what the server checks.     *)
(* The exceptions are the server's: no password asked for, a method or an  *)
(* iteration count the client does not take, a connection that was cut.    *)
(***************************************************************************)
OpensWithThePassword ==
    /\ phase = "ready" => sstate = "ready" /\ (server.method = "trust" \/ password = server.password)
    /\ phase = "failed" /\ ~cut =>
         \/ server.method = "gss"
         \/ server.method # "trust" /\ password # server.password
         \/ server.method = "scram" /\ server.iterations \notin 1..IterMax

(***************************************************************************)
(* connect returns: the two sides never wait for each other.               *)
(***************************************************************************)
ConnectReturns == <>(phase \in {"ready", "failed"})

(***************************************************************************)
(* What the PostgreSQL driver reads off the wire                           *)
(* (sutegi-pg/src/protocol.rs): messages out of the byte stream, columns   *)
(* and rows out of RowDescription and DataRow, counts out of command tags, *)
(* codes out of errors; and how it writes parameters.                      *)
(*                                                                         *)
(* The stream is a sequence of numbers.  An integer field is one of them   *)
(* whatever its width (lengths count accordingly); a character is its      *)
(* ASCII code.  The server stores a parameter as it came and sends it back *)
(* as text, in messages that arrive in any pieces.                         *)
(***************************************************************************)


CONSTANTS
    Ints, Texts,   \* values of integer and text parameters
    Names,         \* column names, sequences of characters
    MaxCols        \* bound: columns

VARIABLES
    cols,          \* the row, a sequence of [name, value]
    failed,        \* the statement fails after its row
    arrived        \* elements of the stream that have arrived

wireVars == <<cols, failed, arrived>>

Null == [is |-> "null", v |-> <<>>]
Num(i) == [is |-> "int", v |-> <<i>>]
Bool(b) == [is |-> "bool", v |-> <<IF b THEN 1 ELSE 0>>]
Text(s) == [is |-> "text", v |-> s]

RECURSIVE Digits(_)
Digits(n) == IF n < 10 THEN <<48 + n>> ELSE Append(Digits(n \div 10), 48 + (n % 10))
ToString10(i) == IF i < 0 THEN <<45>> \o Digits(-i) ELSE Digits(i)

IsNumber(s) ==
    LET d == IF s # <<>> /\ s[1] = 45 THEN Tail(s) ELSE s IN
    d # <<>> /\ \A i \in DOMAIN d : d[i] \in 48..57
ParseInt(s) ==
    LET d == IF s[1] = 45 THEN Tail(s) ELSE s
        n == FoldLeft(LAMBDA a, c : a * 10 + (c - 48), 0, d)
    IN  IF s[1] = 45 THEN -n ELSE n

\* The parameter as text, <<>> for NULL.
encode_param(p) ==
    CASE p.is = "null" -> <<>>
      [] p.is = "int" -> <<ToString10(p.v[1])>>
      [] p.is = "bool" -> <<IF p.v[1] = 1 THEN <<116>> ELSE <<102>> >>
      [] OTHER -> <<p.v>>

\* By the column's type.
decode_value(oid, raw) ==
    CASE oid = 16 -> Bool(raw = <<116>>)
      [] oid \in {20, 21, 23, 26} -> IF IsNumber(raw) THEN Num(ParseInt(raw)) ELSE Text(raw)
      [] OTHER -> Text(raw)

Until0(body, pos) ==
    LET zeros == {i \in pos..Len(body) : body[i] = 0}
        z == CHOOSE i \in zeros : \A j \in zeros : i <= j
    IN  IF zeros = {} THEN <<>> ELSE SubSeq(body, pos, z - 1)

\* table, attribute, type, size, modifier, format after each name.
RECURSIVE FieldsFrom(_, _, _)
FieldsFrom(body, pos, n) ==
    IF n = 0 \/ pos > Len(body) THEN <<>>
    ELSE LET name == Until0(body, pos)
             at == pos + Len(name) + 1
         IN  << [name |-> name, oid |-> body[at + 2]] >> \o FieldsFrom(body, at + 6, n - 1)
parse_row_description(body) == FieldsFrom(body, 2, body[1])

\* How far a column's length moves the reader: a NULL has none.
Past(len) == IF len < 0 THEN 0 ELSE len

RECURSIVE CellsFrom(_, _, _, _)
CellsFrom(body, pos, n, fields) ==
    IF n = 0 THEN <<>>
    ELSE LET len == body[pos]
             field == Head(fields)
             value == IF len < 0 THEN Null ELSE decode_value(field.oid, SubSeq(body, pos + 1, pos + len))
         IN  << <<field.name, value>> >> \o CellsFrom(body, pos + 1 + Past(len), n - 1, Tail(fields))

\* A JSON object: of columns with one name the last stays.
parse_data_row(body, fields) ==
    LET cells == CellsFrom(body, 2, body[1], fields)
        LastOf(n) == CHOOSE i \in DOMAIN cells : cells[i][1] = n /\ \A j \in DOMAIN cells : cells[j][1] = n => j <= i
    IN  [n \in {cells[i][1] : i \in DOMAIN cells} |-> cells[LastOf(n)][2]]

\* The last word of the tag, a count or not.
command_tag_count(body) ==
    LET text == Front(body)
        spaces == {i \in DOMAIN text : text[i] = 32}
        from == IF spaces = {} THEN 1 ELSE 1 + CHOOSE i \in spaces : \A j \in spaces : j <= i
        word == SubSeq(text, from, Len(text))
    IN  IF IsNumber(word) /\ word[1] # 45 THEN ParseInt(word) ELSE 0

\* The code among the fields, in whatever order they come.
RECURSIVE ErrorFrom(_, _, _)
ErrorFrom(body, pos, code) ==
    IF pos > Len(body) \/ body[pos] = 0 THEN code
    ELSE LET value == Until0(body, pos + 1) IN
         ErrorFrom(body, pos + 1 + Len(value) + 1, IF body[pos] = 67 THEN value ELSE code)
parse_error(body) == ErrorFrom(body, 1, <<>>)

frame(tag, body) == <<tag, Len(body) + 1>> \o body

(***************************************************************************)
(* recv and the loop of extended_once over what has arrived.               *)
(***************************************************************************)
Waiting == [state |-> "waiting", fields |-> <<>>, rows |-> <<>>, affected |-> 0, err |-> <<>>]

RECURSIVE Collect(_, _, _)
Collect(s, pos, wireGot) ==
    IF Len(s) < pos + 1 THEN wireGot
    ELSE IF Len(s) < pos + s[pos + 1] THEN wireGot
    ELSE LET tag == s[pos]
             body == SubSeq(s, pos + 2, pos + s[pos + 1])
             next == pos + 1 + s[pos + 1]
         IN  CASE tag = 84 -> Collect(s, next, [wireGot EXCEPT !.fields = parse_row_description(body)])
               [] tag = 68 -> Collect(s, next, [wireGot EXCEPT !.rows = Append(@, parse_data_row(body, wireGot.fields))])
               [] tag = 67 -> Collect(s, next, [wireGot EXCEPT !.affected = command_tag_count(body)])
               [] tag = 69 -> Collect(s, next, [wireGot EXCEPT !.err = parse_error(body)])
               [] tag = 90 -> [wireGot EXCEPT !.state = "done"]
               [] OTHER -> Collect(s, next, wireGot)

(***************************************************************************)
(* The server.                                                             *)
(***************************************************************************)
TypeOid(v) == CASE v.is = "int" -> 23 [] v.is = "bool" -> 16 [] OTHER -> 25
Description == <<Len(cols)>> \o FlattenSeq([i \in DOMAIN cols |->
                 cols[i].name \o <<0, 7, i, TypeOid(cols[i].value), 4, 0, 0>>])
\* A boolean is read from "t" or "1" and written as "t" or "f".
Shown(v) ==
    LET p == encode_param(v) IN
    IF v.is = "bool" THEN <<IF p[1] \in {<<116>>, <<49>>} THEN <<116>> ELSE <<102>> >> ELSE p
DataRow == <<Len(cols)>> \o FlattenSeq([i \in DOMAIN cols |->
             LET t == Shown(cols[i].value) IN IF t = <<>> THEN <<-1>> ELSE <<Len(t[1])>> \o t[1]])
Tag == <<73, 32, 48, 32, 49, 0>>              \* "I 0 1"
UniqueViolation == <<50, 51>>
ErrorBody == <<83, 69, 0, 67>> \o UniqueViolation \o <<0, 77, 67, 0, 0>>

Stream ==
    frame(50, <<>>) \o frame(84, Description) \o frame(68, DataRow)
    \o (IF failed THEN frame(69, ErrorBody) ELSE frame(67, Tag)) \o frame(90, <<73>>)

Values == {Null, Bool(TRUE), Bool(FALSE)} \cup {Num(i) : i \in Ints} \cup {Text(s) : s \in Texts}

WireInit ==
    /\ cols \in UNION {[1..n -> [name : Names, value : Values]] : n \in 0..MaxCols}
    /\ failed \in BOOLEAN
    /\ arrived = 0

Arrive ==
    /\ arrived < Len(Stream)
    /\ arrived' = arrived + 1
    /\ UNCHANGED <<cols, failed>>

WireNext == Arrive
WireSpec == WireInit /\ [][WireNext]_wireVars

-----------------------------------------------------------------------------
Answer == Collect(SubSeq(Stream, 1, arrived), 1, Waiting)
Distinct == \A i, j \in DOMAIN cols : cols[i].name = cols[j].name => i = j

(***************************************************************************)
(* Parameters come back as they were given: NULL and the empty text apart, *)
(* a text of digits not a number, a boolean a boolean, each under its      *)
(* column's name whatever stands before it in the row.  The answer is      *)
(* complete only when ReadyForQuery has arrived, and carries the row count *)
(* or the error's code.                                                    *)
(***************************************************************************)
RowsComeBack ==
    IF arrived < Len(Stream) THEN Answer.state = "waiting"
    ELSE /\ Answer.state = "done"
         /\ Distinct => Answer.rows = << [n \in {cols[i].name : i \in DOMAIN cols} |->
                          (CHOOSE c \in Range(cols) : c.name = n).value] >>
         /\ Answer.err = IF failed THEN UniqueViolation ELSE <<>>
         /\ Answer.affected = IF failed THEN 0 ELSE 1

=============================================================================
