-------------------------------- MODULE Sessions --------------------------------
(***************************************************************************)
(* Logins of crates/sutegi-auth and the cookies of crates/sutegi-session, in *)
(* three machines: sessions bound to a password and remember-me tokens, the *)
(* login throttle, and the session cookie itself.                          *)
(***************************************************************************)
EXTENDS Integers, FiniteSets

(***************************************************************************)
(* One account's credentials across sutegi-auth: its password hash         *)
(* (users.rs, password.rs), the sessions that carry the hash's fingerprint *)
(* (lib.rs), the rotating remember-me tokens (remember.rs) and the reset   *)
(* links (flows.rs, links.rs).  Requests of several devices interleave     *)
(* between their SQL statements.                                           *)
(*                                                                         *)
(* Passwords are numbered in the order they were set.  A hash is the       *)
(* password it is of, a number of its own (its salt: the fingerprint), and *)
(* whether its work factor is below the configured one.                    *)
(***************************************************************************)


CONSTANTS Devices, Requests,
          StoreFails,                    \* the store may fail under stamp
          MaxHashes, MaxTokens, MaxLinks \* bounds

VARIABLES hash,      \* users.password_hash
          latest,    \* the password set last (history)
          hashes,    \* hashes made so far
          undone,    \* a rehash has put an older password back (history)
          jar,       \* device -> [session, cookie] its browser holds
          rows,      \* remember_tokens: selector -> [val, bind, known], or NoRow
          vals,      \* validators made so far
          revoked,   \* selectors whose row was deleted (history)
          redeemed,  \* validator -> how often it was accepted (history)
          overlaps,  \* rotations that found the row rotated already (history)
          links,     \* reset links mailed: the fingerprint each is bound to
          resets,    \* link -> how often it set a password (history)
          late,      \* resets whose hash was replaced under them (history)
          req        \* request -> where it is and what it read

vars == <<hash, latest, hashes, undone, jar, rows, vals, revoked, redeemed, overlaps,
          links, resets, late, req>>

NoSession == [bind |-> 0, known |-> 0, raced |-> FALSE]
Unbound == -1
NoCookie == [sel |-> 0, val |-> 0]
NoRow == [val |-> 0, bind |-> 0, known |-> 0]
Idle == [at |-> "idle", dev |-> CHOOSE d \in Devices : TRUE, hash |-> 0, pw |-> 0, seen |-> 0,
         cookie |-> NoCookie, row |-> NoRow]

Init ==
    /\ hash = [pw |-> 1, gen |-> 1, weak |-> TRUE]
    /\ latest = 1 /\ hashes = 1 /\ undone = FALSE
    /\ jar = [d \in Devices |-> [session |-> NoSession, cookie |-> NoCookie]]
    /\ rows = [s \in 1..MaxTokens |-> NoRow]
    /\ vals = 0 /\ revoked = {} /\ overlaps = 0
    /\ redeemed = [v \in 1..MaxTokens |-> 0]
    /\ links = {} /\ late = 0
    /\ resets = [g \in 1..MaxHashes |-> 0]
    /\ req = [r \in Requests |-> Idle]

password == <<hash, latest, hashes, undone>>
remember == <<rows, vals, revoked, redeemed, overlaps>>
mail == <<resets, late>>
Step(r, at) == req' = [req EXCEPT ![r].at = at]
End(r) == req' = [req EXCEPT ![r] = Idle]

\* authenticate reads the hash and compares; a weak hash is to be replaced.
authenticate(r, d, pw) ==
    /\ req[r] = Idle
    /\ pw = hash.pw
    /\ req' = [req EXCEPT ![r] = [Idle EXCEPT
            !.at = IF hash.weak THEN "rehash" ELSE "issue", !.dev = d,
            !.hash = hash.gen, !.pw = pw]]
    /\ UNCHANGED <<password, jar, remember, links, mail>>

\* The UPDATE writes a fresh hash of the password that was checked,
\* whatever the row holds by now.
Rehash(r) ==
    /\ req[r].at = "rehash"
    /\ hashes < MaxHashes
    /\ hashes' = hashes + 1
    /\ hash' = [pw |-> req[r].pw, gen |-> hashes', weak |-> FALSE]
    /\ undone' = (undone \/ req[r].pw # latest)
    /\ Step(r, "issue")
    /\ UNCHANGED <<latest, jar, remember, links, mail>>

\* login_remembered reads the fingerprint its token is bound to, then inserts.
ReadBind(r) ==
    /\ req[r].at = "issue"
    /\ req' = [req EXCEPT ![r].hash = hash.gen, ![r].at = "insert"]
    /\ UNCHANGED <<password, jar, remember, links, mail>>

Issue(r) ==
    /\ req[r].at = "insert"
    /\ vals < MaxTokens
    /\ vals' = vals + 1
    /\ rows' = [rows EXCEPT ![vals'] =
            [val |-> vals', bind |-> req[r].hash, known |-> req[r].pw]]
    /\ req' = [req EXCEPT ![r].cookie = [sel |-> vals', val |-> vals'], ![r].at = "stamp"]
    /\ UNCHANGED <<password, jar, revoked, redeemed, overlaps, links, mail>>

\* login alone mints no token.
PlainLogin(r) ==
    /\ req[r].at = "issue"
    /\ req' = [req EXCEPT ![r].cookie = jar[req[r].dev].cookie, ![r].at = "stamp"]
    /\ UNCHANGED <<password, jar, remember, links, mail>>

\* stamp asks for the fingerprint again; an error leaves the one the session
\* had, or none.  The response sets the cookies.
Stamp(r, ok) ==
    LET old == jar[req[r].dev].session
        bind == IF ok THEN hash.gen ELSE IF old # NoSession THEN old.bind ELSE Unbound
    IN  /\ req[r].at = "stamp"
        /\ ok \/ StoreFails
        /\ jar' = [jar EXCEPT ![req[r].dev] =
                [session |-> [bind |-> bind, known |-> req[r].pw,
                              raced |-> req[r].pw # latest],
                 cookie |-> req[r].cookie]]
        /\ End(r)
        /\ UNCHANGED <<password, remember, links, mail>>

\* current: the session's fingerprint, when it has one, must be the stored one.
current(s) == s # NoSession /\ (s.bind = Unbound \/ s.bind = hash.gen)

\* Where the row a cookie selects leads its request.
consume(c) == IF rows[c.sel].val = c.val THEN "bound" ELSE "delete"

\* identify, when the session will not do: the remember cookie's row is read.
identify(r, d) ==
    LET c == jar[d].cookie IN
    /\ req[r] = Idle
    /\ ~current(jar[d].session)
    /\ c # NoCookie /\ rows[c.sel] # NoRow
    /\ req' = [req EXCEPT ![r] = [Idle EXCEPT !.dev = d, !.cookie = c, !.row = rows[c.sel],
            !.at = consume(c)]]
    /\ UNCHANGED <<password, jar, remember, links, mail>>

\* A wrong validator or a stale fingerprint revokes the row.
DeleteRow(r) ==
    /\ req[r].at = "delete"
    /\ rows' = [rows EXCEPT ![req[r].cookie.sel] = NoRow]
    /\ revoked' = revoked \cup {req[r].cookie.sel}
    /\ End(r)
    /\ UNCHANGED <<password, jar, vals, redeemed, overlaps, links, mail>>

\* The store's clock may find the row expired first: it is deleted too.
CheckBind(r) ==
    /\ req[r].at = "bound"
    /\ \/ Step(r, "delete")
       \/ req[r].row.bind = hash.gen /\ Step(r, "rotate")
    /\ UNCHANGED <<password, jar, remember, links, mail>>

\* The validator is replaced where the row still is; the caller is let in
\* either way.
Rotate(r) ==
    LET c == req[r].cookie IN
    /\ req[r].at = "rotate"
    /\ vals < MaxTokens
    /\ vals' = vals + 1
    /\ rows' = IF rows[c.sel] = NoRow THEN rows ELSE [rows EXCEPT ![c.sel].val = vals']
    /\ redeemed' = [redeemed EXCEPT ![c.val] = @ + 1]
    /\ overlaps' = IF rows[c.sel].val # c.val THEN overlaps + 1 ELSE overlaps
    /\ req' = [req EXCEPT ![r].pw = req[r].row.known, ![r].at = "stamp",
                          ![r].cookie = [sel |-> c.sel, val |-> vals']]
    /\ UNCHANGED <<password, jar, revoked, links, mail>>

Revoke(sels) ==
    /\ rows' = [s \in DOMAIN rows |-> IF s \in sels THEN NoRow ELSE rows[s]]
    /\ revoked' = revoked \cup (sels \cap {s \in DOMAIN rows : rows[s] # NoRow})
    /\ UNCHANGED <<vals, redeemed, overlaps>>

\* logout_from: the device's session, cookie and row.
logout_from(d) ==
    /\ jar[d] # [session |-> NoSession, cookie |-> NoCookie]
    /\ jar' = [jar EXCEPT ![d] = [session |-> NoSession, cookie |-> NoCookie]]
    /\ Revoke({jar[d].cookie.sel})
    /\ UNCHANGED <<password, links, mail, req>>

logout_everywhere ==
    /\ \E s \in DOMAIN rows : rows[s] # NoRow
    /\ Revoke(DOMAIN rows)
    /\ UNCHANGED <<password, jar, links, mail, req>>

send_password_reset ==
    /\ hash.gen \notin links /\ Cardinality(links) < MaxLinks
    /\ links' = links \cup {hash.gen}
    /\ UNCHANGED <<password, jar, remember, mail, req>>

\* reset_password: the link's fingerprint must be the stored one, then the new
\* password is written.
reset_password(r, link) ==
    /\ req[r] = Idle
    /\ link = hash.gen
    /\ req' = [req EXCEPT ![r] = [Idle EXCEPT !.at = "set", !.hash = link, !.seen = hash.gen]]
    /\ UNCHANGED <<password, jar, remember, links, mail>>

\* change_password has checked the current password by then (hash 0: no link).
change_password(r) ==
    /\ req[r] = Idle
    /\ req' = [req EXCEPT ![r] = [Idle EXCEPT !.at = "set"]]
    /\ UNCHANGED <<password, jar, remember, links, mail>>

set_password(r) ==
    /\ req[r].at = "set"
    /\ hashes < MaxHashes
    /\ hashes' = hashes + 1 /\ latest' = latest + 1
    /\ hash' = [pw |-> latest', gen |-> hashes', weak |-> FALSE]
    /\ resets' = IF req[r].hash = 0 THEN resets ELSE [resets EXCEPT ![req[r].hash] = @ + 1]
    /\ late' = IF req[r].hash # 0 /\ req[r].seen # hash.gen THEN late + 1 ELSE late
    /\ End(r)
    /\ UNCHANGED <<undone, jar, remember, links>>

Next ==
    \/ \E r \in Requests :
        \/ \E d \in Devices : identify(r, d) \/ \E pw \in 1..latest : authenticate(r, d, pw)
        \/ Rehash(r) \/ ReadBind(r) \/ Issue(r) \/ PlainLogin(r)
        \/ \E ok \in BOOLEAN : Stamp(r, ok)
        \/ DeleteRow(r) \/ CheckBind(r) \/ Rotate(r)
        \/ (\E link \in links : reset_password(r, link))
        \/ change_password(r) \/ set_password(r)
    \/ \E d \in Devices : logout_from(d)
    \/ logout_everywhere \/ send_password_reset

Spec == Init /\ [][Next]_vars
-----------------------------------------------------------------------------
TypeOK ==
    /\ hash.gen \in 1..hashes /\ hash.pw \in 1..latest
    /\ \A s \in DOMAIN rows : rows[s] = NoRow \/ rows[s].val \in 1..vals
    /\ \A d \in Devices : jar[d].cookie.sel \in 0..MaxTokens

\* A session that is still good was opened by someone who proved the password
\* set last, or a token minted under it; the exceptions are a request that was
\* under way while the password changed, a session stamped while the store
\* failed, and a rehash that put the older password back.
SessionsDieWithPassword ==
    \A d \in Devices : LET s == jar[d].session IN
        current(s) /\ s # NoSession =>
            s.known = latest \/ s.raced \/ s.bind = Unbound \/ undone

\* A revoked token stays revoked, also for the request that had read its row.
RevokedStaysDead == \A s \in revoked : rows[s] = NoRow

\* A remember cookie is good for one revival; only requests that hold it at
\* the same time get in with it together.
RevivesOnce == \A v \in DOMAIN redeemed : redeemed[v] <= 1 + overlaps

\* A reset link sets one password: the change it makes, or any other, ends it.
\* Only requests that checked it before the same change can use it together.
LinksResetOnce == \A g \in DOMAIN resets : resets[g] <= 1 + late

(***************************************************************************)
(* The login throttle (sutegi-auth/src/throttle.rs): one key's counter in  *)
(* the database, hit by the workers of every pod.  Each SQL statement is a *)
(* step; hit reads the row and then inserts, restarts or bumps it.         *)
(***************************************************************************)


CONSTANTS Workers,
          Limit, Per,              \* Throttle::max, Throttle::per
          ThrottleMaxClock, MaxHits        \* bounds

VARIABLES throttleRow,      \* auth_throttle: [attempts, start], or NoRow
          throttleClock,
          worker,   \* worker -> [at, now, seen: the window it read]
          hits,     \* failures counted since the row's window began (history)
          lost,     \* failures of this window that were written over (history)
          begun     \* calls of hit so far

throttleVars == <<throttleRow, throttleClock, worker, hits, lost, begun>>

ThrottleNoRow == [attempts |-> 0, start |-> ThrottleMaxClock + 1]
ThrottleIdle == [at |-> "idle", now |-> 0, seen |-> 0]

ThrottleInit ==
    /\ throttleRow = ThrottleNoRow /\ throttleClock = 0 /\ hits = 0 /\ lost = 0 /\ begun = 0
    /\ worker = [w \in Workers |-> ThrottleIdle]

ThrottleTick == throttleClock < ThrottleMaxClock /\ throttleClock' = throttleClock + 1 /\ UNCHANGED <<throttleRow, worker, hits, lost, begun>>

Elapsed(start, now) == now >= start + Per


hit(w) ==
    /\ worker[w] = ThrottleIdle /\ begun < MaxHits
    /\ begun' = begun + 1
    /\ worker' = [worker EXCEPT ![w] =
            [now |-> throttleClock, seen |-> throttleRow.start,
             at |-> IF throttleRow = ThrottleNoRow THEN "insert"
                    ELSE IF Elapsed(throttleRow.start, throttleClock) THEN "restart" ELSE "bump"]]
    /\ UNCHANGED <<throttleRow, throttleClock, hits, lost>>

\* The unique index refuses a second row; the loser bumps the winner's.
insert(w) ==
    /\ worker[w].at = "insert"
    /\ IF throttleRow = ThrottleNoRow
       THEN /\ throttleRow' = [attempts |-> 1, start |-> worker[w].now]
            /\ hits' = 1 /\ lost' = 0
            /\ worker' = [worker EXCEPT ![w] = ThrottleIdle]
       ELSE /\ worker' = [worker EXCEPT ![w].at = "bump"]
            /\ UNCHANGED <<throttleRow, hits, lost>>
    /\ UNCHANGED <<throttleClock, begun>>

\* UPDATE ... SET attempts = 1: a window another worker restarted meanwhile
\* starts over, and what it counted is gone.
restart(w) ==
    LET again == throttleRow # ThrottleNoRow /\ throttleRow.start # worker[w].seen IN
    /\ worker[w].at = "restart"
    /\ throttleRow' = IF throttleRow = ThrottleNoRow THEN throttleRow ELSE [attempts |-> 1, start |-> worker[w].now]
    /\ hits' = IF throttleRow = ThrottleNoRow THEN hits ELSE IF again THEN hits + 1 ELSE 1
    /\ lost' = IF again THEN hits ELSE IF throttleRow = ThrottleNoRow THEN lost ELSE 0
    /\ worker' = [worker EXCEPT ![w] = ThrottleIdle]
    /\ UNCHANGED <<throttleClock, begun>>

\* UPDATE ... SET attempts = attempts + 1; on a cleared key it changes nothing.
bump(w) ==
    /\ worker[w].at = "bump"
    /\ throttleRow' = IF throttleRow = ThrottleNoRow THEN throttleRow ELSE [throttleRow EXCEPT !.attempts = @ + 1]
    /\ hits' = IF throttleRow = ThrottleNoRow THEN hits ELSE hits + 1
    /\ worker' = [worker EXCEPT ![w] = ThrottleIdle]
    /\ UNCHANGED <<throttleClock, lost, begun>>

\* A login that succeeded clears the key.
throttleClear ==
    /\ throttleRow # ThrottleNoRow
    /\ throttleRow' = ThrottleNoRow /\ hits' = 0 /\ lost' = 0
    /\ UNCHANGED <<throttleClock, worker, begun>>

\* too_many: the seconds to wait, 0 for none.
too_many(r, now) ==
    IF r # ThrottleNoRow /\ r.attempts >= Limit /\ now < r.start + Per THEN r.start + Per - now ELSE 0

ThrottleNext == ThrottleTick \/ throttleClear \/ \E w \in Workers : hit(w) \/ insert(w) \/ restart(w) \/ bump(w)

ThrottleSpec == ThrottleInit /\ [][ThrottleNext]_throttleVars
-----------------------------------------------------------------------------
ThrottleTypeOK ==
    /\ throttleRow = ThrottleNoRow \/ (throttleRow.attempts \in 1..MaxHits /\ throttleRow.start \in 0..ThrottleMaxClock)
    /\ hits \in 0..MaxHits /\ lost \in 0..hits

\* The counter is the number of failures of its window, also when first
\* failures race to insert the row; failures go missing only where a second
\* worker that had seen the old window restarts it over the first.
HitsCount == throttleRow # ThrottleNoRow => throttleRow.attempts + lost = hits

\* A lock is not lifted before its window ends: not by more failures, but by
\* a cleared key or by a worker that still restarts the window before.
LocksHold ==
    [][ too_many(throttleRow, throttleClock) > 0 =>
        \/ too_many(throttleRow', throttleClock') > 0
        \/ Elapsed(throttleRow.start, throttleClock')
        \/ throttleRow' = ThrottleNoRow
        \/ lost' > lost ]_throttleVars

(***************************************************************************)
(* Signed-cookie sessions (sutegi-session/src/lib.rs) and the login, guard *)
(* and CSRF operations of sutegi-auth/src/lib.rs on them.  The whole state *)
(* of a session is the cookie: a handler works on the copy its request     *)
(* carried and the response replaces the browser's.  A browser's tabs      *)
(* share the cookie and have requests under way at the same time.          *)
(*                                                                         *)
(* A cookie is [login, exp, csrf]: the time of its login (0: none), its    *)
(* server-side expiry and its CSRF token (0: none).  Cookies whose         *)
(* signature does not verify load as the empty session.                    *)
(***************************************************************************)


CONSTANTS Tabs, Ttl,
          CookieMaxClock, CookieMaxTokens      \* bounds

VARIABLES cookieClock, cookieJar,
          page,      \* tab -> the CSRF token its page was given, 0 for none
          call,      \* tab -> its request: [op, at, cookie, answer]
          minted,    \* tokens minted
          live,      \* the last login or logout answered was a login (history)
          crossed    \* an answer replaced a cookie its request never saw (history)

cookieVars == <<cookieClock, cookieJar, page, call, minted, live, crossed>>

Empty == [login |-> 0, exp |-> 0, csrf |-> 0]
NoCall == [op |-> "none", at |-> "idle", cookie |-> Empty, answer |-> Empty]

CookieInit ==
    /\ cookieClock = 1 /\ cookieJar = Empty /\ minted = 0
    /\ page = [t \in Tabs |-> 0]
    /\ call = [t \in Tabs |-> NoCall]
    /\ live = FALSE /\ crossed = FALSE

\* load: a cookie that is absent, tampered with or malformed is an empty session.
load(cookie, intact) == IF intact THEN cookie ELSE Empty

Send(t, op, intact) ==
    /\ call[t] = NoCall
    /\ call' = [call EXCEPT ![t] = [op |-> op, at |-> "sent", cookie |-> load(cookieJar, intact),
                                    answer |-> Empty]]
    /\ UNCHANGED <<cookieClock, cookieJar, page, minted, live, crossed>>

\* login: stamp into the session the request carried.
login(s) == [s EXCEPT !.login = cookieClock, !.exp = cookieClock + Ttl]

\* Sessions::clear sets an empty cookie that is expired.
cookieClear(s) == Empty

\* csrf: the session's token, or a new one.
csrf(s) == [s EXCEPT !.csrf = IF @ = 0 THEN minted + 1 ELSE @]

\* The handler saves the session into its answer.
Serve(t) ==
    LET c == call[t]
        s == CASE c.op = "login" -> login(c.cookie)
               [] c.op = "logout" -> cookieClear(c.cookie)
               [] c.op = "csrf" -> csrf(c.cookie)
    IN  /\ c.at = "sent"
        /\ minted < CookieMaxTokens
        /\ minted' = IF s.csrf = minted + 1 THEN minted + 1 ELSE minted
        /\ call' = [call EXCEPT ![t].at = "answered", ![t].answer = s]
        /\ UNCHANGED <<cookieClock, cookieJar, page, live, crossed>>

\* The answer arrives and its cookie replaces the browser's; a logout reloads
\* every page.
Receive(t) ==
    LET c == call[t] IN
    /\ c.at = "answered"
    /\ cookieJar' = c.answer
    /\ crossed' = (crossed \/ cookieJar # c.cookie)
    /\ page' = CASE c.op = "csrf" -> [page EXCEPT ![t] = c.answer.csrf]
                 [] c.op = "logout" -> [u \in Tabs |-> 0]
                 [] c.op = "login" -> page
    /\ live' = IF c.op = "csrf" THEN live ELSE c.op = "login"
    /\ call' = [call EXCEPT ![t] = NoCall]
    /\ UNCHANGED <<cookieClock, minted>>

CookieTick == cookieClock < CookieMaxClock /\ cookieClock' = cookieClock + 1
        /\ UNCHANGED <<cookieJar, page, call, minted, live, crossed>>

CookieNext ==
    \/ CookieTick
    \/ \E t \in Tabs :
        \/ \E op \in {"login", "logout", "csrf"}, intact \in BOOLEAN : Send(t, op, intact)
        \/ Serve(t) \/ Receive(t)

CookieSpec == CookieInit /\ [][CookieNext]_cookieVars
-----------------------------------------------------------------------------
\* user_id: a login that has not expired.
user_id(s) == s.login # 0 /\ s.exp >= cookieClock

\* require_csrf: a session without a token matches nothing.
verify_csrf(s, presented) == s.csrf # 0 /\ presented # 0 /\ s.csrf = presented

CookieTypeOK ==
    /\ cookieJar \in [login : 0..CookieMaxClock, exp : 0..(CookieMaxClock + Ttl), csrf : 0..CookieMaxTokens]
    /\ page \in [Tabs -> 0..CookieMaxTokens]
    /\ \A t \in Tabs : call[t].at \in {"idle", "sent", "answered"}

\* Every tab's page token is accepted with the browser's cookie, whichever tab
\* asked first, as long as no two answers crossed.
PageTokensWork ==
    ~crossed => \A t \in Tabs : page[t] # 0 => verify_csrf(cookieJar, page[t])

\* A login ends Ttl after it was made, however often handlers sign the cookie
\* again.
LoginsExpire == user_id(cookieJar) => cookieClock <= cookieJar.login + Ttl

\* After a logout the browser is nobody, as long as no two answers crossed: an
\* answer to a request sent before brings the login back.
LogoutHolds == user_id(cookieJar) => live \/ crossed

=============================================================================
