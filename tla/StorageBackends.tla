---------------------------- MODULE StorageBackends ----------------------------
(***************************************************************************)
(* The encodings that crates/sutegi-storage and sutegi-orm store and sign  *)
(* with, and the machines that use them: objects in a database table, the  *)
(* key-value table, the signatures of S3 requests, and dates.              *)
(***************************************************************************)
EXTENDS Integers, Sequences, SequencesExt, FiniteSets

(***************************************************************************)
(* The text encodings of bytes: the Base64 of sutegi-crypto, the percent   *)
(* encoding of sutegi-storage.  A byte is a number in 0..255, a digit of   *)
(* an alphabet its value; Pad is the "=" of Base64, an escape %XX is       *)
(* <<Percent, X, X>>.                                                      *)
(***************************************************************************)


Pad == 64

ByteOr0(s, i) == IF i <= Len(s) THEN s[i] ELSE 0
ChunksOf(s, n) ==
    [i \in 1..((Len(s) + n - 1) \div n) |->
        SubSeq(s, (i - 1) * n + 1, IF i * n < Len(s) THEN i * n ELSE Len(s))]

\* Three bytes make four digits; what is missing of the last group is Pad.
EncodeGroup(chunk) ==
    LET n == chunk[1] * 65536 + ByteOr0(chunk, 2) * 256 + ByteOr0(chunk, 3)
    IN  <<n \div 262144, (n \div 4096) % 64,
          IF Len(chunk) > 1 THEN (n \div 64) % 64 ELSE Pad,
          IF Len(chunk) > 2 THEN n % 64 ELSE Pad>>

base64_encode(data) ==
    LET groups == ChunksOf(data, 3)
    IN  FlattenSeq([i \in DOMAIN groups |-> EncodeGroup(groups[i])])

\* n <<= 24 - bits; bits / 8 bytes from the top.
DecodeGroup(chunk) ==
    LET bits == 6 * Len(chunk)
        n == FoldLeft(LAMBDA acc, c : acc * 64 + c, 0, chunk) * 2 ^ (24 - bits)
    IN  [i \in 1..(bits \div 8) |-> (n \div 256 ^ (3 - i)) % 256]

base64_decode(s) ==
    LET digits == SelectSeq(s, LAMBDA c : c # Pad)
        groups == ChunksOf(digits, 4)
    IN  FlattenSeq([i \in DOMAIN groups |-> DecodeGroup(groups[i])])

Percent == -1
Slash == 47
\* Letters, digits and "-._~" pass; a byte above 255 does not occur.
Unreserved == (65..90) \cup (97..122) \cup (48..57) \cup {45, 46, 95, 126}

uri_encode(s, encode_slash) ==
    FlattenSeq([i \in DOMAIN s |->
        IF s[i] \in Unreserved \/ (s[i] = Slash /\ ~encode_slash) THEN <<s[i]>>
        ELSE <<Percent, s[i] \div 16, s[i] % 16>>])

\* A function of the position, because an escape takes three.
percent_decode(s) ==
    LET From[i \in 1..(Len(s) + 1)] ==
            IF i > Len(s) THEN <<>>
            ELSE IF s[i] = Percent THEN <<s[i + 1] * 16 + s[i + 2]>> \o From[i + 3]
            ELSE <<s[i]>> \o From[i + 1]
    IN  From[1]

(***************************************************************************)
(* DbStorage (sutegi-storage/src/db.rs): objects in a database table, one  *)
(* statement per call.  The data column holds the Base64 text of the       *)
(* bytes; list is a LIKE with the prefix escaped.  Keys are sequences of   *)
(* characters, all in one case (SQLite's LIKE folds ASCII case, which is   *)
(* left out).                                                              *)
(***************************************************************************)


CONSTANTS
    DbKeySpace,   \* the keys and prefixes used
    Blobs,      \* the bodies used, sequences of bytes
    Types,      \* content types, "" among them
    DbMaxOps      \* bound: writing calls

VARIABLES
    dbTable,      \* the rows, [key, content_type, size, data]
    held,       \* history: [KeySpace -> {the last put's [bytes, type]} or {}]
    ops         \* writing calls so far

dbVars == <<dbTable, held, ops>>

Guessed == "guessed"    \* content_type_of(key)

\* Segments between "/" that are not empty, and no backslash; the reserved
\* names are left out.
validate_key(key) ==
    /\ key # <<>>
    /\ \A i \in DOMAIN key : key[i] # "\\"
    /\ key[1] # "/" /\ key[Len(key)] # "/"
    /\ \A i \in 1..(Len(key) - 1) : ~(key[i] = "/" /\ key[i + 1] = "/")

DbAt(key) == {r \in dbTable : r.key = key}

put(key, bytes, ty) ==
    LET ct == IF ty = "" THEN Guessed ELSE ty
        row == [key |-> key, content_type |-> ct, size |-> Len(bytes), data |-> base64_encode(bytes)]
    IN  /\ validate_key(key)
        /\ dbTable' = (dbTable \ DbAt(key)) \cup {row}
        /\ held' = [held EXCEPT ![key] = {[bytes |-> bytes, type |-> ct]}]

dbDelete(key) ==
    /\ validate_key(key)
    /\ dbTable' = dbTable \ DbAt(key)
    /\ held' = [held EXCEPT ![key] = {}]

dbGet(key) == {base64_decode(r.data) : r \in DbAt(key)}
meta_of(r) == [key |-> r.key, size |-> r.size, content_type |-> r.content_type]
stat(key) == {meta_of(r) : r \in DbAt(key)}

\* LIKE ? ESCAPE '\': "%" any text, "_" any character, "\" the next one as it is.
RECURSIVE DbLike(_, _)
DbLike(p, s) ==
    CASE p = <<>> -> s = <<>>
      [] p # <<>> /\ p[1] = "%" -> \E i \in 0..Len(s) : DbLike(Tail(p), SubSeq(s, i + 1, Len(s)))
      [] Len(p) > 1 /\ p[1] = "\\" -> s # <<>> /\ p[2] = s[1] /\ DbLike(SubSeq(p, 3, Len(p)), Tail(s))
      [] OTHER -> s # <<>> /\ (p[1] = "_" \/ p[1] = s[1]) /\ DbLike(Tail(p), Tail(s))

Replaced(s, c) == FlattenSeq([i \in DOMAIN s |-> IF s[i] = c THEN <<"\\", c>> ELSE <<s[i]>>])
\* The backslash first, or the other two escapes would be escaped again.
Escaped(prefix) == Replaced(Replaced(Replaced(prefix, "\\"), "%"), "_")

list(prefix) == {meta_of(r) : r \in {x \in dbTable : DbLike(Escaped(prefix) \o <<"%">>, x.key)}}

DbInit == dbTable = {} /\ held = [k \in DbKeySpace |-> {}] /\ ops = 0

DbNext ==
    /\ ops < DbMaxOps
    /\ ops' = ops + 1
    /\ \/ \E k \in DbKeySpace, b \in Blobs, t \in Types : put(k, b, t)
       \/ \E k \in DbKeySpace : dbDelete(k)

DbSpec == DbInit /\ [][DbNext]_dbVars

(***************************************************************************)
(* The object under a key is what the last put left there: its bytes come  *)
(* back from the text column whatever their number, its metadata is theirs.*)
(***************************************************************************)
ReadsBack ==
    \A k \in DbKeySpace :
        /\ dbGet(k) = {h.bytes : h \in held[k]}
        /\ stat(k) = {[key |-> k, size |-> Len(h.bytes), content_type |-> h.type] : h \in held[k]}

(***************************************************************************)
(* list returns the objects whose key starts with the prefix, whatever     *)
(* characters the two are made of.                                         *)
(***************************************************************************)
ListsThePrefix ==
    \A p \in DbKeySpace : {m.key : m \in list(p)} = {k \in DbKeySpace : held[k] # {} /\ IsPrefix(p, k)}

(***************************************************************************)
(* The namespaced key/value store of sutegi-orm (kv.rs): one table keyed   *)
(* by (ns, key), one statement per operation.  Keys are sequences of       *)
(* characters, because scan_prefix is a LIKE.                              *)
(***************************************************************************)


CONSTANTS
    Namespaces, \* namespaces
    KvKeySpace,   \* the keys used
    Values,     \* JSON values
    KvMaxOps      \* bound: writing operations

VARIABLES
    kvTable,      \* the rows
    log         \* the writing operations so far

kvVars == <<kvTable, log>>

KvInit == kvTable = {} /\ log = <<>>

Row(ns, key, value) == [ns |-> ns, key |-> key, value |-> value]
KvAt(ns, key) == {r \in kvTable : r.ns = ns /\ r.key = key}
Log(op) == Len(log) < KvMaxOps /\ log' = Append(log, op)

\* INSERT ... ON CONFLICT (ns, key) DO UPDATE.
set(ns, key, value) ==
    /\ kvTable' = (kvTable \ KvAt(ns, key)) \cup {Row(ns, key, value)}
    /\ Log([op |-> "set", ns |-> ns, key |-> key, value |-> value])

kvDelete(ns, key) ==
    /\ kvTable' = kvTable \ KvAt(ns, key)
    /\ Log([op |-> "delete", ns |-> ns, key |-> key])

clear(ns) ==
    /\ kvTable' = {r \in kvTable : r.ns # ns}
    /\ Log([op |-> "clear", ns |-> ns])

KvNext ==
    \/ \E ns \in Namespaces, key \in KvKeySpace, v \in Values : set(ns, key, v)
    \/ \E ns \in Namespaces, key \in KvKeySpace : kvDelete(ns, key)
    \/ \E ns \in Namespaces : clear(ns)

KvSpec == KvInit /\ [][KvNext]_kvVars

(***************************************************************************)
(* The reads.                                                              *)
(***************************************************************************)
kvGet(ns, key) == {r.value : r \in KvAt(ns, key)}
keys(ns) == {r.key : r \in {x \in kvTable : x.ns = ns}}
count(ns) == Cardinality({r \in kvTable : r.ns = ns})

\* LIKE: "%" is any text, "_" any one character.
RECURSIVE KvLike(_, _)
KvLike(p, s) ==
    CASE p = <<>> -> s = <<>>
      [] p # <<>> /\ p[1] = "%" -> \E i \in 0..Len(s) : KvLike(Tail(p), SubSeq(s, i + 1, Len(s)))
      [] OTHER -> s # <<>> /\ (p[1] = "_" \/ p[1] = s[1]) /\ KvLike(Tail(p), Tail(s))

scan_prefix(ns, prefix) == {r \in kvTable : r.ns = ns /\ KvLike(prefix \o <<"%">>, r.key)}

(***************************************************************************)
(* Properties.                                                             *)
(***************************************************************************)
LastWrite(ns, key) ==
    LET is == {i \in DOMAIN log : log[i].ns = ns /\ (log[i].op = "clear" \/ log[i].key = key)}
        last == CHOOSE i \in is : \A j \in is : j <= i
    IN IF is = {} \/ log[last].op # "set" THEN {} ELSE {log[last].value}

\* A key reads as the last operation on it left it: one value after a set,
\* none after a delete or a clear of its namespace, whatever happened to the
\* same key elsewhere; count and keys agree with it.
ReadsLastWrite ==
    \A ns \in Namespaces :
        /\ \A key \in KvKeySpace : kvGet(ns, key) = LastWrite(ns, key)
        /\ keys(ns) = {key \in KvKeySpace : LastWrite(ns, key) # {}}
        /\ count(ns) = Cardinality(keys(ns))

StartsWith(prefix, key) == Len(prefix) <= Len(key) /\ SubSeq(key, 1, Len(prefix)) = prefix
Exactly(ns, prefix) == scan_prefix(ns, prefix) = {r \in kvTable : r.ns = ns /\ StartsWith(prefix, r.key)}

\* A prefix without LIKE's own characters scans the keys that start with it.
PlainPrefixScans ==
    \A ns \in Namespaces, p \in KvKeySpace :
        (\A i \in DOMAIN p : p[i] \notin {"_", "%"}) => Exactly(ns, p)

(***************************************************************************)
(* The SigV4 signatures of S3Store (sutegi-storage/src/s3.rs): requests    *)
(* signed in their headers (sign_request) and URLs signed in their query   *)
(* (presign_at).  HMAC and SHA-256 are free constructors: a signature is   *)
(* the tuple of what was signed.  The store verifies the way the protocol  *)
(* says, from the request it received.                                     *)
(*                                                                         *)
(* Header and parameter names are numbers in the order of their text, so   *)
(* that sorting by name is sorting by <.  A day has Day seconds.           *)
(***************************************************************************)


CONSTANTS
    Paths,       \* raw request paths, sequences of bytes
    Bodies,      \* request bodies, "" the empty one
    Tokens,      \* session tokens, "" for none
    Day,         \* seconds of a day
    Window,      \* how far the store's clock may be from a request's date
    MaxExpires,  \* MAX_EXPIRES
    Times        \* the seconds at which a request is signed or received

VARIABLES
    req,         \* the request on the wire, or None
    altered      \* history: what the wire changed, "" for nothing

signVars == <<req, altered>>

None == [kind |-> "none"]

\* Header names in the order of their text; the parameters likewise.
ContentType == 1
Host == 2
Sha256 == 3
Date == 4
SecurityToken == 5

Algorithm == 1
Credential == 2
XDate == 3
Expires == 4
XToken == 5
SignedHeaders == 6

ByName(pairs) == SortSeq(pairs, LAMBDA a, b : a[1] < b[1])
Names(pairs) == [i \in DOMAIN pairs |-> pairs[i][1]]

\* amz_date: the day for the scope, the second for the request, of one reading.
amz_date(now) == [date |-> now \div Day, datetime |-> now]

\* sign_canonical, with the key derived from the day of the scope.
sign_canonical(canonical, day, datetime) == <<"hmac", day, datetime, canonical>>

canonical_request(method, uri, query, headers, payload) ==
    <<method, uri, query, headers, Names(headers), payload>>

\* Every header takes part, sorted by name.
AllHeaders(base, token, extra) == ByName(base \o token \o extra)

\* The headers the signature covers: the extra ones too.
Covered(headers) == headers

payload_hash(body) == <<"sha256", body>>

sign_request(method, path, body, token, ctype, now) ==
    LET d == amz_date(now)
        uri == uri_encode(path, FALSE)
        headers == AllHeaders(<< <<Host, "host">>, <<Sha256, payload_hash(body)>>, <<Date, d.datetime>> >>,
                              IF token = "" THEN <<>> ELSE << <<SecurityToken, token>> >>,
                              IF ctype = "" THEN <<>> ELSE << <<ContentType, ctype>> >>)
        covered == Covered(headers)
        canonical == canonical_request(method, uri, <<>>, covered, payload_hash(body))
    IN  [kind |-> "headers", method |-> method, uri |-> uri, query |-> <<>>, headers |-> headers,
         body |-> body, scope |-> d.date, names |-> Names(covered),
         signature |-> sign_canonical(canonical, d.date, d.datetime)]

\* The token goes before X-Amz-SignedHeaders: the names are in order as pushed.
Params(base, token) == base \o token \o << <<SignedHeaders, <<Host>> >> >>

presign_at(method, path, expires, token, now) ==
    LET d == amz_date(now)
        uri == uri_encode(path, FALSE)
        query == Params(<< <<Algorithm, "AWS4-HMAC-SHA256">>, <<Credential, d.date>>,
                           <<XDate, d.datetime>>, <<Expires, expires>> >>,
                        IF token = "" THEN <<>> ELSE << <<XToken, token>> >>)
        headers == << <<Host, "host">> >>
        canonical == canonical_request(method, uri, query, headers, <<"UNSIGNED-PAYLOAD", "">>)
    IN  [kind |-> "query", method |-> method, uri |-> uri, query |-> query, headers |-> headers,
         body |-> "", scope |-> d.date, names |-> Names(headers),
         signature |-> sign_canonical(canonical, d.date, d.datetime)]

(***************************************************************************)
(* The store.                                                              *)
(***************************************************************************)
ValueOf(pairs, name) == LET i == CHOOSE i \in DOMAIN pairs : pairs[i][1] = name IN pairs[i][2]

Verifies(r, now) ==
    LET uri == uri_encode(percent_decode(r.uri), FALSE)
        covered == ByName(SelectSeq(r.headers, LAMBDA h : \E i \in DOMAIN r.names : r.names[i] = h[1]))
        datetime == IF r.kind = "headers" THEN ValueOf(r.headers, Date) ELSE ValueOf(r.query, XDate)
        payload == IF r.kind = "headers" THEN ValueOf(r.headers, Sha256) ELSE <<"UNSIGNED-PAYLOAD", "">>
        canonical == canonical_request(r.method, uri, ByName(r.query), covered, payload)
    IN  /\ r.scope = datetime \div Day
        /\ r.signature = sign_canonical(canonical, r.scope, datetime)
        /\ r.kind = "headers" =>
             /\ payload = <<"sha256", r.body>>
             /\ now - datetime \in -Window..Window
        /\ r.kind = "query" => now - datetime \in -Window..ValueOf(r.query, Expires)

(***************************************************************************)
(* Steps: the client signs, the wire may alter one part.                   *)
(***************************************************************************)
Sign ==
    /\ req = None
    /\ \/ \E m \in {"GET", "PUT"}, p \in Paths, b \in Bodies, t \in Tokens, c \in {"", "text"}, now \in Times :
            req' = sign_request(m, p, b, t, c, now)
       \/ \E m \in {"GET", "PUT"}, p \in Paths, e \in 1..MaxExpires, t \in Tokens, now \in Times :
            req' = presign_at(m, p, e, t, now)
    /\ UNCHANGED altered

\* A different value of the same kind.
OtherHeader(h) == CASE h[1] = Sha256 -> <<"sha256", "z">> [] h[1] = Date -> h[2] + 1 [] OTHER -> "other"
OtherParam(p) == CASE p[1] \in {Algorithm, XToken} -> "other" [] p[1] = SignedHeaders -> <<>> [] OTHER -> p[2] + 1

\* Any part of the request; the body of a presigned URL is the client's own.
Alter ==
    /\ req # None /\ altered = ""
    /\ \/ /\ altered' = "method"
          /\ req' = [req EXCEPT !.method = IF @ = "GET" THEN "PUT" ELSE "GET"]
       \/ /\ altered' = "path"
          /\ \E p \in Paths : uri_encode(p, FALSE) # req.uri /\ req' = [req EXCEPT !.uri = uri_encode(p, FALSE)]
       \/ /\ altered' = "body"
          /\ \E b \in Bodies \ {req.body} : req' = [req EXCEPT !.body = b]
       \/ /\ altered' = "header"
          /\ \E i \in DOMAIN req.headers : req' = [req EXCEPT !.headers[i][2] = OtherHeader(req.headers[i])]
       \/ /\ altered' = "query"
          /\ \E i \in DOMAIN req.query : req' = [req EXCEPT !.query[i][2] = OtherParam(req.query[i])]

SignInit == req = None /\ altered = ""
SignNext == Sign \/ Alter
SignSpec == SignInit /\ [][SignNext]_signVars

SignedAt == IF req.kind = "headers" THEN ValueOf(req.headers, Date) ELSE ValueOf(req.query, XDate)
Lasts == IF req.kind = "headers" THEN Window ELSE ValueOf(req.query, Expires)

(***************************************************************************)
(* The store accepts every request as it was signed while it is fresh,     *)
(* over midnight too, and none past its time.                              *)
(***************************************************************************)
FreshAccepted ==
    req # None /\ altered = "" =>
        \A now \in Times : Verifies(req, now) = (now - SignedAt \in -Window..Lasts)

(***************************************************************************)
(* A request of which any part changed on the way is refused; only the     *)
(* body sent with a presigned URL is not covered by the signature.         *)
(***************************************************************************)
AlteredRefused ==
    altered # "" /\ ~(req.kind = "query" /\ altered = "body") =>
        \A now \in Times : ~Verifies(req, now)

(***************************************************************************)
(* Civil dates from day numbers and back, as sutegi-storage (s3.rs, for    *)
(* request dates and Last-Modified) and sutegi-mail (for the Date header)  *)
(* compute them, against a calendar that is stepped one day at a time.     *)
(***************************************************************************)


CONSTANTS
    StartYear,   \* the first year stepped through; January 1st
    FirstWeekday,\* its day of the week, 0 for Thursday
    DaysBefore,  \* how many days before 1970-01-01 that is
    MaxDays      \* bound: days stepped through

VARIABLES
    day,         \* days since 1970-01-01
    date,        \* <<y, m, d>> by the rules of the calendar
    week         \* the day of the week, counted from Thursday

vars == <<day, date, week>>

(***************************************************************************)
(* The calendar.                                                           *)
(***************************************************************************)
IsLeap(y) == y % 4 = 0 /\ (y % 100 # 0 \/ y % 400 = 0)
MonthDays(y, m) == IF m = 2 THEN (IF IsLeap(y) THEN 29 ELSE 28) ELSE IF m \in {4, 6, 9, 11} THEN 30 ELSE 31

Tomorrow(t) ==
    LET y == t[1] m == t[2] d == t[3] IN
    CASE d < MonthDays(y, m) -> <<y, m, d + 1>>
      [] d = MonthDays(y, m) /\ m < 12 -> <<y, m + 1, 1>>
      [] OTHER -> <<y + 1, 1, 1>>

(***************************************************************************)
(* The code.  \div and % are div_euclid and rem_euclid; where the code     *)
(* divides with /, the operands are not negative.                          *)
(***************************************************************************)
\* The year of the era, with the days of its leap years taken out.
yoe_of(doe) == (doe - (doe \div 1460) + (doe \div 36524) - (doe \div 146096)) \div 365

civil_from_days(days) ==
    LET z == days + 719468
        era == z \div 146097
        doe == z % 146097
        yoe == yoe_of(doe)
        doy == doe - (365 * yoe + (yoe \div 4) - (yoe \div 100))
        mp == (5 * doy + 2) \div 153
        d == doy - ((153 * mp + 2) \div 5) + 1
        m == IF mp < 10 THEN mp + 3 ELSE mp - 9
    IN  <<yoe + era * 400 + (IF m <= 2 THEN 1 ELSE 0), m, d>>

days_from_civil(y0, m, d) ==
    LET y == IF m <= 2 THEN y0 - 1 ELSE y0
        era == y \div 400
        yoe == y - era * 400
        mp == IF m > 2 THEN m - 3 ELSE m + 9
        doy == ((153 * mp + 2) \div 5) + d - 1
        doe == yoe * 365 + (yoe \div 4) - (yoe \div 100) + doy
    IN  era * 146097 + doe - 719468

\* rfc2822_date's weekday, 0 a Thursday as the epoch was.
Weekday(days) == days % 7

\* unix_from: a date the calendar does not have is refused.
Accepted(y, m, d) == m \in 1..12 /\ d \in 1..31 /\ civil_from_days(days_from_civil(y, m, d)) = <<y, m, d>>

Init == day = (0 - DaysBefore) /\ date = <<StartYear, 1, 1>> /\ week = FirstWeekday
Next == day < (0 - DaysBefore) + MaxDays /\ day' = day + 1 /\ date' = Tomorrow(date) /\ week' = (week + 1) % 7
Spec == Init /\ [][Next]_vars

(***************************************************************************)
(* The day number and the date name each other, and the day of the week    *)
(* goes with them, on every day of four centuries, the days around leap    *)
(* days, centuries and the epoch included.                                 *)
(***************************************************************************)
DatesAgree == civil_from_days(day) = date /\ days_from_civil(date[1], date[2], date[3]) = day /\ Weekday(day) = week

(***************************************************************************)
(* Of the triples a header or a listing can spell, exactly the dates of    *)
(* the calendar are accepted.                                              *)
(***************************************************************************)
RefusesNoDates ==
    date[3] = 1 => \A d \in 0..32 : Accepted(date[1], date[2], d) = (d \in 1..MonthDays(date[1], date[2]))

=============================================================================
