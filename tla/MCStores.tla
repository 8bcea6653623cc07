------------------------------ MODULE MCStores ------------------------------
(***************************************************************************)
(* The runs of what the services keep their state in: connection pool,     *)
(* files, S3, key-value store, locks, watches, migrations, search and the  *)
(* PostgreSQL client.  A behaviour takes the steps of one component,       *)
(* chosen by part.                                                         *)
(***************************************************************************)
EXTENDS StoreProofs

CONSTANTS Parts, MaxDays, Wrong

\* The component whose steps a behaviour takes.
VARIABLE part

VARIABLES bucket, s3Call, wire, step, s3Out, token, pages, s3Result, s3Seen,
          changes, s3Faults, s3Calls
VARIABLES dbTable, held, ops, kvTable, log, req, altered, day, date, week
VARIABLES history, effects, lock, migPc, migCall, todo, batch, bodies,
          migCalls, migFaults
VARIABLES cache, seq, broken, pgCall, got, pgResult, inbox, outbox, named,
          portal, unnamed, skipping, schema, pgCalls, timeouts, failures,
          notices, password, server, phase, scram, sstate, pgSeen, toServer,
          toClient, pgCut, cols, failed, arrived
VARIABLES input, searchTable, index, triggers, created, setup, searchFaults,
          searchWrites, searchCall, lexical, vector, hits

Off == "off"

\* Each writing thread in a process of its own, or both in one.
Apart == [t \in {"t1", "t2"} |-> t]
Together == [t \in {"t1", "t2"} |-> "t1"]

\* Two callers of one database file and one of another.
TwoFiles == [c \in {"c1", "c2", "c3"} |-> IF c = "c3" THEN "b" ELSE "a"]

\* Migrations: the newer deployment registers one more, out of order the older.
Registries == [old |-> <<3, 1>>, new |-> <<1, 2, 3>>]

\* Keys and prefixes that hold LIKE's wildcards and its escape character.
DbKeys == {<<>>, <<"\\">>, <<"a", "/">>, <<"a", "/", "a">>}
            \cup UNION {[1..n -> {"a", "%", "_"}] : n \in 1..2}
KvKeys == {<<"a">>, <<"a", "_">>, <<"a", "b">>, <<"b", "a">>}
Contents == {<<>>, <<255>>, <<1, 128>>, <<7, 0, 64>>, <<0, 3, 250, 9>>}

\* Paths with bytes that are escaped, that look escaped and that are not.
UrlPaths == {<<47, 97>>, <<47, 97, 32, 98>>, <<47, 97, 47, 37>>, <<47, 97, 37, 50, 48>>}

Documents == {<<>>} \cup UNION {[1..n -> {<<"a">>, <<"b">>, <<"or">>}] : n \in 1..2}

S3 == INSTANCE S3Storage
  WITH Keys <- 1..5, Markers <- {2}, ListPrefixes <- {1..5, {2, 3}},
       Bodies <- {"a", "b"}, None <- NONE, PageSize <- 2, MaxListKeys <- 3,
       MaxChanges <- 1, MaxFaults <- 1, MaxCalls <- 1, call <- s3Call,
       out <- s3Out, result <- s3Result, seen <- s3Seen, faults <- s3Faults,
       calls <- s3Calls

Backends == INSTANCE StorageBackends
  WITH DbKeySpace <- DbKeys, Blobs <- Contents, Types <- {"", "text"},
       DbMaxOps <- 2, Namespaces <- {"n", "m"}, KvKeySpace <- KvKeys,
       Values <- {1, 2}, KvMaxOps <- 3, Paths <- UrlPaths,
       Bodies <- {"", "x", "y"}, Tokens <- {"", "t"}, Day <- 4, Window <- 1,
       MaxExpires <- 2, Times <- 2..7, StartYear <- 1968, FirstWeekday <- 4,
       DaysBefore <- 731

\* One database, one lock.
Mig == INSTANCE Migrator
  WITH Runners <- {"old", "new"}, Registered <- Registries,
       Transactional <- {2, 3}, Irreversible <- {}, OutOfOrder <- FALSE,
       MaxCalls <- 4, MaxFaults <- 1,
       Content <- [r \in {"old", "new"} |-> "a"],
       LockDomain <- [r \in {"old", "new"} |-> "db"], pc <- migPc,
       call <- migCall, calls <- migCalls, faults <- migFaults

\* Different bodies under one number, and a lock for each runner.
MigApart == INSTANCE Migrator
  WITH Runners <- {"old", "new"}, Registered <- Registries,
       Transactional <- {2, 3}, Irreversible <- {}, OutOfOrder <- FALSE,
       MaxCalls <- 4, MaxFaults <- 1, Content <- [r \in {"old", "new"} |-> r],
       LockDomain <- [r \in {"old", "new"} |-> r], pc <- migPc,
       call <- migCall, calls <- migCalls, faults <- migFaults

Pg == INSTANCE PgClient
  WITH Sqls <- {"q", "r"}, Ddl <- "ddl", CacheMax <- 1, None <- NONE,
       MaxCalls <- 4, MaxTimeouts <- 1, MaxFailures <- 1, MaxNotices <- 1,
       Passwords <- {"p", "q"}, User <- "u",
       Methods <- {"trust", "cleartext", "md5", "scram", "gss"},
       Iterations <- {0, 2, 9}, IterMax <- 4, AuthNone <- NONE,
       Ints <- {-12, 0, 7}, Texts <- {<<>>, <<49, 50>>, <<116>>},
       Names <- {<<97>>, <<97, 98>>, <<>>}, MaxCols <- 2, call <- pgCall,
       result <- pgResult, calls <- pgCalls, seen <- pgSeen, cut <- pgCut

Searching == INSTANCE Search
  WITH Tokens <- {"a", "b", "OR", " ", "\"", "-", "."}, MaxInput <- 5,
       Docs <- Documents, Ids <- {1, 2, 3}, Distances <- {1, 2}, K <- 2,
       LegFactor <- 1, LegMin <- 3, MaxWrites <- 1, MaxFaults <- 1,
       table <- searchTable, faults <- searchFaults, writes <- searchWrites,
       call <- searchCall

filesVars == <<data, obj, tmp, meta, fsTpc, put, fd, off, puts, rpc, rfd, buf,
               fsFaults>>
s3Vars == <<bucket, s3Call, wire, step, s3Out, token, pages, s3Result, s3Seen,
            changes, s3Faults, s3Calls>>
dbVars == <<dbTable, held, ops>>
kvVars == <<kvTable, log>>
signVars == <<req, altered>>
calendarVars == <<day, date, week>>
locksVars == <<lockBackend, lockPc, registry, session, late, lockCut>>
watchVars == <<watchBackend, db, txn, owner, watchOut, opened, hooked, hook,
               trigger, pump, feed, worker, watchCall, rows, snapshot, queue,
               view, watchWrites, heard>>
migVars == <<history, effects, lock, migPc, migCall, todo, batch, bodies,
             migCalls, migFaults>>
pgVars == <<cache, seq, broken, pgCall, got, pgResult, inbox, outbox, named,
            portal, unnamed, skipping, schema, pgCalls, timeouts, failures,
            notices>>
authVars == <<password, server, phase, scram, sstate, pgSeen, toServer,
              toClient, pgCut>>
wireVars == <<cols, failed, arrived>>
searchVars == <<searchTable, index, triggers, created, setup, searchFaults,
                searchWrites, searchCall, lexical, vector, hits>>
queryVars == <<input>>
allVars == <<part, vars, filesVars, s3Vars, dbVars, kvVars, signVars,
             calendarVars, locksVars, watchVars, migVars, pgVars, authVars,
             wireVars, searchVars, queryVars>>

MCInit ==
  /\ part \in Parts
  /\ Init /\ Fs!Init /\ Locks!Init /\ (part # "locks" => lockBackend = "sqlite")
  /\ Watching!Init /\ (part # "watch" => watchBackend = "sqlite")
  /\ \/ /\ part = "s3" /\ S3!Init
     \/ /\ part # "s3"
        /\ bucket = Off /\ s3Call = Off /\ wire = Off /\ step = Off
        /\ s3Out = Off /\ token = Off /\ pages = Off /\ s3Result = Off
        /\ s3Seen = Off /\ changes = Off /\ s3Faults = Off /\ s3Calls = Off
  /\ \/ /\ part = "db" /\ Backends!DbInit
     \/ /\ part # "db"
        /\ dbTable = Off /\ held = Off /\ ops = Off
  /\ \/ /\ part = "kv" /\ Backends!KvInit
     \/ /\ part # "kv"
        /\ kvTable = Off /\ log = Off
  /\ \/ /\ part = "sign" /\ Backends!SignInit
     \/ /\ part # "sign"
        /\ req = Off /\ altered = Off
  /\ \/ /\ part = "calendar" /\ Backends!Init
     \/ /\ part # "calendar"
        /\ day = Off /\ date = Off /\ week = Off
  /\ IF part = "migrate_apart" THEN MigApart!Init ELSE Mig!Init
  /\ \/ /\ part = "pg" /\ Pg!Init
     \/ /\ part # "pg"
        /\ cache = Off /\ seq = Off /\ broken = Off /\ pgCall = Off
        /\ got = Off /\ pgResult = Off /\ inbox = Off /\ outbox = Off
        /\ named = Off /\ portal = Off /\ unnamed = Off /\ skipping = Off
        /\ schema = Off /\ pgCalls = Off /\ timeouts = Off /\ failures = Off
        /\ notices = Off
  /\ \/ /\ part = "auth" /\ Pg!AuthInit
     \/ /\ part # "auth"
        /\ password = Off /\ server = Off /\ phase = Off /\ scram = Off
        /\ sstate = Off /\ pgSeen = Off /\ toServer = Off /\ toClient = Off
        /\ pgCut = Off
  /\ \/ /\ part = "wire" /\ Pg!WireInit
     \/ /\ part # "wire"
        /\ cols = Off /\ failed = Off /\ arrived = Off
  /\ Searching!Init /\ (part # "search" => searchTable = [i \in {1, 2, 3} |-> Searching!NoRow])
  /\ \/ /\ part = "query" /\ Searching!QueryInit
     \/ /\ part # "query"
        /\ input = Off

\* The components that are not under test keep still.
Rest ==
  /\ part' = part
  /\ part # "pool" => UNCHANGED vars
  /\ part # "files" => UNCHANGED filesVars
  /\ part # "s3" => UNCHANGED s3Vars
  /\ part # "db" => UNCHANGED dbVars
  /\ part # "kv" => UNCHANGED kvVars
  /\ part # "sign" => UNCHANGED signVars
  /\ part # "calendar" => UNCHANGED calendarVars
  /\ part # "locks" => UNCHANGED locksVars
  /\ part # "watch" => UNCHANGED watchVars
  /\ part \notin {"migrate", "migrate_apart"} => UNCHANGED migVars
  /\ part # "pg" => UNCHANGED pgVars
  /\ part # "auth" => UNCHANGED authVars
  /\ part # "wire" => UNCHANGED wireVars
  /\ part # "search" => UNCHANGED searchVars
  /\ part # "query" => UNCHANGED queryVars

PoolStep == part = "pool" /\ Next /\ Rest
FilesStep == part = "files" /\ Fs!Next /\ Rest
S3Step == part = "s3" /\ S3!Next /\ Rest
DbStep == part = "db" /\ Backends!DbNext /\ Rest
KvStep == part = "kv" /\ Backends!KvNext /\ Rest
SignStep == part = "sign" /\ Backends!SignNext /\ Rest
CalendarStep == part = "calendar" /\ Backends!Next /\ Rest
LocksStep == part = "locks" /\ Locks!Next /\ Rest
WatchStep == part = "watch" /\ Watching!Next /\ Rest
MigrateStep == part = "migrate" /\ Mig!Next /\ Rest
MigrateApartStep == part = "migrate_apart" /\ MigApart!Next /\ Rest
PgStep == part = "pg" /\ Pg!Next /\ Rest
AuthStep == part = "auth" /\ Pg!AuthNext /\ Rest
WireStep == part = "wire" /\ Pg!WireNext /\ Rest
SearchStep == part = "search" /\ Searching!Next /\ Rest
QueryStep == part = "query" /\ Searching!QueryNext /\ Rest

MCNext ==
  \/ PoolStep \/ FilesStep \/ S3Step \/ DbStep \/ KvStep \/ SignStep \/
     CalendarStep \/ LocksStep \/ WatchStep \/ MigrateStep \/
     MigrateApartStep \/ PgStep \/ AuthStep \/ WireStep \/ SearchStep \/
     QueryStep

MCSpec == MCInit /\ [][MCNext]_allVars

(***************************************************************************)
(* What the runs check; NoLostWakeup is ConnectionPool's,                  *)
(* SlotsAndLocksHold, ReadsWhole and WatchersFollow are StoreProofs'.      *)
(***************************************************************************)


\* Two deployments with different migrations run and roll back at once, one may
\* die: what is in force is what the history says, in order and once; and a
\* rollback undoes the newest first.  Where each has a lock of its own (the
\* SQLite file of two processes) the first of these still holds.
MigrationsHold ==
  /\ [](/\ part = "migrate" =>
             /\ Mig!EffectsMatchHistory /\ Mig!AppliedInOrder
             /\ Mig!RepeatsNeedAFault /\ Mig!PlanStaysTrue
        /\ part = "migrate_apart" => MigApart!EffectsMatchHistory)
  /\ [][part = "migrate" => Mig!NewestFirst]_allVars


=============================================================================
