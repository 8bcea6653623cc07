------------------------------- MODULE SchemaDiff -------------------------------
(***************************************************************************)
(* Schemas of crates/sutegi-orm: the difference of two and the statements  *)
(* that carry it out, and schemas read back from a catalog.                *)
(***************************************************************************)
EXTENDS Sequences, FiniteSets, SequencesExt, Functions, Integers, TLC

(***************************************************************************)
(* The schema diff engine and its two users (sutegi-orm/src/schema_diff.rs *)
(* and migrate.rs): a plan is computed between two schemas, folded into    *)
(* the shadow schema op by op and back by its inverse (a generated         *)
(* migration), or executed against a live database twice in a row          *)
(* (dev-mode sync at two boots).                                           *)
(*                                                                         *)
(* A schema maps a table's name to its columns (by name), its indexes (by  *)
(* name) and its set of foreign keys.  An op carries what it takes away    *)
(* (`old`) and what it brings (`new`), so inverse swaps the two.           *)
(***************************************************************************)


CONSTANTS Schemas,     \* the schemas tried, on both sides of the diff
          Dialects     \* subset of {"sqlite", "postgres"}

VARIABLES mode,      \* "migration" (generated), "renames" (hand-written) or "sync"
          dialect,
          before,    \* the schema at the start: the shadow, or what the database holds
          desired,   \* what the models declare
          plan,      \* the ops still to run
          done,      \* the ops run, newest first
          shadow,    \* the schema the ops are folded into
          live,      \* the database as introspect reads it back (sync)
          phase      \* "up", "down", "again", "end", "blocked"

vars == <<mode, dialect, before, desired, plan, done, shadow, live, phase>>

None == "none"
Op(kind, table, old, new) == [op |-> kind, table |-> table, old |-> old, new |-> new]

\* JSON is text to SQLite; the other types are stored apart.
storage(ty, d) == IF ty = "json" /\ d = "sqlite" THEN "text" ELSE ty

columns_match(a, b, d) ==
    /\ storage(a.ty, d) = storage(b.ty, d)
    /\ a.nullable = b.nullable /\ a.unique = b.unique
    /\ a.primary = b.primary /\ a.default = b.default

Opposite == [CreateTable |-> "DropTable", DropTable |-> "CreateTable",
             AddColumn |-> "DropColumn", DropColumn |-> "AddColumn",
             AlterColumn |-> "AlterColumn",
             RenameColumn |-> "RenameColumn", RenameTable |-> "RenameTable",
             CreateIndex |-> "DropIndex", DropIndex |-> "CreateIndex",
             AddForeignKey |-> "DropForeignKey", DropForeignKey |-> "AddForeignKey"]


inverse(op) == Op(Opposite[op.op], op.table, op.new, op.old)

safety(op) ==
    CASE op.op \in {"DropTable", "DropColumn"} -> "Destructive"
      [] op.op = "AddColumn" ->
            IF op.new.nullable \/ op.new.default # None \/ op.new.primary THEN "Safe" ELSE "NeedsData"
      [] op.op = "AlterColumn" ->
            IF op.old.ty # op.new.ty \/ (~op.old.unique /\ op.new.unique) THEN "Destructive"
            ELSE IF op.old.nullable /\ ~op.new.nullable THEN "NeedsData" ELSE "Safe"
      [] OTHER -> "Safe"

is_drop(op) == op.op \in {"DropTable", "DropColumn", "DropIndex", "DropForeignKey"}

fk_key(f) == <<f.column, f.ref_table, f.ref_column>>

AddedFks(cur, want) ==
    {f \in want.fks : \A g \in cur.fks : fk_key(g) = fk_key(f) => g.on_delete # f.on_delete}
DroppedFks(cur, want) ==
    {f \in cur.fks : \A g \in want.fks : fk_key(g) = fk_key(f) => g.on_delete # f.on_delete}

\* One table both sides have: columns dropped, added, altered, then indexes
\* dropped, replaced or created, then foreign keys.
diff_table(t, cur, want, d) ==
    LET seq(S) == SetToSeq(S)
        ops(S, F(_)) == [i \in 1..Cardinality(S) |-> F(seq(S)[i])]
        gone == DOMAIN cur.columns \ DOMAIN want.columns
        added == DOMAIN want.columns \ DOMAIN cur.columns
        changed == {c \in DOMAIN want.columns \cap DOMAIN cur.columns :
                       ~columns_match(cur.columns[c], want.columns[c], d)}
        lost == DOMAIN cur.indexes \ DOMAIN want.indexes
        replaced == {i \in DOMAIN want.indexes \cap DOMAIN cur.indexes :
                        cur.indexes[i] # want.indexes[i]}
        fresh == DOMAIN want.indexes \ DOMAIN cur.indexes
    IN  ops(gone, LAMBDA c : Op("DropColumn", t, cur.columns[c], None))
        \o ops(added, LAMBDA c : Op("AddColumn", t, None, want.columns[c]))
        \o ops(changed, LAMBDA c : Op("AlterColumn", t, cur.columns[c], want.columns[c]))
        \o ops(lost, LAMBDA i : Op("DropIndex", t, cur.indexes[i], None))
        \o ops(replaced, LAMBDA i : Op("DropIndex", t, cur.indexes[i], None))
        \o ops(replaced \cup fresh, LAMBDA i : Op("CreateIndex", t, None, want.indexes[i]))
        \o ops(DroppedFks(cur, want), LAMBDA f : Op("DropForeignKey", t, f, None))
        \o ops(AddedFks(cur, want), LAMBDA f : Op("AddForeignKey", t, None, f))

\* Tables dropped first, then each desired table created or diffed.
diff(cur, want, d) ==
    LET gone == SetToSeq(DOMAIN cur \ DOMAIN want)
        kept == SetToSeq(DOMAIN want)
    IN  [i \in DOMAIN gone |-> Op("DropTable", gone[i], cur[gone[i]], None)]
        \o FlattenSeq([i \in DOMAIN kept |->
               LET t == kept[i] IN
               IF t \in DOMAIN cur THEN diff_table(t, cur[t], want[t], d)
               ELSE <<Op("CreateTable", t, None, want[t])>>])

With(f, k, v) == [x \in DOMAIN f \cup {k} |-> IF x = k THEN v ELSE f[x]]
Without(f, k) == Restrict(f, DOMAIN f \ {k})

Renamed(n, from, to) == IF n = from THEN to ELSE n
RenameKey(f, from, to) ==
    [k \in {Renamed(x, from, to) : x \in DOMAIN f} |-> IF k = to THEN f[from] ELSE f[k]]

\* A column's new name reaches the indexes and foreign keys of its table, a
\* table's new name every foreign key that points at it.
RenameColumn(t, from, to) ==
    [columns |-> [RenameKey(t.columns, from, to) EXCEPT ![to].name = to],
     indexes |-> [i \in DOMAIN t.indexes |->
                    [t.indexes[i] EXCEPT !.columns = {Renamed(c, from, to) : c \in @}]],
     fks |-> {[f EXCEPT !.column = Renamed(@, from, to)] : f \in t.fks}]
RenameTable(s, from, to) ==
    LET moved == RenameKey(s, from, to)
    IN  [t \in DOMAIN moved |->
            [moved[t] EXCEPT !.fks = {[f EXCEPT !.ref_table = Renamed(@, from, to)] : f \in @}]]

\* Folding an op into a schema.  A dropped foreign key takes with it every
\* other one from the same column to the same table.
apply(s, op) ==
    CASE op.op = "CreateTable" -> With(s, op.table, op.new)
      [] op.op = "DropTable" -> Without(s, op.table)
      [] op.op \in {"AddColumn", "AlterColumn"} ->
            [s EXCEPT ![op.table].columns = With(@, op.new.name, op.new)]
      [] op.op = "DropColumn" -> [s EXCEPT ![op.table].columns = Without(@, op.old.name)]
      [] op.op = "CreateIndex" -> [s EXCEPT ![op.table].indexes = With(@, op.new.name, op.new)]
      [] op.op = "DropIndex" -> [s EXCEPT ![op.table].indexes = Without(@, op.old.name)]
      [] op.op = "AddForeignKey" -> [s EXCEPT ![op.table].fks = @ \cup {op.new}]
      [] op.op = "DropForeignKey" ->
            [s EXCEPT ![op.table].fks = {f \in @ : ~(f.column = op.old.column
                                                     /\ f.ref_table = op.old.ref_table)}]
      [] op.op = "RenameColumn" -> [s EXCEPT ![op.table] = RenameColumn(@, op.old, op.new)]
      [] op.op = "RenameTable" -> RenameTable(s, op.old, op.new)

\* What a rendered op does to the database, as introspect reads it back.
\* CREATE INDEX IF NOT EXISTS leaves an index of that name alone.
IndexExists(db, op) == op.op = "CreateIndex" /\ op.new.name \in DOMAIN db[op.table].indexes

\* SQLite adds a unique column plain and gives it a named unique index, which
\* introspect does not fold back into the column; what it cannot alter in
\* place it rebuilds from the shadow.
AutoIndex(c) == [name |-> "idx_" \o c.name, columns |-> {c.name}, unique |-> TRUE]
ExecutedSqlite(db, op) ==
    IF op.op = "AddColumn" /\ op.new.unique
    THEN [db EXCEPT ![op.table].columns = With(@, op.new.name, [op.new EXCEPT !.unique = FALSE]),
                    ![op.table].indexes = With(@, AutoIndex(op.new).name, AutoIndex(op.new))]
    ELSE IF IndexExists(db, op) THEN db ELSE apply(db, op)

\* PostgreSQL alters a column facet by facet; a changed primary key has none.
ExecutedPg(db, op) ==
    IF op.op = "AlterColumn"
    THEN [db EXCEPT ![op.table].columns[op.new.name] = [op.new EXCEPT !.primary = op.old.primary]]
    ELSE IF IndexExists(db, op) THEN db ELSE apply(db, op)

Executed(db, op, d) == IF d = "sqlite" THEN ExecutedSqlite(db, op) ELSE ExecutedPg(db, op)

\* PostgreSQL names a foreign key after its column: a second one is refused.
Refused(db, op, d) ==
    d = "postgres" /\ op.op = "AddForeignKey"
    /\ \E f \in db[op.table].fks : f.column = op.new.column

\* Migrations no diff proposes: renames, which a human writes.
HandWritten(s) ==
    {<<Op("RenameColumn", t, c, "z"), Op("RenameTable", "w", t, "w")>> :
        t \in DOMAIN s, c \in {"id"}}

Init ==
    /\ mode \in {"migration", "renames", "sync"}
    /\ dialect \in Dialects
    /\ before \in Schemas
    /\ desired \in Schemas
    /\ shadow = before
    /\ live = before
    /\ plan \in CASE mode = "sync" -> {<< >>}
                  [] mode = "migration" -> {diff(before, desired, dialect)}
                  [] mode = "renames" -> HandWritten(before)
    /\ done = << >>
    /\ phase = IF mode = "sync" THEN "boot" ELSE "up"

\* exec_ops, one op: of a generated migration's plan, or of its inverse.
MigrationOp ==
    /\ phase \in {"up", "down"}
    /\ plan # << >>
    /\ shadow' = apply(shadow, Head(plan))
    /\ done' = <<Head(plan)>> \o done
    /\ plan' = Tail(plan)
    /\ UNCHANGED <<mode, dialect, before, desired, live, phase>>

\* run_down: the ops inverted, in reverse order.
TurnBack ==
    /\ phase = "up" /\ plan = << >>
    /\ plan' = [i \in DOMAIN done |-> inverse(done[i])]
    /\ done' = << >>
    /\ phase' = "down"
    /\ UNCHANGED <<mode, dialect, before, desired, shadow, live>>

\* sync, one transaction: only the desired tables are compared, drops are
\* skipped, anything else that is not safe blocks it with nothing changed.
SyncPlan(db) == diff(Restrict(db, DOMAIN db \cap DOMAIN desired), desired, dialect)
Blocked(ops) == \E i \in DOMAIN ops : ~is_drop(ops[i]) /\ safety(ops[i]) # "Safe"
Applies(ops) == SelectSeq(ops, LAMBDA op : ~is_drop(op) /\ safety(op) = "Safe")
SyncRun(db, ops) ==
    FoldLeft(LAMBDA acc, op :
                        IF acc.failed \/ Refused(acc.db, op, dialect)
                        THEN [acc EXCEPT !.failed = TRUE]
                        ELSE [acc EXCEPT !.db = Executed(@, op, dialect)],
                        [db |-> db, failed |-> FALSE], ops)

sync(from, to) ==
    /\ phase = from
    /\ LET ops == SyncPlan(live)
           ran == SyncRun(live, Applies(ops))
       IN  IF Blocked(ops) \/ ran.failed
           THEN phase' = "blocked" /\ UNCHANGED <<live, done>>
           ELSE /\ live' = ran.db
                /\ done' = Applies(ops)
                /\ phase' = to
    /\ UNCHANGED <<mode, dialect, before, desired, plan, shadow>>

\* drift: the database, as far as the migrations manage it, and the models,
\* each compared with the schema the migrations lead to.
Managed(history) == DOMAIN history
drift(history) ==
    [db |-> diff(history, Restrict(live, DOMAIN live \cap Managed(history)), dialect),
     models |-> diff(history, desired, dialect)]
is_clean(report) == report.db = << >> /\ report.models = << >>

FirstBoot == sync("boot", "again")
SecondBoot == sync("again", "end")

Next == MigrationOp \/ TurnBack \/ FirstBoot \/ SecondBoot

Spec == Init /\ [][Next]_vars
-----------------------------------------------------------------------------
\* Two schemas no one can tell apart in the dialect's storage terms.
SameShape(s, t, d) ==
    /\ DOMAIN s = DOMAIN t
    /\ \A n \in DOMAIN s :
        /\ s[n].indexes = t[n].indexes /\ s[n].fks = t[n].fks
        /\ DOMAIN s[n].columns = DOMAIN t[n].columns
        /\ \A c \in DOMAIN s[n].columns :
              LET a == s[n].columns[c]
                  b == t[n].columns[c]
              IN  /\ a = [b EXCEPT !.ty = a.ty]
                  /\ a.ty = b.ty \/ (d = "sqlite" /\ {a.ty, b.ty} = {"json", "text"})

\* A plan turns the current schema into the desired one: drops never undo
\* what a later op of the same plan needs, replacements end with the new
\* shape, and the columns SQLite stores alike are left alone.
PlanReachesDesired ==
    mode = "migration" /\ phase = "up" /\ plan = << >> => SameShape(shadow, desired, dialect)

\* A generated migration's down is its up inverted in reverse order: from
\* where up left the schema it leads back to exactly where up started.
DownRestores ==
    phase = "down" /\ plan = << >> => shadow = before

\* sync never takes anything away: every table, column, index and foreign key
\* the database had is still there, and no column changed its type.
SyncOnlyAdds ==
    mode = "sync" =>
        \A t \in DOMAIN before :
            /\ t \in DOMAIN live
            /\ DOMAIN before[t].indexes \subseteq DOMAIN live[t].indexes
            /\ before[t].fks \subseteq live[t].fks
            /\ \A c \in DOMAIN before[t].columns :
                  /\ c \in DOMAIN live[t].columns
                  /\ live[t].columns[c].ty = before[t].columns[c].ty

\* What sync gave up on it did not touch, and what it finished has every
\* table and column the models ask for.
SyncDelivers ==
    mode = "sync" /\ phase \in {"again", "end"} =>
        \A t \in DOMAIN desired :
            t \in DOMAIN live /\ DOMAIN desired[t].columns \subseteq DOMAIN live[t].columns

\* The drift report names what drifted: the database's half is empty exactly
\* when the managed tables have the shape the migrations (here one that led to
\* `before`) gave them, the models' half when the models have, whatever sync
\* did in between; the report is clean when nothing drifted.
DriftIsExact ==
    mode = "sync" =>
        LET report == drift(before)
            db == SameShape(before, Restrict(live, DOMAIN live \cap DOMAIN before), dialect)
            models == SameShape(before, desired, dialect)
        IN  /\ report.db = << >> <=> db
            /\ report.models = << >> <=> models
            /\ is_clean(report) <=> db /\ models

(***************************************************************************)
(* A table's schema on its two round trips: rendered to DDL, executed, and *)
(* read back from the database's catalog by introspect (value.rs, db.rs,   *)
(* pg.rs); and written to a migration file as JSON and parsed again        *)
(* (value.rs).                                                             *)
(*                                                                         *)
(* Names are ranks, so that normalized can sort by them.  A literal is a   *)
(* sequence of tokens; "::" is one token.  A real number is counted in     *)
(* halves.                                                                 *)
(***************************************************************************)


CONSTANTS
    Columns,    \* the columns a caller may declare
    Indexes,    \* the column lists a caller may index
    Fks,        \* the foreign keys a caller may declare
    MaxCalls,   \* bound: builder calls
    MaxNumber   \* bound: numbers in literals

VARIABLES
    schema,     \* the declared TableSchema
    reflectDialect

reflectVars == <<schema, reflectDialect>>

Value(t, v) == [t |-> t, v |-> v]
ReflectNone == Value("none", <<>>)
Ty(k, dim) == [k |-> k, dim |-> dim]

reflectStorage(ty) ==
    CASE ty.k = "json" /\ reflectDialect = "sqlite" -> Ty("text", 0)
      [] ty.k = "vector" /\ reflectDialect = "sqlite" -> Ty("text", 0)
      [] OTHER -> ty

(***************************************************************************)
(* DDL.                                                                    *)
(***************************************************************************)
Quote(chars) ==
    <<"'">> \o FlattenSeq([i \in DOMAIN chars |-> IF chars[i] = "'" THEN <<"'", "'">> ELSE <<chars[i]>>])
            \o <<"'">>

default_sql(v) ==
    CASE v.t = "null" -> <<"NULL">>
      [] v.t = "int" -> <<ToString(v.v)>>
      [] v.t = "real" -> <<ToString(v.v \div 2) \o (IF v.v % 2 = 1 THEN ".5" ELSE "")>>
      [] v.t = "bool" -> <<IF v.v THEN "TRUE" ELSE "FALSE">>
      [] v.t \in {"text", "json", "vector"} -> Quote(v.v)

\* The clauses a column's definition has.
column_sql(c) ==
    IF reflectDialect = "postgres" /\ c.primary /\ c.ty.k = "integer"
    THEN [name |-> c.name, ty |-> c.ty, pk |-> TRUE, notnull |-> FALSE, unique |-> FALSE, default |-> <<>>]
    ELSE [name |-> c.name, ty |-> reflectStorage(c.ty), pk |-> c.primary, notnull |-> ~c.nullable /\ ~c.primary,
          unique |-> c.unique /\ ~c.primary,
          default |-> IF c.default = ReflectNone THEN <<>> ELSE default_sql(c.default)]

create_table_only(s) == [i \in DOMAIN s.columns |-> column_sql(s.columns[i])]

(***************************************************************************)
(* The databases.  Both refuse two primary keys; CREATE INDEX IF NOT       *)
(* EXISTS leaves an index of that name alone.                              *)
(***************************************************************************)
Creates(s) ==
    \A i, j \in DOMAIN s.columns : i # j => ~(s.columns[i].primary /\ s.columns[j].primary)

Kept(indexes) ==
    FoldLeft(LAMBDA acc, x : IF \E i \in DOMAIN acc : acc[i].name = x.name THEN acc ELSE Append(acc, x),
             <<>>, indexes)

ReflectAutoIndex(origin, c) == [origin |-> origin, name |-> <<>>, columns |-> <<c.name>>, unique |-> TRUE]
Constraints(ddl) ==
    FlattenSeq([i \in DOMAIN ddl |->
        (IF ddl[i].pk /\ (reflectDialect = "postgres" \/ ddl[i].ty.k # "integer") THEN <<ReflectAutoIndex("pk", ddl[i])>> ELSE <<>>)
        \o (IF ddl[i].unique THEN <<ReflectAutoIndex("u", ddl[i])>> ELSE <<>>)])

\* A literal as the catalog shows it: SQLite keeps the text of the clause,
\* PostgreSQL folds the keywords and casts the strings.
ShownDefault(lit) ==
    CASE reflectDialect = "sqlite" -> lit
      [] lit = <<"NULL">> -> <<>>
      [] lit \in {<<"TRUE">>, <<"FALSE">>} -> IF lit = <<"TRUE">> THEN <<"true">> ELSE <<"false">>
      [] lit # <<>> /\ lit[1] = "'" -> lit \o <<"::", "text">>
      [] OTHER -> lit

\* What the catalog lists: the columns in order, the newest index and foreign key first.
Catalog(s) ==
    LET ddl == create_table_only(s)
    IN [columns |-> [i \in DOMAIN ddl |-> [ddl[i] EXCEPT !.default = ShownDefault(@)]],
        indexes |-> Reverse(Constraints(ddl) \o
                        [i \in DOMAIN Kept(s.indexes) |->
                            [origin |-> "c", name |-> Kept(s.indexes)[i].name,
                             columns |-> Kept(s.indexes)[i].columns, unique |-> Kept(s.indexes)[i].unique]]),
        fks |-> Reverse(s.fks)]

(***************************************************************************)
(* Introspection.                                                          *)
(***************************************************************************)
Word == {"a", "text"}

StripCast(lit) ==
    LET at == {i \in DOMAIN lit : lit[i] = "::"}
        last == CHOOSE i \in at : \A j \in at : j <= i
        cast == SubSeq(lit, last + 1, Len(lit))
    IN IF at # {} /\ cast # <<>> /\ \A i \in DOMAIN cast : cast[i] \in Word THEN SubSeq(lit, 1, last - 1) ELSE lit

\* replace("''", "'"): pairs from the left.
Undouble(chars) ==
    FoldLeft(LAMBDA a, c : IF a.half /\ c = "'" THEN [a EXCEPT !.half = FALSE]
                           ELSE [half |-> c = "'", out |-> Append(a.out, c)],
             [half |-> FALSE, out |-> <<>>], chars).out

Numeral(n) == ToString(n)

parse_default_literal(raw) ==
    LET s == StripCast(raw)
        int == {n \in 0..MaxNumber : s = <<Numeral(n)>>}
        real == {n \in 0..MaxNumber : s = <<Numeral(n) \o ".5">>}
    IN CASE s = <<>> \/ s = <<"NULL">> -> ReflectNone
         [] s # <<>> /\ s[1] \in {"TRUE", "true"} -> Value("bool", TRUE)
         [] s # <<>> /\ s[1] \in {"FALSE", "false"} -> Value("bool", FALSE)
         [] Len(s) >= 2 /\ s[1] = "'" /\ s[Len(s)] = "'" -> Value("text", Undouble(SubSeq(s, 2, Len(s) - 1)))
         [] int # {} -> Value("int", CHOOSE n \in int : TRUE)
         [] real # {} -> Value("real", 2 * (CHOOSE n \in real : TRUE) + 1)
         [] OTHER -> ReflectNone

\* The stored type read back: SQLite declares one of four, and a vector's
\* dimension is not in information_schema.
sqlite_coltype(ty) == IF ty.k \in {"integer", "real", "boolean"} THEN ty ELSE Ty("text", 0)
pg_coltype(ty) == IF ty.k = "vector" THEN Ty("vector", 0) ELSE ty
coltype(ty) == IF reflectDialect = "sqlite" THEN sqlite_coltype(ty) ELSE pg_coltype(ty)

ReflectColumn(c) ==
    [name |-> c.name, ty |-> coltype(c.ty), nullable |-> ~c.notnull /\ ~c.pk, primary |-> c.pk, unique |-> FALSE,
     default |-> parse_default_literal(c.default)]

Lex(s, t) ==
    \E i \in 1..(Len(s) + 1) :
        /\ \A j \in 1..(i - 1) : j <= Len(t) /\ s[j] = t[j]
        /\ i <= Len(t) /\ (i > Len(s) \/ s[i] < t[i])

normalized(s) ==
    [s EXCEPT !.indexes = SortSeq(@, LAMBDA x, y : Lex(x.name, y.name)),
              !.fks = SortSeq(@, LAMBDA f, g : Lex(<<f.column, f.ref_table, f.ref_column>>,
                                                   <<g.column, g.ref_table, g.ref_column>>))]

\* A single-column UNIQUE constraint goes back into its column; the primary
\* key's own index is left out.
Folds(x) == x.origin = "u" /\ Len(x.columns) = 1

introspect(cat) ==
    LET folded(name) == \E i \in DOMAIN cat.indexes : Folds(cat.indexes[i]) /\ cat.indexes[i].columns = <<name>>
        kept == SelectSeq(cat.indexes, LAMBDA x : x.origin # "pk" /\ ~Folds(x))
    IN normalized(
        [columns |-> [i \in DOMAIN cat.columns |->
                        [ReflectColumn(cat.columns[i]) EXCEPT !.unique = folded(cat.columns[i].name)]],
         indexes |-> [i \in DOMAIN kept |->
                        [name |-> kept[i].name, columns |-> kept[i].columns, unique |-> kept[i].unique]],
         fks |-> cat.fks])

(***************************************************************************)
(* Migration files.  A JSON object is a function of its field names; a     *)
(* number does not tell 5 from 5.0, the tag of a default does.             *)
(***************************************************************************)
JsonOf(v) == IF v.t = "int" THEN [num |-> 2 * v.v] ELSE IF v.t = "real" THEN [num |-> v.v] ELSE [val |-> v.v]

value_to_json(v) == [t |-> v.t, v |-> JsonOf(v)]
value_from_json(j) ==
    CASE j.t = "int" -> Value("int", j.v.num \div 2)
      [] j.t = "real" -> Value("real", j.v.num)
      [] OTHER -> Value(j.t, j.v.val)

column_to_json(c) ==
    [name |-> c.name, type |-> c.ty.k, nullable |-> c.nullable, primary |-> c.primary, unique |-> c.unique]
    @@ (IF c.ty.k = "vector" /\ c.ty.dim # 0 THEN [dim |-> c.ty.dim] ELSE <<>>)
    @@ (IF c.default = ReflectNone THEN <<>> ELSE [default |-> value_to_json(c.default)])

column_from_json(j) ==
    [name |-> j.name,
     ty |-> Ty(j.type, IF j.type = "vector" /\ "dim" \in DOMAIN j THEN j.dim ELSE 0),
     nullable |-> j.nullable, primary |-> j.primary, unique |-> j.unique,
     default |-> IF "default" \in DOMAIN j THEN value_from_json(j.default) ELSE ReflectNone]

index_from_json(j) == [name |-> j.name, columns |-> j.columns, unique |-> j.unique]

from_sql(action) == IF action \in {"CASCADE", "SET NULL", "RESTRICT"} THEN action ELSE "NO ACTION"
fk_from_json(j) ==
    [column |-> j.column, ref_table |-> j.ref_table, ref_column |-> j.ref_column, on_delete |-> from_sql(j.on_delete)]

schema_to_json(s) ==
    [columns |-> [i \in DOMAIN s.columns |-> column_to_json(s.columns[i])], indexes |-> s.indexes, foreign_keys |-> s.fks]
schema_from_json(j) ==
    [columns |-> [i \in DOMAIN j.columns |-> column_from_json(j.columns[i])],
     indexes |-> [i \in DOMAIN j.indexes |-> index_from_json(j.indexes[i])],
     fks |-> [i \in DOMAIN j.foreign_keys |-> fk_from_json(j.foreign_keys[i])]]

(***************************************************************************)
(* Declaring a schema.                                                     *)
(***************************************************************************)
Calls == Len(schema.columns) + Len(schema.indexes) + Len(schema.fks)

ReflectInit ==
    /\ reflectDialect \in {"sqlite", "postgres"}
    /\ schema = [columns |-> <<>>, indexes |-> <<>>, fks |-> <<>>]

reflectColumn(c) ==
    /\ Calls < MaxCalls
    /\ \A i \in DOMAIN schema.columns : schema.columns[i].name # c.name
    /\ schema' = [schema EXCEPT !.columns = Append(@, c)]
    /\ UNCHANGED reflectDialect

\* index and unique_index: named after the columns, whatever the uniqueness.
index(cols, unique) ==
    /\ Calls < MaxCalls
    /\ \A i \in DOMAIN cols : \E k \in DOMAIN schema.columns : schema.columns[k].name = cols[i]
    /\ schema' = [schema EXCEPT !.indexes = Append(@, [name |-> cols, columns |-> cols, unique |-> unique])]
    /\ UNCHANGED reflectDialect

foreign_key(f) ==
    /\ Calls < MaxCalls
    /\ \E k \in DOMAIN schema.columns : schema.columns[k].name = f.column
    /\ \A i \in DOMAIN schema.fks : schema.fks[i].column # f.column \/ schema.fks[i].ref_table # f.ref_table
    /\ schema' = [schema EXCEPT !.fks = Append(@, f)]
    /\ UNCHANGED reflectDialect

ReflectNext ==
    \/ \E c \in Columns : reflectColumn(c)
    \/ \E cols \in Indexes, unique \in BOOLEAN : index(cols, unique)
    \/ \E f \in Fks : foreign_key(f)

ReflectSpec == ReflectInit /\ [][ReflectNext]_reflectVars

(***************************************************************************)
(* Properties.                                                             *)
(***************************************************************************)

\* Columns the diff cannot tell apart (schema_diff.rs columns_match).
reflectColumns_match(a, b) ==
    /\ reflectStorage(a.ty) = reflectStorage(b.ty)
    /\ a.nullable = b.nullable /\ a.unique = b.unique /\ a.primary = b.primary /\ a.default = b.default

NoDrift(s, t) ==
    /\ s.indexes = t.indexes /\ s.fks = t.fks
    /\ Len(s.columns) = Len(t.columns)
    /\ \A i \in DOMAIN s.columns : s.columns[i].name = t.columns[i].name /\ reflectColumns_match(s.columns[i], t.columns[i])

\* What a catalog keeps of a column: no flag beside a primary key, a default
\* that is a text, a truth value or a number of its own kind, no dimension on
\* PostgreSQL, and a generated key has no default there.
Expressible(c) ==
    /\ c.primary => ~c.nullable /\ ~c.unique
    /\ c.default.t \in {"none", "int", "text", "bool"} \/ (c.default.t = "real" /\ c.default.v % 2 = 1)
    /\ reflectDialect = "postgres" => ~(c.ty.k = "vector" /\ c.ty.dim # 0) /\ (c.primary /\ c.ty.k = "integer" => c.default = ReflectNone)

\* Migrating a schema and introspecting the database gives the schema back as
\* far as the diff can tell: quotes in defaults, the order of indexes and
\* foreign keys, UNIQUE columns beside unique indexes; and every loss is one
\* of Expressible's or of two indexes with one conventional name.
ReflectsTheDeclaration ==
    Creates(schema) =>
        (NoDrift(introspect(Catalog(schema)), normalized(schema))
            <=> /\ \A i \in DOMAIN schema.columns : Expressible(schema.columns[i])
                /\ Kept(schema.indexes) = schema.indexes)

\* A schema written into a migration file is the schema read from it, the
\* kind of every default included.
FilesAreLossless == schema_from_json(schema_to_json(schema)) = schema

=============================================================================
