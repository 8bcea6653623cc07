------------------------------ MODULE QueryBuilder ------------------------------
(***************************************************************************)
(* The query builder of crates/sutegi-orm, what its SQL means, and the     *)
(* statements of a bulk insert.                                            *)
(***************************************************************************)
EXTENDS Integers, Sequences, SequencesExt, TLC

(***************************************************************************)
(* The fluent SQL builders of sutegi-orm (builder.rs), the part of the     *)
(* Backend trait that runs them (backend.rs) and the placeholder           *)
(* translation of the PostgreSQL layer (pg.rs).                            *)
(*                                                                         *)
(* A builder is a record that its setters fill in; build_for renders it to *)
(* SQL, a sequence of tokens in which "?" stands for a bound parameter,    *)
(* and to the list of the parameters.  Nothing ties a "?" to its value but *)
(* its place in the two lists.  The behaviours of this module call the     *)
(* setters in every order; `asked` remembers the calls.                    *)
(***************************************************************************)


CONSTANTS
    Spelling,   \* the characters of each name a caller may pass
    Paths,      \* the JSON paths a caller may pass, as characters
    Vals,       \* the integers a caller may bind
    MaxCalls    \* bound: setter calls on one builder

VARIABLES
    kind,       \* "query", "update" or "delete"
    b,          \* the builder
    asked       \* the calls made, in order

vars == <<kind, b, asked>>

Dialects == {"sqlite", "postgres"}
AnyBuilder == {"query", "update", "delete"}

(***************************************************************************)
(* Identifiers, operators and JSON paths.                                  *)
(***************************************************************************)
Letter == {"k", "j", "_"}
Digit == {"0", "1"}
Word == Letter \cup Digit

First(S, default) == IF S = {} THEN default ELSE CHOOSE i \in S : \A j \in S : i <= j

is_plain_ident(seg) ==
    /\ seg # <<>>
    /\ seg[1] \in Letter
    /\ \A i \in DOMAIN seg : seg[i] \in Word

valid_identifier(s) ==
    \/ s = <<"*">>
    \/ LET dot  == First({i \in DOMAIN s : s[i] = "."}, 0)
           name == SubSeq(s, dot + 1, Len(s))
       IN IF dot = 0
          THEN is_plain_ident(s)
          ELSE /\ is_plain_ident(SubSeq(s, 1, dot - 1))
               /\ name = <<"*">> \/ is_plain_ident(name)

valid_operator(op) == op \in {"=", "!=", "<", "LIKE"}

BadPath == [ok |-> FALSE, segs |-> <<>>]

DigitValue(d) == IF d = "0" THEN 0 ELSE 1
DigitOf(n) == IF n = 0 THEN "0" ELSE "1"

RECURSIVE ParseSegs(_, _)
ParseSegs(rest, segs) ==
    LET r     == Tail(rest)
        end   == First({i \in DOMAIN r : r[i] \notin Word}, Len(r) + 1)
        key   == SubSeq(r, 1, end - 1)
        close == First({i \in DOMAIN r : r[i] = "]"}, 0)
        num   == SubSeq(r, 1, close - 1)
        From(i) == SubSeq(r, i, Len(r))
    IN CASE rest = <<>> -> IF segs = <<>> THEN BadPath ELSE [ok |-> TRUE, segs |-> segs]
         [] rest # <<>> /\ rest[1] = "." ->
              IF key = <<>> \/ key[1] \notin Letter
              THEN BadPath
              ELSE ParseSegs(From(end), Append(segs, [key |-> key, index |-> -1]))
         [] rest # <<>> /\ rest[1] = "[" ->
              IF close = 0 \/ num = <<>> \/ \E i \in DOMAIN num : num[i] \notin Digit
              THEN BadPath
              ELSE ParseSegs(From(close + 1),
                             Append(segs, [key |-> <<>>,
                                           index |-> FoldLeft(LAMBDA n, d : n * 10 + DigitValue(d), 0, num)]))
         [] OTHER -> BadPath

parse_json_path(path) ==
    IF path = <<>> \/ path[1] # "$" THEN BadPath ELSE ParseSegs(Tail(path), <<>>)

RECURSIVE Decimal(_)
Decimal(n) == IF n < 10 THEN <<DigitOf(n)>> ELSE Append(Decimal(n \div 10), DigitOf(n % 10))

sqlite_json_path(segs) ==
    <<"$">> \o FlattenSeq([i \in DOMAIN segs |->
        IF segs[i].index < 0 THEN <<".">> \o segs[i].key
                             ELSE <<"[">> \o Decimal(segs[i].index) \o <<"]">>])

pg_json_path_array(segs) ==
    [i \in DOMAIN segs |-> IF segs[i].index < 0 THEN segs[i].key ELSE Decimal(segs[i].index)]

(***************************************************************************)
(* Bound values: integers, and the path texts the builder binds itself.    *)
(***************************************************************************)
Int_(v) == [ty |-> "int", v |-> v]
PathText(segs, dialect) ==
    IF dialect = "sqlite" THEN [ty |-> "path", v |-> sqlite_json_path(segs)]
                          ELSE [ty |-> "array", v |-> pg_json_path_array(segs)]

Ints(vs) == [i \in DOMAIN vs |-> Int_(vs[i])]

(***************************************************************************)
(* Rendering.  A clause is [sql, params]; where the code pushes a value    *)
(* and formats a "?" the two come from the same branch.                    *)
(***************************************************************************)
Clause(sql, params) == [sql |-> sql, params |-> params]

Cmp(col, op, v) == Clause(<<col, op, "?">>, <<Int_(v)>>)

\* The pieces with `sep` between them; the parameters in the order of the pieces.
Joined(cs, sep) ==
    Clause(FlattenSeq([i \in DOMAIN cs |-> IF i = 1 THEN cs[i].sql ELSE <<sep>> \o cs[i].sql]),
           FlattenSeq([i \in DOMAIN cs |-> cs[i].params]))

Marks(n) == [i \in 1..n |-> "?"]

render_predicate(p, dialect) ==
    CASE p.f = "json" ->
           Clause(IF dialect = "sqlite" THEN <<"json_extract", p.col, "?", p.op, "?">>
                                        ELSE <<p.col, "#>>", "?", "::numeric", p.op, "?">>,
                  <<PathText(p.segs, dialect), Int_(p.v)>>)
      [] p.f = "contains" -> Clause(<<p.col, "@>", "?">>, <<Int_(p.v)>>)
      [] p.f = "cmp" -> Cmp(p.col, p.op, p.v)
      [] p.f = "in" -> IF p.vs = <<>>
                       THEN Clause(<<"0 = 1">>, <<>>)
                       ELSE Clause(<<p.col, "IN">> \o Marks(Len(p.vs)), Ints(p.vs))
      [] p.f = "null" -> Clause(<<p.col, IF p.is THEN "IS NULL" ELSE "IS NOT NULL">>, <<>>)
      [] p.f = "or" -> IF p.group = <<>>
                       THEN Clause(<<"0 = 1">>, <<>>)
                       ELSE LET g == Joined([i \in DOMAIN p.group |->
                                         Cmp(p.group[i][1], p.group[i][2], p.group[i][3])], "OR")
                            IN Clause(<<"(">> \o g.sql \o <<")">>, g.params)
      [] p.f = "raw" -> Clause(<<"(">> \o p.frag \o <<")">>, Ints(p.vs))

Unsupported(preds, dialect) == dialect = "sqlite" /\ \E i \in DOMAIN preds : preds[i].f = "contains"

render_predicates(preds, dialect) ==
    IF preds = <<>>
    THEN Clause(<<>>, <<>>)
    ELSE LET w == Joined([i \in DOMAIN preds |-> render_predicate(preds[i], dialect)], "AND")
         IN Clause(<<"WHERE">> \o w.sql, w.params)

Failed == [ok |-> FALSE, sql |-> <<>>, params |-> <<>>]
Built(sql, params) == [ok |-> TRUE, sql |-> sql, params |-> params]

(***************************************************************************)
(* The three builders.                                                     *)
(***************************************************************************)
None == <<>>

NewQuery(t) ==
    [table |-> t, distinct |-> FALSE, columns |-> <<>>, joins |-> <<>>, preds |-> <<>>,
     group_by |-> <<>>, order |-> <<>>, limit |-> None, offset |-> None, lock |-> None,
     json_selects |-> <<>>, sets |-> <<>>, returning |-> <<>>,
     err |-> ~valid_identifier(Spelling[t])]

build_from_and_joins(q) == <<q.table>> \o FlattenSeq(q.joins)

\* Every JSON projection binds its path; the paths come first.
Projections(q, dialect) ==
    [i \in DOMAIN q.json_selects |->
        LET j == q.json_selects[i] IN
        Clause(IF dialect = "sqlite" THEN <<"json_extract", j.col, "?", "AS", j.alias>>
                                     ELSE <<j.col, "#>>", "?", "AS", j.alias>>,
               <<PathText(j.segs, dialect)>>)]

ParamsOfWhereFirst(q, where, proj) == where.params \o proj.params
params_of(q, where, proj) == proj.params \o where.params

Sep(s, sep) == FlattenSeq([i \in DOMAIN s |-> IF i = 1 THEN <<s[i]>> ELSE <<sep, s[i]>>])
Opt(word, o) == IF o = None THEN <<>> ELSE <<word, ToString(o[1])>>

build_for(q, dialect) ==
    IF q.err \/ Unsupported(q.preds, dialect) THEN Failed
    ELSE LET named == IF q.columns = <<>> THEN <<"*">> ELSE Sep(q.columns, ",")
             proj  == Joined(<<Clause(named, <<>>)>> \o Projections(q, dialect), ",")
             where == render_predicates(q.preds, dialect)
             terms == [i \in DOMAIN q.order |->
                         q.order[i][1] \o (IF q.order[i][2] THEN " DESC" ELSE " ASC")]
         IN Built(<<"SELECT">> \o (IF q.distinct THEN <<"DISTINCT">> ELSE <<>>) \o proj.sql
                    \o <<"FROM">> \o build_from_and_joins(q) \o where.sql
                    \o (IF q.group_by = <<>> THEN <<>> ELSE <<"GROUP BY">> \o Sep(q.group_by, ","))
                    \o (IF terms = <<>> THEN <<>> ELSE <<"ORDER BY">> \o Sep(terms, ","))
                    \o Opt("LIMIT", q.limit) \o Opt("OFFSET", q.offset),
                  params_of(q, where, proj))

build_count_for(q, dialect) ==
    IF q.err \/ Unsupported(q.preds, dialect) THEN Failed
    ELSE LET where == render_predicates(q.preds, dialect)
         IN Built(<<"SELECT", "COUNT(*)", "FROM">> \o build_from_and_joins(q) \o where.sql, where.params)

returning_sql(cols) == IF cols = <<>> THEN <<>> ELSE <<"RETURNING">> \o Sep(cols, ",")

build_update(u) ==
    IF u.err THEN Failed
    ELSE LET sets  == Joined([i \in DOMAIN u.sets |-> Clause(<<u.sets[i][1], "=", "?">>, <<Int_(u.sets[i][2])>>)], ",")
             where == render_predicates(u.preds, "sqlite")
         IN Built(<<"UPDATE", u.table, "SET">> \o sets.sql \o where.sql \o returning_sql(u.returning),
                  sets.params \o where.params)

build_delete(d) ==
    IF d.err THEN Failed
    ELSE LET where == render_predicates(d.preds, "sqlite")
         IN Built(<<"DELETE FROM", d.table>> \o where.sql \o returning_sql(d.returning), where.params)

(***************************************************************************)
(* Running a builder: the capabilities gate it, the row lock is appended,  *)
(* PostgreSQL numbers the placeholders outside quotes.                     *)
(***************************************************************************)
NoCaps == [row_locks |-> FALSE, skip_locked |-> FALSE]
caps(dialect) == IF dialect = "postgres" THEN [row_locks |-> TRUE, skip_locked |-> TRUE] ELSE NoCaps

row_lock_sql(lock, c) ==
    IF ~c.row_locks
    THEN [ok |-> lock.wait = "wait", sql |-> <<>>]
    ELSE [ok |-> lock.wait = "wait" \/ c.skip_locked,
          sql |-> <<IF lock.exclusive THEN "FOR UPDATE" ELSE "FOR SHARE">>
                  \o (IF lock.wait = "wait" THEN <<>> ELSE <<lock.wait>>)]

to_pg_placeholders(sql) ==
    FoldLeft(LAMBDA s, t :
                CASE t = "'" -> [s EXCEPT !.q = ~@, !.out = Append(@, t)]
                  [] t = "?" /\ ~s.q -> [s EXCEPT !.n = @ + 1, !.out = Append(@, "$" \o ToString(s.n + 1))]
                  [] OTHER -> [s EXCEPT !.out = Append(@, t)],
             [n |-> 0, q |-> FALSE, out |-> <<>>], sql).out

\* What reaches the driver.
Sent(built, dialect) ==
    IF built.ok /\ dialect = "postgres" THEN [built EXCEPT !.sql = to_pg_placeholders(@)] ELSE built

select(q, dialect) ==
    LET built == build_for(q, dialect)
        lock  == IF q.lock = None THEN [ok |-> TRUE, sql |-> <<>>] ELSE row_lock_sql(q.lock[1], caps(dialect))
    IN IF built.ok /\ lock.ok
       THEN Sent([built EXCEPT !.sql = @ \o lock.sql], dialect)
       ELSE Failed

count(q, dialect) == Sent(build_count_for(q, dialect), dialect)
update_returning(u, dialect) == Sent(build_update(u), dialect)
delete_returning(d, dialect) == Sent(build_delete(d), dialect)

paginate(q, page, per_page, dialect) ==
    LET p == IF page < 1 THEN 1 ELSE page
        n == IF per_page < 1 THEN 1 ELSE per_page
    IN select([q EXCEPT !.limit = <<n>>, !.offset = <<(p - 1) * n>>], dialect)

total_pages(total, per_page) == IF per_page <= 0 THEN 0 ELSE (total + per_page - 1) \div per_page
has_next(page, total, per_page) == page < total_pages(total, per_page)

(***************************************************************************)
(* The setters.                                                            *)
(***************************************************************************)
Init ==
    \E k \in AnyBuilder, t \in {"t", "bad"} :
        /\ kind = k
        /\ b = NewQuery(t)
        /\ asked = <<>>

Call(k, c, new) ==
    /\ kind \in k
    /\ Len(asked) < MaxCalls
    /\ b' = new
    /\ asked' = Append(asked, c)
    /\ UNCHANGED kind

Names == DOMAIN Spelling
Bad(cols) == \E i \in DOMAIN cols : ~valid_identifier(Spelling[cols[i]])

check(q, wrong) == q.err \/ wrong

Push(q, p, wrong) == [q EXCEPT !.preds = Append(@, p), !.err = check(q, wrong)]

filter(col, op, v) ==
    LET p == [f |-> "cmp", col |-> col, op |-> op, v |-> v]
    IN Call(AnyBuilder, p, Push(b, p, Bad(<<col>>) \/ ~valid_operator(op)))

filter_in(col, vs) ==
    LET p == [f |-> "in", col |-> col, vs |-> vs] IN Call({"query"}, p, Push(b, p, Bad(<<col>>)))

where_null(col, is) ==
    LET p == [f |-> "null", col |-> col, is |-> is]
    IN Call(IF is THEN AnyBuilder ELSE {"query"}, p, Push(b, p, Bad(<<col>>)))

or_group(group) ==
    LET p == [f |-> "or", group |-> group]
    IN Call({"query"}, p, Push(b, p, \E i \in DOMAIN group :
                                        Bad(<<group[i][1]>>) \/ ~valid_operator(group[i][2])))

where_raw(frag, vs) ==
    LET p == [f |-> "raw", frag |-> frag, vs |-> vs] IN Call(AnyBuilder, p, Push(b, p, FALSE))

where_json(col, path, op, v) ==
    LET parsed == parse_json_path(path)
        p == [f |-> "json", col |-> col, segs |-> parsed.segs, op |-> op, v |-> v]
        wrong == Bad(<<col>>) \/ ~valid_operator(op) \/ ~parsed.ok
    IN Call({"query"}, [p EXCEPT !.segs = path],
            IF parsed.ok THEN Push(b, p, wrong) ELSE [b EXCEPT !.err = TRUE])

where_json_contains(col, v) ==
    LET p == [f |-> "contains", col |-> col, v |-> v] IN Call({"query"}, p, Push(b, p, Bad(<<col>>)))

select_json(col, path, alias) ==
    LET parsed == parse_json_path(path)
        j == [col |-> col, segs |-> parsed.segs, alias |-> alias]
    IN Call({"query"}, [f |-> "select_json", col |-> col, segs |-> path, alias |-> alias],
            IF parsed.ok THEN [b EXCEPT !.json_selects = Append(@, j), !.err = check(b, Bad(<<col, alias>>))]
                         ELSE [b EXCEPT !.err = TRUE])

select_cols(cols) == Call({"query"}, [f |-> "select", cols |-> cols],
                          [b EXCEPT !.columns = cols, !.err = check(b, Bad(cols))])
distinct == Call({"query"}, [f |-> "distinct"], [b EXCEPT !.distinct = TRUE])
group_by(cols) == Call({"query"}, [f |-> "group", cols |-> cols],
                       [b EXCEPT !.group_by = cols, !.err = check(b, Bad(cols))])
order_by(col, desc) == Call({"query"}, [f |-> "order", col |-> col, desc |-> desc],
                            [b EXCEPT !.order = Append(@, <<col, desc>>), !.err = check(b, Bad(<<col>>))])
limit(n) == Call({"query"}, [f |-> "limit", n |-> n], [b EXCEPT !.limit = <<n>>])
offset(n) == Call({"query"}, [f |-> "offset", n |-> n], [b EXCEPT !.offset = <<n>>])

join(left, other, l, r) ==
    Call({"query"}, [f |-> "join", left |-> left, other |-> other, l |-> l, r |-> r],
         [b EXCEPT !.joins = Append(@, <<IF left THEN "LEFT JOIN" ELSE "JOIN", other, "ON", l, "=", r>>),
                   !.err = check(b, Bad(<<other, l, r>>))])

LockWait == IF b.lock = None THEN "wait" ELSE b.lock[1].wait
for_lock(exclusive) ==
    Call({"query"}, [f |-> "lock", exclusive |-> exclusive],
         [b EXCEPT !.lock = <<[exclusive |-> exclusive, wait |-> LockWait]>>])
lock_wait(w) ==
    Call({"query"}, [f |-> "wait", w |-> w],
         IF b.lock = None THEN [b EXCEPT !.err = TRUE] ELSE [b EXCEPT !.lock[1].wait = w])

set(col, v) == Call({"update"}, [f |-> "set", col |-> col, v |-> v],
                    [b EXCEPT !.sets = Append(@, <<col, v>>), !.err = check(b, Bad(<<col>>))])
returning(cols) == Call({"update", "delete"}, [f |-> "returning", cols |-> cols],
                        [b EXCEPT !.returning = cols, !.err = check(b, Bad(cols))])

(***************************************************************************)
(* The calls the behaviours make: good and bad names, every kind of        *)
(* predicate, fragments with their own placeholders and with a quoted "?", *)
(* and one join (u has no second name to be joined by again).              *)
(***************************************************************************)
Fragments == {<< <<"k", "=", "?", "OR", "n", "=", "?">>, 2>>, << <<"k", "!=", "'", "?", "'">>, 0>>}

Next ==
    \/ \E col \in {"k", "bad"}, op \in {"=", "<", "bad"}, v \in Vals : filter(col, op, v)
    \/ \E vs \in {<<>>} \cup {<<v, 10>> : v \in Vals} : filter_in("k", vs)
    \/ \E col \in {"n", "bad"}, is \in BOOLEAN : where_null(col, is)
    \/ \E v \in Vals, col \in {"n", "bad"} : or_group(<< <<"k", "=", v>>, <<col, "=", 10>> >>)
    \/ or_group(<<>>)
    \/ \E f \in Fragments, v \in Vals : where_raw(f[1], SubSeq(<<10, v>>, 1, f[2]))
    \/ \E path \in Paths, v \in Vals : where_json("meta", path, "<", v)
    \/ \E v \in Vals : where_json_contains("meta", v)
    \/ \E path \in Paths : select_json("meta", path, "j")
    \/ \E cols \in {<<"k", "id">>, <<"n", "bad">>} : select_cols(cols)
    \/ distinct
    \/ \E col \in {"k", "bad"} : group_by(<<col>>)
    \/ \E col \in {"k", "n", "bad"}, desc \in BOOLEAN : order_by(col, desc)
    \/ \E n \in {0, 2} : limit(n) \/ offset(n)
    \/ \E left \in BOOLEAN, r \in {"u.k", "bad"} : b.joins = <<>> /\ join(left, "u", "k", r)
    \/ \E x \in BOOLEAN : for_lock(x)
    \/ \E w \in {"SKIP LOCKED", "NOWAIT"} : lock_wait(w)
    \/ \E col \in {"k", "n", "bad"}, v \in Vals : set(col, v)
    \/ \E cols \in {<<"id">>, <<"bad">>} : returning(cols)

Spec == Init /\ [][Next]_vars

(***************************************************************************)
(* What the statements of QueryBuilder do when a database runs them, and   *)
(* what the calls that built them asked for.                               *)
(*                                                                         *)
(* The first half is a small SQL engine: it binds the parameters by place, *)
(* evaluates the WHERE tokens with AND over OR inside brackets, and groups,*)
(* orders, projects and cuts the rows.  The second half reads the result   *)
(* off the calls, without any SQL.                                         *)
(***************************************************************************)


CONSTANTS
    Table,      \* the rows of t: functions of column names
    Other,      \* the rows of u, joined by u.k
    PathAt      \* where each good path points: a key of a row's meta

NULL == -1

(***************************************************************************)
(* The engine.                                                             *)
(***************************************************************************)
Dollar(i) == "$" \o ToString(i)
Unbound == [ty |-> "none", v |-> NULL]
Token(t) == [w |-> t, p |-> Unbound]

\* Parameters by place: "?" takes the next one, "$i" the i-th; quotes shield.
Bind(sql, params) ==
    FoldLeft(LAMBDA s, t :
        LET i == IF t = "?" THEN Len(s.used) + 1
                 ELSE First({n \in 1..Len(params) : t = Dollar(n)}, 0)
        IN CASE t = "'" -> [s EXCEPT !.q = ~@, !.out = Append(@, Token(t))]
             [] i > 0 /\ ~s.q -> IF i > Len(params)
                                 THEN [s EXCEPT !.ok = FALSE]
                                 ELSE [s EXCEPT !.used = Append(@, i),
                                                !.out = Append(@, [w |-> "value", p |-> params[i]])]
             [] OTHER -> [s EXCEPT !.out = Append(@, Token(t))],
        [out |-> <<>>, used |-> <<>>, q |-> FALSE, ok |-> TRUE], sql)

Heads == {"SELECT", "FROM", "UPDATE", "SET", "DELETE FROM", "WHERE", "GROUP BY", "ORDER BY", "LIMIT",
          "OFFSET", "FOR UPDATE", "FOR SHARE", "RETURNING"}

\* The tokens after the keyword `head` up to the next keyword.
Section(toks, head) ==
    LET at  == First({i \in DOMAIN toks : toks[i].w = head}, Len(toks))
        end == First({i \in (at + 1)..Len(toks) : toks[i].w \in Heads}, Len(toks) + 1)
    IN SubSeq(toks, at + 1, end - 1)

Has(toks, word) == \E i \in DOMAIN toks : toks[i].w = word
Words(toks) == [i \in DOMAIN toks |-> toks[i].w]

SplitAt(toks, sep) ==
    IF toks = <<>> THEN <<>>
    ELSE FoldLeft(LAMBDA s, t : IF t.w = sep THEN Append(s, <<>>)
                                ELSE [s EXCEPT ![Len(s)] = Append(@, t)],
                  << <<>> >>, toks)

Compare(x, op, y) ==
    /\ x # NULL
    /\ CASE op = "=" -> x = y [] op = "!=" -> x # y [] op = "<" -> x < y

\* Numbers written out and compared as text: "10" sorts before "9".
AsText(n) == IF n < 10 THEN 10 * n ELSE n
CompareText(x, op, y) == x # NULL /\ Compare(AsText(x), op, AsText(y))

\* A path parameter read back: SQLite parses its text, PostgreSQL takes the array.
Lookup(doc, p) ==
    LET key == CASE p.ty = "path" -> pg_json_path_array(parse_json_path(p.v).segs)
                 [] p.ty = "array" -> p.v
                 [] OTHER -> <<>>
    IN IF key \in DOMAIN doc THEN doc[key] ELSE NULL

\* A parameter read as a number; a text is none.
Number(p) == IF p.ty = "int" THEN p.v ELSE NULL

Holds(doc, v) == \E k \in DOMAIN doc : doc[k] = v

EvalClause(c, row) ==
    CASE c[1].w = "0 = 1" -> FALSE
      [] c[1].w = "json_extract" -> Compare(Lookup(row[c[2].w], c[3].p), c[4].w, Number(c[5].p))
      [] c[2].w = "IS NULL" -> row[c[1].w] = NULL
      [] c[2].w = "IS NOT NULL" -> row[c[1].w] # NULL
      [] c[2].w = "IN" -> row[c[1].w] \in {Number(c[i].p) : i \in 3..Len(c)}
      [] c[2].w = "@>" -> Holds(row[c[1].w], Number(c[3].p))
      [] c[2].w = "#>>" -> IF c[4].w = "::numeric"
                           THEN Compare(Lookup(row[c[1].w], c[3].p), c[5].w, Number(c[6].p))
                           ELSE CompareText(Lookup(row[c[1].w], c[3].p), c[4].w, Number(c[5].p))
      [] c[3].w = "'" -> c[2].w = "!=" /\ row[c[1].w] # NULL
      [] OTHER -> Compare(row[c[1].w], c[2].w, Number(c[3].p))

\* AND binds tighter than OR; a frame per open bracket.
Evaluate(toks, row) ==
    LET Frame == [or |-> FALSE, and |-> TRUE]
        Conj(stack, v) == [stack EXCEPT ![Len(stack)].and = @ /\ v]
        Flush(s) == IF s.c = <<>> THEN s ELSE [stack |-> Conj(s.stack, EvalClause(s.c, row)), c |-> <<>>]
        Value(f) == f.or \/ f.and
        Step(s, t) ==
            CASE t.w = "AND" -> Flush(s)
              [] t.w = "OR" -> LET f == Flush(s) IN
                    [f EXCEPT !.stack[Len(f.stack)] = [or |-> Value(@), and |-> TRUE]]
              [] t.w = "(" -> [s EXCEPT !.stack = Append(@, Frame)]
              [] t.w = ")" -> LET f == Flush(s) IN
                    [f EXCEPT !.stack = Conj(Front(@), Value(Last(@)))]
              [] OTHER -> [s EXCEPT !.c = Append(@, t)]
    IN Value(Flush(FoldLeft(Step, [stack |-> <<Frame>>, c |-> <<>>], toks)).stack[1])

Matching(rows, toks) ==
    IF Has(toks, "WHERE") THEN SelectSeq(rows, LAMBDA r : Evaluate(Section(toks, "WHERE"), r)) ELSE rows

NoOther == [c \in DOMAIN Other[1] |-> NULL]
JoinRows(rows, left, l, r) ==
    FlattenSeq([i \in DOMAIN rows |->
        LET ms == SelectSeq(Other, LAMBDA o : o[r] = rows[i][l])
        IN IF ms = <<>> THEN (IF left THEN <<rows[i] @@ NoOther>> ELSE <<>>)
           ELSE [k \in DOMAIN ms |-> rows[i] @@ ms[k]]])

FromRows(toks) ==
    LET f == Section(toks, "FROM")
    IN FoldLeft(LAMBDA rows, i : JoinRows(rows, f[i].w = "LEFT JOIN", f[i + 3].w, f[i + 5].w),
                Table, [k \in 1..((Len(f) - 1) \div 6) |-> 6 * k - 4])

\* The first row of each group; the rows by the terms, ties by id.
Grouped(rows, cols) ==
    IF cols = {} THEN rows
    ELSE FoldLeft(LAMBDA s, r : IF \E i \in DOMAIN s : \A c \in cols : s[i][c] = r[c] THEN s ELSE Append(s, r),
                  <<>>, rows)

Ordered(rows, terms) ==
    LET Before(r, s) ==
            \E i \in 1..(Len(terms) + 1) :
                /\ \A j \in 1..(i - 1) : r[terms[j][1]] = s[terms[j][1]]
                /\ IF i > Len(terms) THEN r["id"] < s["id"]
                   ELSE IF terms[i][2] THEN r[terms[i][1]] > s[terms[i][1]]
                                       ELSE r[terms[i][1]] < s[terms[i][1]]
    IN IF terms = <<>> THEN rows ELSE SortSeq(rows, Before)

Cut(rows, skip, take) ==
    SubSeq(rows, skip + 1, IF take = NULL \/ skip + take > Len(rows) THEN Len(rows) ELSE skip + take)
Distinct(rows) == FoldLeft(LAMBDA s, r : IF \E i \in DOMAIN s : s[i] = r THEN s ELSE Append(s, r), <<>>, rows)

NumberAfter(toks, word) ==
    IF Has(toks, word) THEN CHOOSE n \in 0..20 : ToString(n) = Section(toks, word)[1].w ELSE NULL

ProjectItem(item, row) ==
    CASE item[1].w = "*" -> row
      [] item[1].w = "json_extract" -> item[5].w :> Lookup(row[item[2].w], item[3].p)
      [] Len(item) > 1 /\ item[2].w = "#>>" -> item[5].w :> Lookup(row[item[1].w], item[3].p)
      [] OTHER -> item[1].w :> row[item[1].w]

Project(toks, row) == FoldLeft(LAMBDA f, item : f @@ ProjectItem(item, row), <<>>, SplitAt(toks, ","))

OrderTerm(t) == CHOOSE p \in {"id", "k", "n"} \X BOOLEAN : t = p[1] \o (IF p[2] THEN " DESC" ELSE " ASC")

LockOf(toks) ==
    IF Has(toks, "FOR UPDATE") THEN <<"FOR UPDATE">> \o Words(Section(toks, "FOR UPDATE"))
    ELSE IF Has(toks, "FOR SHARE") THEN <<"FOR SHARE">> \o Words(Section(toks, "FOR SHARE"))
    ELSE <<>>

\* SQLite has no OFFSET without LIMIT; PostgreSQL locks no DISTINCT or GROUP BY rows.
Rejects(built, dialect) ==
    LET Has_(w) == \E i \in DOMAIN built.sql : built.sql[i] = w
    IN \/ dialect = "sqlite" /\ Has_("OFFSET") /\ ~Has_("LIMIT")
       \/ dialect = "postgres" /\ (Has_("FOR UPDATE") \/ Has_("FOR SHARE"))
                               /\ (Has_("DISTINCT") \/ Has_("GROUP BY"))

\* One operator per stage of a statement; each takes the result of the one before.
SelectedRows(toks, terms, groups) ==
    Ordered(Grouped(Matching(FromRows(toks), toks),
                    IF Has(toks, "GROUP BY") THEN {groups[i].w : i \in {j \in DOMAIN groups : groups[j].w # ","}} ELSE {}),
            [i \in DOMAIN terms |-> OrderTerm(terms[i][1].w)])

Projected(toks, rows, head) == [i \in DOMAIN rows |-> Project(head, rows[i])]

Returned(toks, out, skip, take) ==
    Cut(IF Has(toks, "DISTINCT") THEN Distinct(out) ELSE out, IF skip = NULL THEN 0 ELSE skip, take)

SelectTokens(toks) ==
    Returned(toks,
         Projected(toks,
                   SelectedRows(toks, SplitAt(Section(toks, "ORDER BY"), ","), Section(toks, "GROUP BY")),
                   SelectSeq(Section(toks, "SELECT"), LAMBDA t : t.w # "DISTINCT")),
         NumberAfter(toks, "OFFSET"), NumberAfter(toks, "LIMIT"))

SelectBound(bound, n) ==
    [ok |-> bound.ok /\ Len(bound.used) = n, rows |-> SelectTokens(bound.out), lock |-> LockOf(bound.out)]

RunSelect(built) == SelectBound(Bind(built.sql, built.params), Len(built.params))

CountTokens(toks) == Len(Matching(FromRows(toks), toks))
RunCount(built) == CountTokens(Bind(built.sql, built.params).out)

SetRow(row, sets) == FoldLeft(LAMBDA r, s : [r EXCEPT ![s[1].w] = Number(s[3].p)], row, sets)

WriteTokens(toks, hit, sets) ==
    IF toks[1].w = "UPDATE"
    THEN [i \in DOMAIN Table |-> IF Table[i] \in Range(hit) THEN SetRow(Table[i], sets) ELSE Table[i]]
    ELSE SelectSeq(Table, LAMBDA r : r \notin Range(hit))

WriteBound(bound, n) ==
    [ok |-> bound.ok /\ Len(bound.used) = n,
     rows |-> WriteTokens(bound.out, Matching(Table, bound.out), SplitAt(Section(bound.out, "SET"), ","))]

RunWrite(built) == WriteBound(Bind(built.sql, built.params), Len(built.params))

(***************************************************************************)
(* What the calls asked for.                                               *)
(***************************************************************************)
Predicates == {"cmp", "in", "null", "or", "raw", "json", "contains"}

CallsOf(fs) == SelectSeq(asked, LAMBDA c : c.f \in fs)
LastOf(f) == LET cs == CallsOf({f}) IN IF cs = <<>> THEN <<>> ELSE <<Last(cs)>>

NamesIn(c) ==
    CASE c.f \in {"cmp", "in", "null", "json", "contains", "set", "order"} -> {c.col}
      [] c.f = "select_json" -> {c.col, c.alias}
      [] c.f \in {"select", "group", "returning"} -> {c.cols[i] : i \in DOMAIN c.cols}
      [] c.f = "or" -> {c.group[i][1] : i \in DOMAIN c.group}
      [] c.f = "join" -> {c.other, c.l, c.r}
      [] OTHER -> {}

\* Names and operators that mean something, paths that point somewhere, waits on a lock.
Sensible ==
    /\ b.table # "bad"
    /\ \A i \in DOMAIN asked :
        LET c == asked[i] IN
        /\ "bad" \notin NamesIn(c)
        /\ c.f \in {"cmp", "json"} => c.op # "bad"
        /\ c.f = "or" => \A k \in DOMAIN c.group : c.group[k][2] # "bad"
        /\ c.f \in {"json", "select_json"} => c.segs \in DOMAIN PathAt
        /\ c.f = "wait" => \E k \in 1..(i - 1) : asked[k].f = "lock"

At(doc, path) == IF PathAt[path] \in DOMAIN doc THEN doc[PathAt[path]] ELSE NULL

Wanted(c, row) ==
    CASE c.f = "cmp" -> Compare(row[c.col], c.op, c.v)
      [] c.f = "in" -> \E i \in DOMAIN c.vs : row[c.col] = c.vs[i]
      [] c.f = "null" -> (row[c.col] = NULL) = c.is
      [] c.f = "or" -> \E i \in DOMAIN c.group : Compare(row[c.group[i][1]], c.group[i][2], c.group[i][3])
      [] c.f = "raw" -> IF c.vs = <<>> THEN row["k"] # NULL ELSE row["k"] = c.vs[1] \/ row["n"] = c.vs[2]
      [] c.f = "json" -> Compare(At(row["meta"], c.segs), c.op, c.v)
      [] c.f = "contains" -> Holds(row["meta"], c.v)

Filtered(rows) ==
    LET ps == CallsOf(Predicates) IN SelectSeq(rows, LAMBDA r : \A i \in DOMAIN ps : Wanted(ps[i], r))

JoinedRows == FoldLeft(LAMBDA rows, c : JoinRows(rows, c.left, c.l, c.r), Table, CallsOf({"join"}))

AskedRow(row) ==
    LET sel == LastOf("select")
        js  == CallsOf({"select_json"})
        named == IF sel = <<>> THEN row
                 ELSE [c \in {sel[1].cols[i] : i \in DOMAIN sel[1].cols} |-> row[c]]
    IN FoldLeft(LAMBDA f, j : f @@ (j.alias :> At(row["meta"], j.segs)), named, js)

AskedRows(paged) ==
    LET grp == LastOf("group")
        ord == CallsOf({"order"})
        lim == LastOf("limit")
        off == LastOf("offset")
        rows == Ordered(Grouped(Filtered(JoinedRows),
                                IF grp = <<>> THEN {} ELSE {grp[1].cols[i] : i \in DOMAIN grp[1].cols}),
                        [i \in DOMAIN ord |-> <<ord[i].col, ord[i].desc>>])
        out == [i \in DOMAIN rows |-> AskedRow(rows[i])]
        all == IF CallsOf({"distinct"}) = <<>> THEN out ELSE Distinct(out)
    IN IF paged THEN Cut(all, IF off = <<>> THEN 0 ELSE off[1].n, IF lim = <<>> THEN NULL ELSE lim[1].n)
                ELSE all

AskedLock ==
    LET l == LastOf("lock")
        w == LastOf("wait")
    IN IF l = <<>> THEN <<>>
       ELSE <<IF l[1].exclusive THEN "FOR UPDATE" ELSE "FOR SHARE">>
            \o (IF w = <<>> THEN <<>> ELSE <<w[1].w>>)

CanRun(dialect) ==
    dialect = "sqlite" => CallsOf({"contains", "wait"}) = <<>>

(***************************************************************************)
(* Properties.                                                             *)
(***************************************************************************)

\* A SELECT runs when every name, operator and path is sensible and the
\* database can do it, and only then: whatever the order of the setters, one
\* bad argument is enough to keep the SQL from the database (QueryBuilder::
\* err, check_ident, check_op, row_lock_sql).
RefusedUnlessSensible ==
    /\ kind = "query" => \A d \in Dialects : select(b, d).ok <=> (Sensible /\ CanRun(d))
    /\ kind = "update" => (update_returning(b, "sqlite").ok <=> Sensible)
    /\ kind = "delete" => (delete_returning(b, "sqlite").ok <=> Sensible)

\* The rows a SELECT returns, their order, their projection and the lock taken
\* are the ones the calls asked for: every value is bound at the placeholder
\* of its own clause, in both dialects (build_for, render_predicates,
\* to_pg_placeholders).
SelectsWhatWasAsked ==
    kind = "query" =>
        \A d \in Dialects :
            LET s == select(b, d)
                Fits(r) == r.ok /\ r.rows = AskedRows(TRUE) /\ (d = "postgres" => r.lock = AskedLock)
            IN s.ok /\ ~Rejects(s, d) => Fits(RunSelect(s))

\* The pages 1..total_pages of a filtered, joined and ordered query are its
\* rows, each once and in order, and has_next says whether the next one is empty
\* (Backend::paginate counts with one statement and reads with another).
PagesCoverTheRows ==
    kind = "query" /\ Sensible /\ CallsOf({"group", "distinct"}) = <<>> =>
        \A d \in Dialects, n \in {1, 2} :
            LET Cover(total, pages, page) ==
                  /\ FlattenSeq([p \in 1..pages |-> page[p].rows]) = AskedRows(FALSE)
                  /\ \A p \in 1..pages : has_next(p, total, n) <=> page[p + 1].rows # <<>>
                Pages(total) ==
                  Cover(total, total_pages(total, n),
                        [p \in 1..(total + 1) |-> RunSelect(paginate(b, p, n, d))])
            IN CanRun(d) => Pages(RunCount(count(b, d)))

\* An UPDATE or DELETE changes the rows its filters name and no other, and an
\* UPDATE writes each value into its own column (UpdateBuilder::build binds
\* the SET values before the WHERE values).
WritesWhatWasAsked ==
    Sensible /\ (kind = "delete" \/ (kind = "update" /\ b.sets # <<>>)) =>
        \A d \in Dialects :
            LET ps   == CallsOf(Predicates)
                sets == CallsOf({"set"})
                Hit(row) == \A i \in DOMAIN ps : Wanted(ps[i], row)
                New(row) == FoldLeft(LAMBDA f, s : [f EXCEPT ![s.col] = s.v], row, sets)
                Fits(r) ==
                  /\ r.ok
                  /\ r.rows = IF kind = "update"
                              THEN [i \in DOMAIN Table |-> IF Hit(Table[i]) THEN New(Table[i]) ELSE Table[i]]
                              ELSE SelectSeq(Table, LAMBDA row : ~Hit(row))
            IN Fits(RunWrite(IF kind = "update" THEN update_returning(b, d) ELSE delete_returning(b, d)))

(***************************************************************************)
(* Backend::insert_many on its two paths: the default batches multi-row    *)
(* INSERT statements under the placeholder budget (backend.rs), PostgreSQL *)
(* writes the rows as COPY text (pg.rs copy_text).                         *)
(*                                                                         *)
(* A value is NULL or a text, a sequence of characters of which the        *)
(* backslash, the tab, the newline and the return matter to COPY.          *)
(***************************************************************************)


CONSTANTS
    Texts,      \* the texts a row may hold
    Width,      \* the number of columns
    MaxRows,    \* bound: rows of one call
    Budget,     \* placeholders a statement may have (30 000 in the code)
    MaxBatch    \* rows a statement may have (500 in the code)

VARIABLE bulkRows   \* the rows passed to insert_many

bulkVars == <<bulkRows>>

Null == [null |-> TRUE, text |-> <<>>]
Text(t) == [null |-> FALSE, text |-> t]
BulkValue == {Null} \cup {Text(t) : t \in Texts}

check_bulk_shape(rs, width) ==
    /\ width > 0
    /\ \A i \in DOMAIN rs : Len(rs[i]) = width

(***************************************************************************)
(* The default path: statements of at most `per_batch` rows.               *)
(***************************************************************************)
per_batch(cols) ==
    LET n == Budget \div cols IN IF n < 1 THEN 1 ELSE IF n > MaxBatch THEN MaxBatch ELSE n

Chunks(rs, n) ==
    [c \in 1..((Len(rs) + n - 1) \div n) |->
        SubSeq(rs, (c - 1) * n + 1, IF c * n > Len(rs) THEN Len(rs) ELSE c * n)]

\* Per statement: how many tuples of marks, and the flattened parameters.
Statements(rs) ==
    [c \in DOMAIN Chunks(rs, per_batch(Width)) |->
        LET chunk == Chunks(rs, per_batch(Width))[c]
        IN [tuples |-> Len(chunk), params |-> FlattenSeq(chunk)]]

\* The database reads `Width` parameters for each tuple.
Inserted(stmt) ==
    [r \in 1..stmt.tuples |-> SubSeq(stmt.params, (r - 1) * Width + 1, r * Width)]

insert_many(rs) ==
    IF ~check_bulk_shape(rs, Width) THEN [ok |-> FALSE, rows |-> <<>>, marks |-> 0]
    ELSE [ok |-> TRUE,
          rows |-> FlattenSeq([c \in DOMAIN Statements(rs) |-> Inserted(Statements(rs)[c])]),
          marks |-> FoldLeft(LAMBDA m, s : IF Len(s.params) > m THEN Len(s.params) ELSE m, 0, Statements(rs))]

(***************************************************************************)
(* The COPY path.                                                          *)
(***************************************************************************)
escape(c) ==
    CASE c = "\\" -> <<"\\", "\\">>
      [] c = "tab" -> <<"\\", "t">>
      [] c = "nl" -> <<"\\", "n">>
      [] c = "cr" -> <<"\\", "r">>
      [] OTHER -> <<c>>

copy_text(v) ==
    IF v.null THEN <<"\\", "N">> ELSE FlattenSeq([i \in DOMAIN v.text |-> escape(v.text[i])])

CopyData(rs) ==
    FlattenSeq([i \in DOMAIN rs |->
        FlattenSeq([k \in DOMAIN rs[i] |-> (IF k > 1 THEN <<"tab">> ELSE <<>>) \o copy_text(rs[i][k])])
        \o <<"nl">>])

Split(s, sep) ==
    FoldLeft(LAMBDA a, c : IF c = sep THEN Append(a, <<>>) ELSE [a EXCEPT ![Len(a)] = Append(@, c)],
             << <<>> >>, s)

\* COPY's reader: split at the bare separators, then undo the escapes.
Unescape(f) ==
    IF f = <<"\\", "N">> THEN Null
    ELSE Text(FoldLeft(LAMBDA s, c :
                CASE s.esc -> [esc |-> FALSE,
                               out |-> Append(s.out, CASE c = "t" -> "tab" [] c = "n" -> "nl" [] c = "r" -> "cr" [] OTHER -> c)]
                  [] ~s.esc /\ c = "\\" -> [s EXCEPT !.esc = TRUE]
                  [] OTHER -> [s EXCEPT !.out = Append(@, c)],
              [esc |-> FALSE, out |-> <<>>], f).out)

CopyRead(data) ==
    LET lines == Front(Split(data, "nl"))
    IN [i \in DOMAIN lines |->
          LET fields == Split(lines[i], "tab") IN [k \in DOMAIN fields |-> Unescape(fields[k])]]

copy_in(rs) ==
    IF ~check_bulk_shape(rs, Width) THEN [ok |-> FALSE, rows |-> <<>>]
    ELSE [ok |-> TRUE, rows |-> CopyRead(CopyData(rs))]

AddRow(r) == Len(bulkRows) < MaxRows /\ bulkRows' = Append(bulkRows, r)

BulkInit == bulkRows = <<>>

BulkNext == \E n \in {Width, Width - 1} : \E r \in [1..n -> BulkValue] : AddRow(r)

BulkSpec == BulkInit /\ [][BulkNext]_bulkVars

(***************************************************************************)
(* Properties.                                                             *)
(***************************************************************************)

\* Both paths store the rows as given, in order, NULL apart from every text
\* and separators inside texts intact; neither accepts a row of another width;
\* no statement exceeds the placeholder budget unless one row does.
StoresTheRows ==
    LET a == insert_many(bulkRows)
        c == copy_in(bulkRows)
    IN /\ a.ok <=> \A i \in DOMAIN bulkRows : Len(bulkRows[i]) = Width
       /\ c.ok = a.ok
       /\ a.ok => a.rows = bulkRows /\ c.rows = bulkRows /\ (a.marks <= Budget \/ Budget < Width)

=============================================================================
