----------------------------- MODULE DerivedModels -----------------------------
(***************************************************************************)
(* What the derive macros generate: validation, rows to models and back,   *)
(* and loading the children of many parents at once.                       *)
(***************************************************************************)
EXTENDS Integers, Sequences, FiniteSets, FiniteSetsExt, SequencesExt

(***************************************************************************)
(* The two validators of sutegi-validate (lib.rs): rule sets over a flat   *)
(* body, and the JSON Schema subset over a nested value.                   *)
(*                                                                         *)
(* A JSON value is a record with a tag; strings are sequences of           *)
(* characters.  Numbers are counted in halves, so an odd one has a         *)
(* fraction.  Messages are left out: an error is where and which check.    *)
(***************************************************************************)


Null == [t |-> "null", v |-> <<>>]
Bool(b) == [t |-> "bool", v |-> b]
Halves(n) == [t |-> "num", v |-> n]
Num(n) == Halves(2 * n)
Str(s) == [t |-> "str", v |-> s]
Arr(a) == [t |-> "arr", v |-> a]
Obj(m) == [t |-> "obj", v |-> m]

Integral(j) == j.t = "num" /\ j.v % 2 = 0

(***************************************************************************)
(* Rule sets: rules is a function from field names to sets of rules, a     *)
(* rule a pair of its name and its argument.                               *)
(***************************************************************************)
Absent(body, name) == name \notin DOMAIN body \/ body[name] = Null

length_of(j) == Len(j.v)
HasLength(j) == j.t \in {"str", "arr"}

\* The smallest number a min rule lets through, in halves.
Least(n) == 2 * n

\* What a rule of a single value says; a rule about numbers or lengths has
\* nothing to say of another kind of value.
check_rule(rule, j) ==
    CASE rule[1] = "str" -> j.t = "str"
      [] rule[1] = "integer" -> Integral(j)
      [] rule[1] = "number" -> j.t = "num"
      [] rule[1] = "bool" -> j.t = "bool"
      [] rule[1] = "min" -> j.t = "num" => j.v >= Least(rule[2])
      [] rule[1] = "max" -> j.t = "num" => j.v <= 2 * rule[2]
      [] rule[1] = "between" -> j.t = "num" => j.v >= 2 * rule[2][1] /\ j.v <= 2 * rule[2][2]
      [] rule[1] = "min_len" -> HasLength(j) => length_of(j) >= rule[2]
      [] rule[1] = "max_len" -> HasLength(j) => length_of(j) <= rule[2]
      [] rule[1] = "format" -> j.t = "str" /\ j.v \in rule[2]
      [] rule[1] = "in" -> j.t \in {"str", "num", "bool"} /\ j \in rule[2]
      [] rule[1] = "required" -> TRUE

\* The errors of a body: what is required and missing, else the rules its
\* value breaks; a missing field that may be missing breaks none.
validate(rules, body) ==
    UNION {IF Absent(body, f)
           THEN {<<f, r>> : r \in {x \in rules[f] : x[1] = "required"}}
           ELSE {<<f, r>> : r \in {x \in rules[f] :
                    IF x[1] = "same" THEN x[2] \notin DOMAIN body \/ body[x[2]] # body[f]
                                     ELSE ~check_rule(x, body[f])}} : f \in DOMAIN rules}

(***************************************************************************)
(* Schemas: a schema is a record with a type, and for its kind an enum (a  *)
(* set of values), bounds, required names, properties and items.  The      *)
(* field a schema does not have is "any", {}, or <<>>.                     *)
(***************************************************************************)
Schema(type) == [type |-> type, enum |-> {}, min |-> 0, max |-> 99, required |-> {}, properties |-> <<>>, items |-> <<>>]

TypeMatches(type, j) ==
    CASE type = "object" -> j.t = "obj"
      [] type = "array" -> j.t = "arr"
      [] type = "string" -> j.t = "str"
      [] type = "integer" -> Integral(j)
      [] type = "number" -> j.t = "num"
      [] type = "boolean" -> j.t = "bool"
      [] type = "null" -> j.t = "null"
      [] OTHER -> TRUE

\* A path is a sequence of names and indices; the empty one is reported, and
\* continued by an index, as "value".
path_label(path) == IF path = <<>> THEN <<"value">> ELSE path
join_path(parent, child) == Append(parent, child)
ItemPath(path, i) == Append(path_label(path), <<"item", i>>)

\* The paths at which a value breaks its schema.
RECURSIVE validate_node(_, _, _)
validate_node(s, j, path) ==
    LET Bounds(n) == IF n < s.min \/ n > s.max THEN {path_label(path)} ELSE {}
        Enum == IF s.enum # {} /\ j \notin s.enum THEN {path_label(path)} ELSE {}
    IN IF ~TypeMatches(s.type, j) THEN {path_label(path)}
       ELSE Enum \cup
            CASE j.t = "num" -> IF j.v < 2 * s.min \/ j.v > 2 * s.max THEN {path_label(path)} ELSE {}
              [] j.t = "str" -> Bounds(Len(j.v))
              [] j.t = "obj" -> {join_path(path, f) : f \in s.required \ DOMAIN j.v}
                                \cup UNION {validate_node(s.properties[f], j.v[f], join_path(path, f))
                                              : f \in DOMAIN s.properties \cap DOMAIN j.v}
              [] j.t = "arr" -> IF s.items = <<>> THEN {}
                                ELSE UNION {validate_node(s.items[1], j.v[i], ItemPath(path, i)) : i \in DOMAIN j.v}
              [] OTHER -> {}

validate_schema(s, j) == validate_node(s, j, <<>>)

(***************************************************************************)
(* What #[derive(Model)] and #[derive(Validate)] generate (sutegi-macros), *)
(* with the column extractors (sutegi-orm backend.rs, mod row) and         *)
(* Ctx::validated (sutegi-web): a request body validated, hydrated, saved  *)
(* and read back on either backend; and a tool call checked by its schema. *)
(***************************************************************************)


CONSTANTS
    Fields,     \* field -> [scalar, optional]: the struct's columns
    Attributes, \* field -> set of rules: its #[validate] attributes
    Inputs,     \* the JSON values a client may send for a field
    Schemas,    \* the schemas a tool may declare
    Args        \* the arguments a tool may be called with

VARIABLES
    body,       \* the request body: field -> JSON
    call        \* the schema and the arguments of a tool call

vars == <<body, call>>

(***************************************************************************)
(* JSON text, for the columns a backend keeps as text.                     *)
(***************************************************************************)
Digits == <<"0", "1", "2", "3", "4", "5", "6", "7", "8", "9">>
digit(n) == Digits[n + 1]
parse_int(s) == IF Len(s) = 1 /\ Contains(Digits, s[1]) THEN <<SelectInSeq(Digits, LAMBDA d : d = s[1]) - 1>> ELSE <<>>

text(j) ==
    CASE j.t = "null" -> <<"n">>
      [] j.t = "bool" -> <<IF j.v THEN "t" ELSE "f">>
      [] j.t = "num" -> <<digit(j.v \div 2)>> \o (IF j.v % 2 = 1 THEN <<".", "5">> ELSE <<>>)
      [] j.t = "str" -> <<"\"">> \o j.v \o <<"\"">>

parse_json(s) ==
    CASE s = <<"n">> -> <<Null>>
      [] s \in {<<"t">>, <<"f">>} -> <<Bool(s = <<"t">>)>>
      [] Len(s) = 1 /\ parse_int(s) # <<>> -> <<Num(parse_int(s)[1])>>
      [] Len(s) = 3 /\ s[2] = "." -> <<Halves(2 * parse_int(<<s[1]>>)[1] + 1)>>
      [] Len(s) >= 2 /\ s[1] = "\"" -> <<Str(SubSeq(s, 2, Len(s) - 1))>>
      [] OTHER -> <<>>

(***************************************************************************)
(* Column extractors: <<value>> or <<>> for an error.                      *)
(***************************************************************************)
get_i64(j) ==
    CASE j.t = "num" -> <<j.v \div 2>>
      [] j.t = "bool" -> <<IF j.v THEN 1 ELSE 0>>
      [] j.t = "str" -> parse_int(j.v)
      [] OTHER -> <<>>

get_string(j) ==
    CASE j.t = "str" -> <<j.v>>
      [] j.t \in {"num", "bool"} -> <<text(j)>>
      [] OTHER -> <<>>

get_bool(j) ==
    CASE j.t = "bool" -> <<j.v>>
      [] j.t = "num" -> <<j.v # 0>>
      [] j.t = "str" -> <<j.v \in {<<"1">>, <<"t">>}>>
      [] OTHER -> <<>>

get_json(j) == IF j.t = "str" THEN parse_json(j.v) ELSE <<j>>

get(scalar, j) ==
    CASE scalar = "Int" -> get_i64(j)
      [] scalar = "Text" -> get_string(j)
      [] scalar = "Bool" -> get_bool(j)
      [] scalar = "Json" -> get_json(j)

\* A model is a function of its fields; an Option is <<>> or <<value>>.
default(scalar) == CASE scalar = "Int" -> 0 [] scalar = "Text" -> <<>> [] scalar = "Bool" -> FALSE [] scalar = "Json" -> Null

NoModel == <<>>
Hydrated(inits) ==
    IF \E f \in DOMAIN Fields : inits[f] = <<>> THEN NoModel ELSE <<[f \in DOMAIN Fields |-> inits[f][1]]>>

\* from_row: a column that is not an Option has to be there.
RowField(row, f) ==
    CASE Fields[f].optional -> IF Absent(row, f) THEN <<<<>>>>
                               ELSE LET v == get(Fields[f].scalar, row[f]) IN IF v = <<>> THEN <<>> ELSE <<v>>
      [] OTHER -> IF f \in DOMAIN row THEN get(Fields[f].scalar, row[f]) ELSE <<>>
from_row(row) == Hydrated([f \in DOMAIN Fields |-> RowField(row, f)])

\* from_input: lenient, an absent column is its type's default.
InputField(row, f) ==
    IF Absent(row, f) THEN <<IF Fields[f].optional THEN <<>> ELSE default(Fields[f].scalar)>>
    ELSE RowField(row, f)
from_input(row) == Hydrated([f \in DOMAIN Fields |-> InputField(row, f)])

\* The value a field is written as.
value_wrapper(scalar, v) ==
    CASE scalar = "Int" -> Num(v) [] scalar = "Text" -> Str(v) [] scalar = "Bool" -> Bool(v) [] scalar = "Json" -> v

\* A JSON null and a SQL NULL are kept apart here: what the row holds is a
\* pair of the kind of column and the value, or NULL.
to_values(m) ==
    [f \in DOMAIN Fields |->
        IF ~Fields[f].optional THEN <<value_wrapper(Fields[f].scalar, m[f])>>
        ELSE IF m[f] = <<>> THEN <<>> ELSE <<value_wrapper(Fields[f].scalar, m[f][1])>>]

\* The row a SELECT returns for what was stored: SQLite has numbers for
\* booleans and text for JSON, PostgreSQL returns both as they are.
stored(b, values) ==
    [f \in DOMAIN Fields |->
        CASE values[f] = <<>> -> Null
          [] values[f] # <<>> /\ b = "sqlite" /\ Fields[f].scalar = "Bool" -> Num(IF values[f][1].v THEN 1 ELSE 0)
          [] values[f] # <<>> /\ b = "sqlite" /\ Fields[f].scalar = "Json" -> Str(text(values[f][1]))
          [] OTHER -> values[f][1]]

\* The rule set of the struct: the fields that have attributes.
Rules == [f \in {g \in DOMAIN Fields : Attributes[g] # {}} |-> Attributes[f]]

\* Ctx::validated: the rules first, then hydration.
validated(b) == IF validate(Rules, b) # {} THEN NoModel ELSE from_input(b)

Init == body = [f \in {} |-> Null] /\ call = <<>>

\* The request carries a field more, or is a tool call.
Send(f, j) ==
    /\ call = <<>>
    /\ f \notin DOMAIN body
    /\ body' = [g \in DOMAIN body \cup {f} |-> IF g = f THEN j ELSE body[g]]
    /\ UNCHANGED call

Invoke(s, j) ==
    /\ DOMAIN body = {} /\ call = <<>>
    /\ call' = <<s, j>>
    /\ UNCHANGED body

Next ==
    \/ \E f \in DOMAIN Fields, j \in Inputs : Send(f, j)
    \/ \E s \in Schemas, j \in Args : Invoke(s, j)

Spec == Init /\ [][Next]_vars

(***************************************************************************)
(* Properties.                                                             *)
(***************************************************************************)

\* What a rule says of the field of a hydrated model.
Obeys(rule, v) ==
    CASE rule[1] = "min" -> v >= rule[2]
      [] rule[1] = "max" -> v <= rule[2]
      [] rule[1] = "min_len" -> Len(v) >= rule[2]
      [] OTHER -> TRUE
Field(m, f) == IF Fields[f].optional THEN m[f][1] ELSE m[f]
Typed(f) == Rules[f] \cap {<<"integer", 0>>, <<"str", 0>>} # {}

\* A model that Ctx::validated hands out obeys its rules, in every field that
\* has a rule for its type and that the client sent: hydration reads the
\* value that was checked.
ValidatedObeysRules ==
    validated(body) # NoModel =>
        \A f \in DOMAIN Rules : Typed(f) /\ ~Absent(body, f) =>
            \A r \in Rules[f] : Obeys(r, Field(validated(body)[1], f))

\* A model comes back as it was saved, whatever the backend keeps in place of
\* its booleans, options and JSON (JSON strings and nulls on PostgreSQL
\* excepted).
SavedComesBack ==
    \A b \in {"sqlite", "postgres"} :
        validated(body) # NoModel =>
            LET m == validated(body)[1]
            IN (b = "postgres" => \A f \in DOMAIN Fields : Fields[f].scalar = "Json" => m[f].t \notin {"str", "null"})
                 => from_row(stored(b, to_values(m))) = <<m>>

\* A value that satisfies a schema, to put in the place of one that does not.
RECURSIVE Sample(_)
Sample(s) ==
    CASE s.enum # {} -> CHOOSE j \in s.enum : TRUE
      [] s.type = "integer" -> Num(s.min)
      [] s.type = "string" -> Str([i \in 1..s.min |-> "x"])
      [] s.type = "object" -> Obj([f \in s.required |-> Sample(s.properties[f])])
      [] OTHER -> Null

\* The value with what stands at a path replaced.
RECURSIVE Put(_, _, _)
Put(j, s, path) ==
    LET step == Head(path)
    IN IF path = <<>> THEN Sample(s)
       ELSE IF j.t = "arr" THEN Arr([j.v EXCEPT ![step[2]] = Put(@, s.items[1], Tail(path))])
       ELSE IF step \notin DOMAIN s.properties THEN j
       ELSE Obj([f \in DOMAIN j.v \cup {step} |->
                   IF f # step THEN j.v[f]
                   ELSE Put(IF f \in DOMAIN j.v THEN j.v[f] ELSE Null, s.properties[f], Tail(path))])

\* The paths a failed tool call reports are exactly what is wrong with it:
\* putting an acceptable value at each makes the call acceptable.
PathsRepair ==
    LET s == call[1]
        j == call[2]
        Place(path) == IF j.t = "arr" THEN Tail(path) ELSE path
    IN (call # <<>> /\ TypeMatches(s.type, j)) =>
         validate_schema(s, FoldSet(LAMBDA path, v : Put(v, s, Place(path)), j, validate_schema(s, j))) = {}

(***************************************************************************)
(* The with_<relation> loaders #[derive(Model)] generates (sutegi-macros,  *)
(* relation_loaders): one query for the children of a whole batch of       *)
(* parents, then each parent is handed its own.  Rows come and go between  *)
(* the query for the parents and the one for the children.                 *)
(***************************************************************************)


CONSTANTS
    Keys,       \* the values of the join key
    MaxParents, \* bound: parents of one batch
    MaxRows     \* bound: child rows ever inserted

VARIABLES
    table,      \* the child table: rows [fk, id] in id order
    inserted,   \* rows inserted so far
    parents,    \* the join keys of the batch, in order
    rows,       \* what the loader's query returned
    many, one,  \* what each parent was handed by a has_many and a has_one
    pc          \* "open", "queried", "loaded"

eagerVars == <<table, inserted, parents, rows, many, one, pc>>

EagerInit ==
    /\ table = <<>> /\ inserted = 0 /\ parents = <<>> /\ rows = <<>>
    /\ many = <<>> /\ one = <<>> /\ pc = "open"

\* Other writers.
Insert(k) ==
    /\ inserted < MaxRows /\ pc # "loaded"
    /\ inserted' = inserted + 1
    /\ table' = Append(table, [fk |-> k, id |-> inserted + 1])
    /\ UNCHANGED <<parents, rows, many, one, pc>>

Delete(i) ==
    /\ pc # "loaded"
    /\ table' = RemoveAt(table, i)
    /\ UNCHANGED <<inserted, parents, rows, many, one, pc>>

\* The caller's batch.
AddParent(k) ==
    /\ pc = "open" /\ Len(parents) < MaxParents
    /\ parents' = Append(parents, k)
    /\ UNCHANGED <<table, inserted, rows, many, one, pc>>

\* SELECT ... WHERE fk IN (keys); an empty batch runs no query.
Query ==
    /\ pc = "open"
    /\ rows' = IF parents = <<>> THEN <<>> ELSE SelectSeq(table, LAMBDA r : Contains(parents, r.fk))
    /\ pc' = "queried"
    /\ UNCHANGED <<table, inserted, parents, many, one>>

Group(i) ==
    IF \E p \in 1..(i - 1) : parents[p] = parents[i] THEN <<>>
    ELSE SelectSeq(rows, LAMBDA r : r.fk = parents[i])

\* has_one and belongs_to: by_key keeps the first row of a key.
First(i) == LET r == SelectInSeq(rows, LAMBDA x : x.fk = parents[i]) IN IF r = 0 THEN <<>> ELSE <<rows[r]>>

Attach ==
    /\ pc = "queried"
    /\ many' = [i \in DOMAIN parents |-> Group(i)]
    /\ one' = [i \in DOMAIN parents |-> First(i)]
    /\ pc' = "loaded"
    /\ UNCHANGED <<table, inserted, parents, rows>>

EagerNext ==
    \/ \E k \in Keys : Insert(k) \/ AddParent(k)
    \/ \E i \in DOMAIN table : Delete(i)
    \/ Query
    \/ Attach

EagerSpec == EagerInit /\ [][EagerNext]_eagerVars

(***************************************************************************)
(* Properties.                                                             *)
(***************************************************************************)

Joined(i) == SelectSeq(rows, LAMBDA r : r.fk = parents[i])

\* No child is handed to two parents or to one with another key, none the
\* query returned is left out, and a parent's single child is its first.
LoadsTheJoin ==
    pc = "loaded" =>
        /\ \A i \in DOMAIN parents : \A n \in DOMAIN many[i] : many[i][n].fk = parents[i]
        /\ \A r \in DOMAIN rows : Cardinality({i \in DOMAIN parents : Contains(many[i], rows[r])}) = 1
        /\ \A i \in DOMAIN parents : one[i] = SubSeq(Joined(i), 1, IF Joined(i) = <<>> THEN 0 ELSE 1)

=============================================================================
