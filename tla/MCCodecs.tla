------------------------------ MODULE MCCodecs ------------------------------
(***************************************************************************)
(* The runs of the code that turns one form of data into another: frames,  *)
(* HTTP messages, JSON, templates, SQL, schemas, models and ciphertexts,   *)
(* each on every input its bounds allow.  A behaviour takes the steps of   *)
(* one component, chosen by part.                                          *)
(***************************************************************************)
EXTENDS Integers, Sequences, TLC

CONSTANTS Parts

\* The component whose steps a behaviour takes.
VARIABLE part

VARIABLES wsInput, got, used, rx
VARIABLES script, wire, pos, htPhase, start, lines, length, filled, clock,
          handed, status, htAsked, answer, arrives, form, formWire, formPhase
VARIABLES jsInput, jsChunks
VARIABLES src, teChunks
VARIABLES kind, b, sqlAsked, bulkRows
VARIABLES mode, dialect, before, desired, plan, sdDone, shadow, live, sdPhase,
          schema, reflectDialect
VARIABLES body, call, table, inserted, parents, rows, many, one, pc
VARIABLES h, buf, total, fed, crDone, aad, text, given

Off == "off"

\* WebSocket frames: fragments in and out of order, control frames between
\* them, a length in the wrong form, one too long, one without a mask.
Frame(op, fin, payload, width, flaw) ==
  [op |-> op, fin |-> fin, payload |-> payload, form |-> width, flaw |-> flaw]
Frames ==
  {Frame("text", TRUE, <<"a">>, 7, "none"), Frame("text", FALSE, <<"hi">>, 7, "none"),
   Frame("text", FALSE, <<"a", "a">>, 16, "none"), Frame("binary", FALSE, <<"lo">>, 7, "none"),
   Frame("cont", TRUE, <<"lo">>, 7, "none"), Frame("cont", FALSE, <<"a">>, 7, "none"),
   Frame("cont", TRUE, <<"a", "a">>, 16, "none"), Frame("binary", TRUE, <<"a">>, 16, "none"),
   Frame("binary", TRUE, <<"a", "a", "a", "a">>, 64, "none"),
   Frame("ping", TRUE, <<>>, 7, "none"), Frame("ping", FALSE, <<>>, 7, "none"),
   Frame("close", TRUE, <<"code", "code", "hi">>, 7, "none"),
   Frame("close", TRUE, <<>>, 7, "none"), Frame("text", TRUE, <<>>, 7, "Unmasked")}

\* Requests whose length is missing, repeated, contradictory, not a number,
\* over the limit or beside a transfer encoding.
Sent(heads, n) == [heads |-> heads, body |-> n]
HttpRequests ==
  {Sent(<<>>, 0), Sent(<<"cl1">>, 1), Sent(<<"cl2">>, 2), Sent(<<"cl1", "cl1">>, 1),
   Sent(<<"cl1", "cl2">>, 2), Sent(<<"te">>, 2), Sent(<<"cl1", "te">>, 2),
   Sent(<<"nan">>, 1), Sent(<<"cl3">>, 3), Sent(<<"x", "x", "x">>, 0)}

FormKeys == {<<"a">>, <<"a", "[", "]">>, <<"&">>, <<"%", "2", "5">>}
FormValues == {<<>>, <<"a">>, <<" ", "+">>, <<"=", "&">>, <<"%", "2", "5">>}
HexOf ==
  ("a" :> <<"6", "1">>) @@ (" " :> <<"2", "0">>) @@ ("&" :> <<"2", "6">>)
    @@ ("%" :> <<"2", "5">>) @@ ("+" :> <<"2", "B">>) @@ ("=" :> <<"3", "D">>)
    @@ ("[" :> <<"5", "B">>) @@ ("]" :> <<"5", "D">>)

JsonChunks ==
  {<<"[">>, <<"[", "[">>, <<"]">>, <<"]", "]">>, <<"{">>, <<"}">>, <<",">>, <<"num">>, <<" ">>,
   <<"\"", "k", "\"", ":">>, <<"\"", "\\", "\\", "\"">>, <<"\"", "k">>, <<"\"">>,
   <<"\\", "u", "hi">>, <<"\\", "u", "lo">>, <<"\\", "u", "ctl">>, <<"\\", "n">>}

\* A tagged value, as JSON, templates and column defaults have it.
Val(t, v) == [t |-> t, v |-> v]

\* A root value with markup in it, a loop whose second item is empty, a
\* partial that loops itself and one that includes itself when v is empty.
TemplateChunks ==
  {<<"@", "if(v)">>, <<"@", "if(last)">>, <<"@", "else">>, <<"@", "endif">>,
   <<"@", "foreach(xs)">>, <<"@", "endforeach">>, <<"@", "include(p)">>,
   <<"@", "include(self)">>, <<"{{", "v", "}}">>, <<"{!!", "v", "!!}">>, <<"@">>, <<"{{">>,
   <<"v">>}
RootValue == [v |-> Val("str", <<"<">>), xs |-> <<Val("str", <<"a">>), Val("str", <<>>)>>]
PartialTexts ==
  [p |-> <<"@", "foreach(xs)", "v", "@", "endforeach", "{{", "v", "}}">>,
   self |-> <<"@", "if(v)", "v", "@", "else", "@", "include(self)", "@", "endif">>]

\* Tables, columns and JSON paths of the query builder, two of them alike.
Spellings ==
  [t |-> <<"k">>, u |-> <<"j">>, k |-> <<"k">>, n |-> <<"j">>, id |-> <<"j", "k">>,
   meta |-> <<"_", "k", "0">>, j |-> <<"j">>, bad |-> <<"k", " ", "j">>]
    @@ ("u.k" :> <<"j", ".", "k">>)
PathK == <<"$", ".", "k">>
PathTen == <<"$", ".", "k", "[", "1", "0", "]">>
PathAt == (PathK :> << <<"k">> >>) @@ (PathTen :> << <<"k">>, <<"1", "0">> >>)
Meta(x, y) == (<< <<"k">> >> :> x) @@ (<< <<"k">>, <<"1", "0">> >> :> y)
SqlRow(i, k, n, x, y) == [id |-> i, k |-> k, n |-> n, meta |-> Meta(x, y)]
SqlTable ==
  <<SqlRow(1, 9, 10, 9, -1), SqlRow(2, 10, -1, 10, 9), SqlRow(3, 9, 9, 11, 10),
    SqlRow(4, 10, 10, 9, 11)>>
JoinedTable == <<("u.k" :> 9), ("u.k" :> 9), ("u.k" :> 7)>>

\* Schemas of two tables for the diff: each with its columns, an index and
\* foreign keys, one change apart or several.
Col(n, ty, null, uniq) ==
  [name |-> n, ty |-> ty, nullable |-> null, unique |-> uniq, primary |-> FALSE,
   default |-> "none"]
IdCol == "id" :> [Col("id", "int", FALSE, FALSE) EXCEPT !.primary = TRUE]
ColumnSets ==
  {IdCol, IdCol @@ ("b" :> Col("b", "text", TRUE, FALSE))}
    \cup {IdCol @@ ("a" :> a) :
            a \in {Col("a", "text", TRUE, FALSE), Col("a", "json", TRUE, FALSE),
                   Col("a", "text", FALSE, FALSE), Col("a", "int", TRUE, FALSE),
                   Col("a", "text", TRUE, TRUE)}}
IndexSets ==
  {<<>>} \cup {"ix" :> [name |-> "ix", columns |-> {"id"}, unique |-> u] : u \in BOOLEAN}
Fk(c, t, r, act) == [column |-> c, ref_table |-> t, ref_column |-> r, on_delete |-> act]
FkSets == {{}} \cup {{Fk("id", "u", "id", act)} : act \in {"cascade", "none"}}
TableU == "u" :> [columns |-> IdCol, indexes |-> <<>>, fks |-> {}]
DiffSchemas ==
  {("t" :> t) @@ TableU : t \in [columns : ColumnSets, indexes : IndexSets, fks : FkSets]}
    \cup {TableU, <<>>}

\* Columns of every type for the catalog, with the defaults the type allows.
Defaults ==
  [integer |-> {Val("int", 5), Val("null", <<>>)}, real |-> {Val("real", 10), Val("real", 3)},
   text |-> {Val("text", <<>>), Val("text", <<"'", "'">>), Val("text", <<"a", "::", "a">>),
             Val("text", <<"'", "5">>)},
   boolean |-> {Val("bool", TRUE)}, json |-> {Val("json", <<"{", "}">>)}, vector |-> {}]
ColumnsOf(n, k, d) ==
  [name : {n}, ty : {[k |-> k, dim |-> d]}, nullable : BOOLEAN, primary : BOOLEAN,
   unique : BOOLEAN, default : {Val("none", <<>>)} \cup Defaults[k]]
CatalogColumns ==
  ColumnsOf(1, "integer", 0) \cup ColumnsOf(2, "vector", 3) \cup ColumnsOf(2, "vector", 0)
    \cup UNION {ColumnsOf(2, k, 0) : k \in {"text", "real", "boolean", "json"}}
CatalogFks == {Fk(1, t, 1, act) : t \in {1, 2}, act \in {"NO ACTION", "CASCADE"}}

\* A model of five fields with its rules, and what a client may put in each.
Num(n) == Val("num", 2 * n)
Str(s) == Val("str", s)
ModelFields ==
  [name |-> [scalar |-> "Text", optional |-> FALSE], age |-> [scalar |-> "Int", optional |-> TRUE],
   rank |-> [scalar |-> "Int", optional |-> FALSE], done |-> [scalar |-> "Bool", optional |-> FALSE],
   meta |-> [scalar |-> "Json", optional |-> FALSE]]
FieldRules ==
  [name |-> {<<"required", 0>>, <<"str", 0>>, <<"min_len", 1>>},
   age |-> {<<"integer", 0>>, <<"min", 2>>, <<"max", 5>>},
   rank |-> {<<"min", 2>>}, done |-> {}, meta |-> {}]
FieldInputs ==
  {Val("null", <<>>), Val("bool", TRUE), Num(1), Num(4), Val("num", 5), Str(<<>>), Str(<<"1">>),
   Str(<<"x">>), Str(<<"\"", "x", "\"">>)}

\* A tool that takes an object with a required name, a size from a range and
\* a list of marks; and one that takes a list of such objects.
Shape(type) ==
  [type |-> type, enum |-> {}, min |-> 0, max |-> 99, required |-> {}, properties |-> <<>>,
   items |-> <<>>]
Bounded(type, lo, hi) == [Shape(type) EXCEPT !.min = lo, !.max = hi]
ItemShape ==
  [Shape("object") EXCEPT !.required = {"name"},
     !.properties = [name |-> Bounded("string", 1, 1), size |-> Bounded("integer", 2, 3)]]
ListOf(x) == [Shape("array") EXCEPT !.items = <<x>>]
OrderShape ==
  [Shape("object") EXCEPT !.required = {"item"},
     !.properties = [item |-> ItemShape,
                     marks |-> ListOf([Shape("string") EXCEPT !.enum = {Str(<<"x">>)}])]]
ToolNames == {Str(<<>>), Str(<<"x">>), Num(2)}
Items ==
  {Val("obj", <<>>)} \cup {Val("obj", [name |-> n]) : n \in ToolNames}
    \cup {Val("obj", [name |-> n, size |-> z]) : n \in ToolNames, z \in {Num(1), Num(2), Val("num", 5)}}
ToolArgs ==
  Items \cup {Val("obj", [item |-> i]) : i \in Items}
    \cup {Val("obj", [item |-> i, marks |-> Val("arr", l)]) :
            i \in Items, l \in UNION {[1..n -> ToolNames] : n \in 1..2}}
    \cup {Val("arr", <<i, k>>) : i \in Items, k \in Items}

Wire == INSTANCE WireFormats
  WITH FrameInputs <- [1..3 -> Frames], Len7 <- 1, Len16 <- 3, MaxFrame <- 3,
       MaxMessage <- 3, frames <- wsInput, Requests <- HttpRequests, MaxPipelined <- 2, MaxHeaderBytes <- 4,
       MaxBody <- 2, HeaderTimeout <- 1, Statuses <- {200, 204, 404},
       MaxLen <- 3, MaxInterim <- 2, max_body <- 2, Keys <- FormKeys,
       Values <- FormValues, Hex <- HexOf, MaxPairs <- 3, phase <- htPhase,
       asked <- htAsked

Text == INSTANCE TextFormats
  WITH Chunks <- JsonChunks, MaxChunks <- 4, MAX_DEPTH <- 2, input <- jsInput,
       chunks <- jsChunks, TemplatePieces <- TemplateChunks, MaxPieces <- 4,
       Root <- RootValue, Partials <- PartialTexts, MAX_PARSE_DEPTH <- 2,
       MAX_INCLUDE_DEPTH <- 2, pieces <- teChunks

Sql == INSTANCE QueryBuilder
  WITH Spelling <- Spellings, Paths <- {PathK, PathTen, <<"$", ".", "0">>},
       Vals <- {9, 10}, MaxCalls <- 2, Table <- SqlTable, Other <- JoinedTable,
       Texts <- {<<>>, <<"\\", "N">>, <<"\\", "t">>, <<"tab", "nl">>},
       Width <- 2, MaxRows <- 3, Budget <- 5, MaxBatch <- 3, asked <- sqlAsked

Schema == INSTANCE SchemaDiff
  WITH Schemas <- DiffSchemas, Dialects <- {"sqlite", "postgres"},
       Columns <- CatalogColumns, Indexes <- {<<1>>, <<2>>, <<2, 1>>},
       Fks <- CatalogFks, MaxCalls <- 3, MaxNumber <- 9, done <- sdDone,
       phase <- sdPhase

Models == INSTANCE DerivedModels
  WITH Fields <- ModelFields, Attributes <- FieldRules, Inputs <- FieldInputs,
       Schemas <- {ItemShape, OrderShape, ListOf(ItemShape)}, Args <- ToolArgs,
       Keys <- {1, 2}, MaxParents <- 3, MaxRows <- 3

Crypto == INSTANCE Crypto
  WITH DigestBlock <- 5, LenBytes <- 2, MaxMessage <- 13, Block <- 3, Pad <- 2,
       MaxText <- 4, MaxAad <- 3, done <- crDone

framesVars == <<wsInput, got, used, rx>>
requestVars == <<script, wire, pos, htPhase, start, lines, length, filled,
                 clock, handed, status>>
responseVars == <<htAsked, answer, arrives>>
formVars == <<form, formWire, formPhase>>
jsonVars == <<jsInput, jsChunks>>
templateVars == <<src, teChunks>>
sqlVars == <<kind, b, sqlAsked>>
bulkVars == <<bulkRows>>
diffVars == <<mode, dialect, before, desired, plan, sdDone, shadow, live,
              sdPhase>>
reflectVars == <<schema, reflectDialect>>
modelsVars == <<body, call>>
eagerVars == <<table, inserted, parents, rows, many, one, pc>>
digestVars == <<h, buf, total, fed, crDone>>
sealVars == <<aad, text, given>>
allVars == <<part, framesVars, requestVars, responseVars, formVars, jsonVars,
             templateVars, sqlVars, bulkVars, diffVars, reflectVars,
             modelsVars, eagerVars, digestVars, sealVars>>

MCInit ==
  /\ part \in Parts
  /\ \/ /\ part = "frames" /\ Wire!FramesInit
     \/ /\ part # "frames"
        /\ wsInput = Off /\ got = Off /\ used = Off /\ rx = Off
  /\ \/ /\ part = "request" /\ Wire!Init
     \/ /\ part # "request"
        /\ script = Off /\ wire = Off /\ pos = Off /\ htPhase = Off
        /\ start = Off /\ lines = Off /\ length = Off /\ filled = Off
        /\ clock = Off /\ handed = Off /\ status = Off
  /\ \/ /\ part = "response" /\ Wire!TransportInit
     \/ /\ part # "response"
        /\ htAsked = Off /\ answer = Off /\ arrives = Off
  /\ \/ /\ part = "form" /\ Wire!FormInit
     \/ /\ part # "form"
        /\ form = Off /\ formWire = Off /\ formPhase = Off
  /\ \/ /\ part = "json" /\ Text!Init
     \/ /\ part # "json"
        /\ jsInput = Off /\ jsChunks = Off
  /\ \/ /\ part = "template" /\ Text!TemplateInit
     \/ /\ part # "template"
        /\ src = Off /\ teChunks = Off
  /\ \/ /\ part = "sql" /\ Sql!Init
     \/ /\ part # "sql"
        /\ kind = Off /\ b = Off /\ sqlAsked = Off
  /\ \/ /\ part = "bulk" /\ Sql!BulkInit
     \/ /\ part # "bulk"
        /\ bulkRows = Off
  /\ \/ /\ part = "diff" /\ Schema!Init
     \/ /\ part # "diff"
        /\ mode = Off /\ dialect = Off /\ before = Off /\ desired = Off
        /\ plan = Off /\ sdDone = Off /\ shadow = Off /\ live = Off
        /\ sdPhase = Off
  /\ \/ /\ part = "reflect" /\ Schema!ReflectInit
     \/ /\ part # "reflect"
        /\ schema = Off /\ reflectDialect = Off
  /\ \/ /\ part = "models" /\ Models!Init
     \/ /\ part # "models"
        /\ body = Off /\ call = Off
  /\ \/ /\ part = "eager" /\ Models!EagerInit
     \/ /\ part # "eager"
        /\ table = Off /\ inserted = Off /\ parents = Off /\ rows = Off
        /\ many = Off /\ one = Off /\ pc = Off
  /\ \/ /\ part = "digest" /\ Crypto!DigestInit
     \/ /\ part # "digest"
        /\ h = Off /\ buf = Off /\ total = Off /\ fed = Off /\ crDone = Off
  /\ \/ /\ part = "seal" /\ Crypto!Init
     \/ /\ part # "seal"
        /\ aad = Off /\ text = Off /\ given = Off

\* The components that are not under test keep still.
Rest ==
  /\ part' = part
  /\ part # "frames" => UNCHANGED framesVars
  /\ part # "request" => UNCHANGED requestVars
  /\ part # "response" => UNCHANGED responseVars
  /\ part # "form" => UNCHANGED formVars
  /\ part # "json" => UNCHANGED jsonVars
  /\ part # "template" => UNCHANGED templateVars
  /\ part # "sql" => UNCHANGED sqlVars
  /\ part # "bulk" => UNCHANGED bulkVars
  /\ part # "diff" => UNCHANGED diffVars
  /\ part # "reflect" => UNCHANGED reflectVars
  /\ part # "models" => UNCHANGED modelsVars
  /\ part # "eager" => UNCHANGED eagerVars
  /\ part # "digest" => UNCHANGED digestVars
  /\ part # "seal" => UNCHANGED sealVars

FramesStep == part = "frames" /\ Wire!FramesNext /\ Rest
RequestStep == part = "request" /\ Wire!Next /\ Rest
ResponseStep == part = "response" /\ Wire!TransportNext /\ Rest
FormStep == part = "form" /\ Wire!FormNext /\ Rest
JsonStep == part = "json" /\ Text!Next /\ Rest
TemplateStep == part = "template" /\ Text!TemplateNext /\ Rest
SqlStep == part = "sql" /\ Sql!Next /\ Rest
BulkStep == part = "bulk" /\ Sql!BulkNext /\ Rest
DiffStep == part = "diff" /\ Schema!Next /\ Rest
ReflectStep == part = "reflect" /\ Schema!ReflectNext /\ Rest
ModelsStep == part = "models" /\ Models!Next /\ Rest
EagerStep == part = "eager" /\ Models!EagerNext /\ Rest
DigestStep == part = "digest" /\ Crypto!DigestNext /\ Rest
SealStep == part = "seal" /\ Crypto!Next /\ Rest

MCNext ==
  \/ FramesStep \/ RequestStep \/ ResponseStep \/ FormStep \/ JsonStep \/
     TemplateStep \/ SqlStep \/ BulkStep \/ DiffStep \/ ReflectStep \/
     ModelsStep \/ EagerStep \/ DigestStep \/ SealStep

MCSpec == MCInit /\ [][MCNext]_allVars

(***************************************************************************)
(* What the run checks.                                                    *)
(***************************************************************************)

\* However a peer cuts messages into frames and mixes control frames in, the
\* application gets the messages, the connection is closed for the first
\* violation and no other, every ping is answered once, and a frame is written
\* with the shortest length.
FramesHold ==
  part = "frames" =>
    /\ Wire!DeliversTheMessages /\ Wire!ClosesForTheFirstViolation
    /\ Wire!PingsAnsweredOnce /\ Wire!EncodesMinimally



\* A template compiles exactly when its blocks nest, an include renders as if
\* its text stood there, data is escaped unless asked otherwise, and text
\* without directives comes back.
TemplatesHold ==
  part = "template" =>
    /\ Text!CompilesWhatNests /\ Text!IncludesAreInlined
    /\ Text!DataIsEscaped /\ Text!LiteralsComeBack

\* The statement a builder makes, run with its parameters, selects, pages and
\* writes what the calls asked for, or is refused; rows copied in bulk are the
\* rows stored.
SqlHolds ==
  /\ part = "sql" =>
       /\ Sql!RefusedUnlessSensible /\ Sql!SelectsWhatWasAsked
       /\ Sql!PagesCoverTheRows /\ Sql!WritesWhatWasAsked
  /\ part = "bulk" => Sql!StoresTheRows



\* A digest fed in pieces is that of the message, block boundaries included; a
\* sealed text opens with what it was sealed with and nothing else, and no
\* keystream block is used twice.
CryptoHolds ==
  /\ part = "digest" => Crypto!TypeOK /\ Crypto!DigestsTheMessage
  /\ part = "seal" => Crypto!OpensWhatWasSealed /\ Crypto!KeystreamOnce
=============================================================================
