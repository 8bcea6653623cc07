--------------------------------- MODULE Search ---------------------------------
(***************************************************************************)
(* Full-text queries and hybrid search of crates/sutegi-orm.               *)
(***************************************************************************)
EXTENDS Sequences, SequencesExt, Integers, FiniteSets, FiniteSetsExt

(***************************************************************************)
(* The search grammar of sutegi-orm (search.rs): one parser, two renderers *)
(* (PostgreSQL to_tsquery, SQLite FTS5), whose texts the engines parse     *)
(* again with precedences of their own.                                    *)
(*                                                                         *)
(* The input is a sequence of tokens: "a", "b" and "OR" are letters of     *)
(* words (OR is two letters the parser looks for), "." is any character    *)
(* that is neither a letter nor one of the others.  A word is a sequence   *)
(* of letters, so that adjacent tokens make one word.                      *)
(***************************************************************************)


CONSTANTS
    Tokens,     \* what the user may type
    MaxInput,   \* bound: tokens typed
    Docs        \* the documents searched: sequences of words

VARIABLE input

queryVars == <<input>>

Letters == {"a", "b", "OR"}
lower(c) == IF c = "OR" THEN "or" ELSE c

First(S, default) == IF S = {} THEN default ELSE CHOOSE i \in S : \A j \in S : i <= j
From(s, i) == SubSeq(s, i, Len(s))
FindTok(s, S) == First({i \in DOMAIN s : s[i] \in S}, Len(s) + 1)
trim_start(s) == From(s, First({i \in DOMAIN s : s[i] # " "}, Len(s) + 1))

words_of(raw) ==
    SelectSeq(FoldLeft(LAMBDA ws, c : IF c \in Letters THEN [ws EXCEPT ![Len(ws)] = Append(@, lower(c))]
                                                       ELSE Append(ws, <<>>),
                       << <<>> >>, raw),
              LAMBDA w : w # <<>>)

Term(negated, words) == [negated |-> negated, words |-> words]

\* One turn of the loop: an OR, or a term that is a word or a phrase.
RECURSIVE ParseFrom(_, _)
ParseFrom(rest, groups) ==
    LET negated == rest[1] = "-"
        body    == IF negated THEN Tail(rest) ELSE rest
        quoted  == body # <<>> /\ body[1] = "\""
        text    == IF quoted THEN Tail(body) ELSE body
        end     == FindTok(text, IF quoted THEN {"\""} ELSE {" "})
        words   == words_of(SubSeq(text, 1, end - 1))
        after   == trim_start(From(text, IF quoted THEN end + 1 ELSE end))
        last    == Len(groups)
    IN IF rest = <<>> THEN groups
       ELSE IF rest[1] = "OR" /\ (Len(rest) = 1 \/ rest[2] = " ")
       THEN ParseFrom(trim_start(Tail(rest)), IF groups[last] = <<>> THEN groups ELSE Append(groups, <<>>))
       ELSE ParseFrom(after, IF words = <<>> THEN groups
                             ELSE [groups EXCEPT ![last] = Append(@, Term(negated, words))])

parse_query(s) ==
    LET groups == SelectSeq(ParseFrom(trim_start(s), << <<>> >>), LAMBDA g : g # <<>>)
    IN [ok |-> groups # <<>> /\ \A i \in DOMAIN groups : \E t \in Range(groups[i]) : ~t.negated,
        groups |-> groups]

(***************************************************************************)
(* Rendering.                                                              *)
(***************************************************************************)
JoinWith(pieces, op) ==
    FlattenSeq([i \in DOMAIN pieces |-> IF i = 1 THEN pieces[i] ELSE << <<op>> >> \o pieces[i]])
Parens(s) == << <<"(">> >> \o s \o << <<")">> >>

TsTerm(t) ==
    LET joined == JoinWith([i \in DOMAIN t.words |-> <<t.words[i]>>], "<->")
        body == IF Len(t.words) > 1 THEN Parens(joined) ELSE joined
    IN IF t.negated THEN << <<"!">> >> \o body ELSE body

\* A group of several terms beside other groups is put in parentheses.
Group(groups, g, s) == IF Len(groups) > 1 /\ Len(g) > 1 THEN Parens(s) ELSE s

to_tsquery(groups) ==
    JoinWith([i \in DOMAIN groups |->
        Group(groups, groups[i], JoinWith([k \in DOMAIN groups[i] |-> TsTerm(groups[i][k])], "&"))], "|")

Quoted(t) == << <<"\"">> >> \o t.words \o << <<"\"">> >>

FtsGroup(g) ==
    LET pos == SelectSeq(g, LAMBDA t : ~t.negated)
        neg == SelectSeq(g, LAMBDA t : t.negated)
    IN JoinWith([i \in DOMAIN pos |-> Quoted(pos[i])], "AND")
       \o FlattenSeq([i \in DOMAIN neg |-> << <<"NOT">> >> \o Quoted(neg[i])])

to_fts5(groups) == JoinWith([i \in DOMAIN groups |-> Group(groups, groups[i], FtsGroup(groups[i]))], "OR")

(***************************************************************************)
(* The engines: the operators of each, the loosest first.                  *)
(***************************************************************************)
Depth(s, i) ==
    Len(SelectSeq(SubSeq(s, 1, i), LAMBDA t : t = <<"(">>)) - Len(SelectSeq(SubSeq(s, 1, i - 1), LAMBDA t : t = <<")">>))
InQuotes(s, i) == Len(SelectSeq(SubSeq(s, 1, i - 1), LAMBDA t : t = <<"\"">>)) % 2 = 1
TopLevel(s, op) == {i \in DOMAIN s : s[i] = <<op>> /\ Depth(s, i) = 0 /\ ~InQuotes(s, i)}

Pieces(s, op) ==
    FoldLeft(LAMBDA ps, i : IF i \in TopLevel(s, op) THEN Append(ps, <<>>) ELSE [ps EXCEPT ![Len(ps)] = Append(@, s[i])],
             << <<>> >>, [i \in DOMAIN s |-> i])

HasPhrase(doc, words) ==
    \E i \in 1..Len(doc) : i + Len(words) - 1 <= Len(doc) /\ SubSeq(doc, i, i + Len(words) - 1) = words

\* FTS5 takes AND and OR left to right with AND the tighter, and NOT tighter
\* still; to_tsquery has "!" tightest, then "<->", "&" and "|".
RECURSIVE Matches(_, _)
Matches(s, doc) ==
    CASE TopLevel(s, "|") # {} -> \E p \in Range(Pieces(s, "|")) : Matches(p, doc)
      [] TopLevel(s, "OR") # {} -> \E p \in Range(Pieces(s, "OR")) : Matches(p, doc)
      [] TopLevel(s, "&") # {} -> \A p \in Range(Pieces(s, "&")) : Matches(p, doc)
      [] TopLevel(s, "AND") # {} -> \A p \in Range(Pieces(s, "AND")) : Matches(p, doc)
      [] TopLevel(s, "NOT") # {} -> LET ps == Pieces(s, "NOT")
                                    IN Matches(Head(ps), doc) /\ \A p \in Range(Tail(ps)) : ~Matches(p, doc)
      [] TopLevel(s, "<->") # {} -> LET ps == Pieces(s, "<->") IN HasPhrase(doc, [i \in DOMAIN ps |-> Head(ps[i])])
      [] s[1] = <<"!">> -> ~Matches(Tail(s), doc)
      [] s[1] = <<"(">> -> Matches(SubSeq(s, 2, Len(s) - 1), doc)
      [] s[1] = <<"\"">> -> HasPhrase(doc, SubSeq(s, 2, Len(s) - 1))
      [] OTHER -> HasPhrase(doc, s)

QueryInit == input = <<>>

Type(t) == Len(input) < MaxInput /\ input' = Append(input, t)

QueryNext == \E t \in Tokens : Type(t)

QuerySpec == QueryInit /\ [][QueryNext]_queryVars

(***************************************************************************)
(* Properties.                                                             *)
(***************************************************************************)

\* A document is found when one group has all its positive terms in it and
\* none of its negated ones.
Wanted(groups, doc) ==
    \E g \in Range(groups) : \A t \in Range(g) : HasPhrase(doc, t.words) # t.negated

\* Both engines, each parsing its own text with its own precedences, find the
\* documents the query asks for; neither is given a query without a positive
\* term in some group.
EnginesAgree ==
    LET q == parse_query(input)
    IN q.ok => \A doc \in Docs :
                   /\ Matches(to_tsquery(q.groups), doc) = Wanted(q.groups, doc)
                   /\ Matches(to_fts5(q.groups), doc) = Wanted(q.groups, doc)

(***************************************************************************)
(* Full-text and hybrid search over a table that other connections write   *)
(* (search.rs, embedding.rs).  On SQLite the search index is an FTS5 table *)
(* that setup creates in five statements, with no transaction around them; *)
(* triggers keep it in step with the table.  hybrid_search reads the two   *)
(* legs and then the winning rows in three queries, fusing in between.     *)
(*                                                                         *)
(* A row is a document, which the query matches (1) or not (0), and a      *)
(* vector, whose distance to the target it is (Null: no vector).           *)
(***************************************************************************)


CONSTANTS
    Ids,        \* primary keys
    Distances,  \* distances of vectors to the target
    K,          \* the k of hybrid_search
    LegFactor,  \* candidates of a leg per hit (4 in the code)
    LegMin,     \* least candidates of a leg (50 in the code)
    MaxWrites,  \* bound: writes to the table
    MaxFaults   \* bound: failed statements of setup

VARIABLES
    table,      \* the base table: id -> row, or NoRow
    index,      \* the FTS5 table: id -> document, or None
    triggers,   \* the sync triggers that exist
    created,    \* the FTS5 table exists
    setup,      \* the caller of setup: "idle", the next statement, "ready"
    faults,     \* statements that failed
    writes,
    call,       \* hybrid_search: "idle", "vector", "fetch", "done"
    lexical,    \* the pks of the lexical leg, best first
    vector,     \* the pks of the vector leg, best first
    hits        \* what hybrid_search returned: [id, row], best first

vars == <<table, index, triggers, created, setup, faults, writes, call, lexical, vector, hits>>
artifacts == <<index, triggers, created, setup, faults>>
search == <<call, lexical, vector, hits>>

Null == -1
None == -1
NoRow == [doc |-> None, vec |-> Null]
Row == [doc : {0, 1}, vec : Distances \cup {Null}]
Live == {i \in Ids : table[i] # NoRow}

TypeOK ==
    /\ table \in [Ids -> Row \cup {NoRow}]
    /\ index \in [Ids -> {0, 1, None}]
    /\ triggers \subseteq {"ai", "ad", "au"}
    /\ created \in BOOLEAN
    /\ setup \in {"idle", "ai", "ad", "au", "rebuild", "ready"}
    /\ faults \in 0..MaxFaults /\ writes \in 0..MaxWrites
    /\ call \in {"idle", "vector", "fetch", "done"}
    /\ \A s \in {lexical, vector} : s \in Seq(Ids) /\ IsInjective(s)

Init ==
    /\ table \in [Ids -> Row \cup {NoRow}]
    /\ index = [i \in Ids |-> None]
    /\ triggers = {} /\ created = FALSE /\ setup = "idle" /\ faults = 0 /\ writes = 0
    /\ call = "idle" /\ lexical = <<>> /\ vector = <<>> /\ hits = <<>>

(***************************************************************************)
(* Writers.  A trigger runs with the statement that fires it.              *)
(***************************************************************************)
Written == writes < MaxWrites /\ writes' = writes + 1

Insert(i, r) ==
    /\ Written /\ table[i] = NoRow
    /\ table' = [table EXCEPT ![i] = r]
    /\ index' = IF "ai" \in triggers THEN [index EXCEPT ![i] = r.doc] ELSE index
    /\ UNCHANGED <<triggers, created, setup, faults, search>>

Delete(i) ==
    /\ Written /\ table[i] # NoRow
    /\ table' = [table EXCEPT ![i] = NoRow]
    /\ index' = IF "ad" \in triggers THEN [index EXCEPT ![i] = None] ELSE index
    /\ UNCHANGED <<triggers, created, setup, faults, search>>

Update(i, r) ==
    /\ Written /\ table[i] # NoRow /\ table[i] # r
    /\ table' = [table EXCEPT ![i] = r]
    /\ index' = IF "au" \in triggers THEN [index EXCEPT ![i] = r.doc] ELSE index
    /\ UNCHANGED <<triggers, created, setup, faults, search>>

(***************************************************************************)
(* setup on SQLite, a statement at a time.                                 *)
(***************************************************************************)
SetupNext(now, then) == setup = now /\ setup' = then /\ UNCHANGED <<table, writes, faults, search>>

\* The probe and CREATE VIRTUAL TABLE: an existing table ends the call.
CreateFts ==
    /\ SetupNext("idle", IF created THEN "ready" ELSE "ai")
    /\ created' = TRUE
    /\ UNCHANGED <<index, triggers>>

CreateTrigger(t, then) ==
    /\ SetupNext(t, then)
    /\ triggers' = triggers \cup {t}
    /\ UNCHANGED <<index, created>>

Rebuild ==
    /\ SetupNext("rebuild", "ready")
    /\ index' = [i \in Ids |-> table[i].doc]
    /\ UNCHANGED <<triggers, created>>

\* A statement fails (busy, disk, the process ends): the call returns its
\* error, what it did stays; the caller may call setup again.
SetupFails ==
    /\ setup \in {"ai", "ad", "au", "rebuild"}
    /\ faults < MaxFaults
    /\ faults' = faults + 1
    /\ setup' = "idle"
    /\ UNCHANGED <<table, index, triggers, created, writes, search>>

Setup ==
    \/ CreateFts
    \/ CreateTrigger("ai", "ad") \/ CreateTrigger("ad", "au") \/ CreateTrigger("au", "rebuild")
    \/ Rebuild
    \/ SetupFails

(***************************************************************************)
(* hybrid_search.                                                          *)
(***************************************************************************)
leg_size(k) == IF k * LegFactor > LegMin THEN k * LegFactor ELSE LegMin

Cut(s, n) == SubSeq(s, 1, IF Len(s) < n THEN Len(s) ELSE n)
Orders(S) == {s \in [1..Cardinality(S) -> S] : IsInjective(s)}

\* search: the engine ranks the matching rows; the join drops an index entry
\* that has no row.
Lexical ==
    /\ setup = "ready" /\ call = "idle"
    /\ \E s \in Orders({i \in Live : index[i] = 1}) : lexical' = Cut(s, leg_size(K))
    /\ call' = "vector"
    /\ UNCHANGED <<table, artifacts, writes, vector, hits>>

\* nearest: rows without a vector are skipped, the rest sorted by distance,
\* rows of one distance in the order of the query.
nearest(n) ==
    {Cut(s, n) : s \in {o \in Orders({i \in Live : table[i].vec # Null}) :
                           \A j \in 1..(Len(o) - 1) : table[o[j]].vec <= table[o[j + 1]].vec}}

VectorLeg ==
    /\ call = "vector"
    /\ vector' \in nearest(leg_size(K))
    /\ call' = "fetch"
    /\ UNCHANGED <<table, artifacts, writes, lexical, hits>>

(***************************************************************************)
(* Reciprocal-rank fusion: a leg gives 1/(60 + rank).  Scores are scaled   *)
(* to a common denominator.                                                *)
(***************************************************************************)
Unit(rank) == 60 + rank
Scale == FoldLeft(LAMBDA p, r : p * Unit(r), 1, [r \in 1..leg_size(K) |-> r])
Leg(leg, i) ==
    LET at == {r \in DOMAIN leg : leg[r] = i} IN IF at = {} THEN 0 ELSE Scale \div Unit(CHOOSE r \in at : TRUE)

Score(i) == Leg(lexical, i) + Leg(vector, i)

Candidates == Range(lexical) \cup Range(vector)
Ranked == {s \in Orders(Candidates) : \A j \in 1..(Len(s) - 1) : Score(s[j]) >= Score(s[j + 1])}

Found(s) == SelectSeq(Cut(s, K), LAMBDA i : table[i] # NoRow)

Fetch ==
    /\ call = "fetch"
    /\ \E s \in Ranked :
          LET kept == Found(s)
          IN hits' = [j \in DOMAIN kept |-> [id |-> kept[j], row |-> table[kept[j]]]]
    /\ call' = "done"
    /\ UNCHANGED <<table, artifacts, writes, lexical, vector>>

Next ==
    \/ \E i \in Ids, r \in Row : Insert(i, r) \/ Update(i, r)
    \/ \E i \in Ids : Delete(i)
    \/ Setup
    \/ Lexical \/ VectorLeg \/ Fetch

Spec == Init /\ [][Next]_vars

(***************************************************************************)
(* Properties.                                                             *)
(***************************************************************************)

\* Once a setup has gone through, the index holds the table's documents: the
\* rows that were there before, and every write since its first statement.
IndexFollows == setup = "ready" /\ faults = 0 => \A i \in Ids : index[i] = table[i].doc

\* "a doc ranked well in *both* legs beats a doc ranked first in one and
\* absent from the other": whoever is in one leg alone comes after everyone
\* who is in both and still has a row.
BothBeatsOne ==
    [][call = "fetch" /\ call' = "done" =>
          LET both == Range(lexical) \cap Range(vector)
          IN \A j \in DOMAIN hits' : hits'[j].id \notin both =>
                \A i \in both \cap Live : \E m \in 1..(j - 1) : hits'[m].id = i]_vars

\* What is returned are rows of the table as they were at the last query, no
\* row twice, at most k.
HitsAreRows ==
    [][call = "fetch" /\ call' = "done" =>
          /\ Len(hits') <= K
          /\ \A j, m \in DOMAIN hits' : hits'[j].id = hits'[m].id => j = m
          /\ \A j \in DOMAIN hits' : hits'[j].row = table[hits'[j].id] /\ hits'[j].row # NoRow]_vars

=============================================================================
