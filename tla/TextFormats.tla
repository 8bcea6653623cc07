----------------------------- MODULE TextFormats -----------------------------
(***************************************************************************)
(* Two languages that are parsed and written: JSON and templates.          *)
(***************************************************************************)
EXTENDS Naturals, Sequences, SequencesExt, TLC

(***************************************************************************)
(* The JSON parser and serialisers of sutegi-json (lib.rs).                *)
(*                                                                         *)
(* Text is a sequence of characters; "hi", "lo", "bmp" and "ctl" stand for *)
(* four hex digits that are a high surrogate, a low surrogate, a plain     *)
(* character and a control character, "num" and "null" for a number and a  *)
(* literal.  Inside a string "nl" is a newline, "smile" a character beyond *)
(* the basic plane, "?" the replacement character.                         *)
(***************************************************************************)

CONSTANTS
    Chunks,     \* the pieces an input is put together from
    MaxChunks,  \* bound: pieces of one input
    MAX_DEPTH   \* nesting the parser accepts (128 in the code)

VARIABLES input, chunks

vars == <<input, chunks>>

Null == [t |-> "null"]
Num == [t |-> "num"]
Str(s) == [t |-> "str", v |-> s]
Arr(a) == [t |-> "arr", v |-> a]
Obj(m) == [t |-> "obj", v |-> m]

(***************************************************************************)
(* Serialising.                                                            *)
(***************************************************************************)
escape(c) ==
    CASE c = "\"" -> <<"\\", "\"">>
      [] c = "\\" -> <<"\\", "\\">>
      [] c = "nl" -> <<"\\", "n">>
      [] c = "control" -> <<"\\", "u", "ctl">>
      [] OTHER -> <<c>>

escape_into(s) == <<"\"">> \o FlattenSeq([i \in DOMAIN s |-> escape(s[i])]) \o <<"\"">>

Commas(items) == FlattenSeq([i \in DOMAIN items |-> IF i = 1 THEN items[i] ELSE <<",">> \o items[i]])

RECURSIVE write_to(_)
write_to(v) ==
    CASE v.t = "null" -> <<"null">>
      [] v.t = "num" -> <<"num">>
      [] v.t = "str" -> escape_into(v.v)
      [] v.t = "arr" -> <<"[">> \o Commas([i \in DOMAIN v.v |-> write_to(v.v[i])]) \o <<"]">>
      [] v.t = "obj" -> LET ks == SetToSeq(DOMAIN v.v)
                        IN <<"{">> \o Commas([i \in DOMAIN ks |-> escape_into(ks[i]) \o <<":">> \o write_to(v.v[ks[i]])])
                                   \o <<"}">>

pad(n) == [i \in 1..n |-> " "]
Lines(items, depth) ==
    FlattenSeq([i \in DOMAIN items |->
        pad(depth + 1) \o items[i] \o (IF i < Len(items) THEN <<",">> ELSE <<>>) \o <<"nl">>]) \o pad(depth)

RECURSIVE write_pretty(_, _)
write_pretty(v, depth) ==
    CASE v.t = "arr" /\ v.v # <<>> ->
           <<"[", "nl">> \o Lines([i \in DOMAIN v.v |-> write_pretty(v.v[i], depth + 1)], depth) \o <<"]">>
      [] v.t = "obj" /\ DOMAIN v.v # {} ->
           LET ks == SetToSeq(DOMAIN v.v)
           IN <<"{", "nl">> \o Lines([i \in DOMAIN ks |-> escape_into(ks[i]) \o <<":", " ">> \o write_pretty(v.v[ks[i]], depth + 1)], depth)
                            \o <<"}">>
      [] OTHER -> write_to(v)

to_pretty(v) == write_pretty(v, 0)

(***************************************************************************)
(* Parsing.  Every operator takes the text and a position, and returns     *)
(* what it read and the position after it.                                 *)
(***************************************************************************)
Fail == [ok |-> FALSE, v |-> Null, pos |-> 0]
Read(v, pos) == [ok |-> TRUE, v |-> v, pos |-> pos]

peek(s, p) == IF p <= Len(s) THEN s[p] ELSE "end"
Space == {" ", "nl"}
RECURSIVE skip_ws(_, _)
skip_ws(s, p) == IF peek(s, p) \in Space THEN skip_ws(s, p + 1) ELSE p

Hex == {"hi", "lo", "bmp", "ctl"}
IsUnit(s, p) == peek(s, p) = "\\" /\ peek(s, p + 1) = "u"
from_u32(unit) == CASE unit = "bmp" -> "x" [] unit = "ctl" -> "control" [] OTHER -> "?"

Unit(s, p) ==
    LET u == peek(s, p + 2)
    IN CASE u \notin Hex -> Fail
         [] u = "hi" /\ IsUnit(s, p + 3) /\ peek(s, p + 5) \notin Hex -> Fail
         [] u = "hi" /\ IsUnit(s, p + 3) /\ peek(s, p + 5) = "lo" -> Read("smile", p + 6)
         [] OTHER -> Read(from_u32(u), p + 3)

RECURSIVE StringFrom(_, _, _)
StringFrom(s, p, out) ==
    LET c == peek(s, p)
        e == peek(s, p + 1)
        unit == Unit(s, p)
    IN CASE c = "end" -> Fail
         [] c = "\"" -> Read(out, p + 1)
         [] c = "\\" /\ e \in {"\"", "\\"} -> StringFrom(s, p + 2, Append(out, e))
         [] c = "\\" /\ e = "n" -> StringFrom(s, p + 2, Append(out, "nl"))
         [] c = "\\" /\ e = "u" -> IF unit.ok THEN StringFrom(s, unit.pos, Append(out, unit.v)) ELSE Fail
         [] c = "\\" /\ e \notin {"\"", "\\", "n", "u"} -> Fail
         [] OTHER -> StringFrom(s, p + 1, Append(out, c))

string(s, p) == StringFrom(s, p + 1, <<>>)

TooDeepAt(d) == d + 1 > MAX_DEPTH

RECURSIVE value(_, _, _)
RECURSIVE items(_, _, _, _)
RECURSIVE members(_, _, _, _)

value(s, p0, depth) ==
    LET p == skip_ws(s, p0)
        c == peek(s, p)
        q == skip_ws(s, p + 1)
        str == string(s, p)
    IN CASE c \in {"[", "{"} /\ TooDeepAt(depth) -> Fail
         [] c = "[" /\ ~TooDeepAt(depth) -> IF peek(s, q) = "]" THEN Read(Arr(<<>>), q + 1) ELSE items(s, q, depth + 1, <<>>)
         [] c = "{" /\ ~TooDeepAt(depth) -> IF peek(s, q) = "}" THEN Read(Obj(<<>>), q + 1) ELSE members(s, q, depth + 1, <<>>)
         [] c = "\"" -> IF str.ok THEN Read(Str(str.v), str.pos) ELSE Fail
         [] c = "null" -> Read(Null, p + 1)
         [] c = "num" -> Read(Num, p + 1)
         [] OTHER -> Fail

items(s, p, depth, a) ==
    LET v == value(s, p, depth)
        q == skip_ws(s, v.pos)
    IN CASE ~v.ok -> Fail
         [] v.ok /\ peek(s, q) = "," -> items(s, q + 1, depth, Append(a, v.v))
         [] v.ok /\ peek(s, q) = "]" -> Read(Arr(Append(a, v.v)), q + 1)
         [] OTHER -> Fail

members(s, p0, depth, m) ==
    LET p == skip_ws(s, p0)
        key == string(s, p)
        colon == skip_ws(s, key.pos)
        v == value(s, colon + 1, depth)
        q == skip_ws(s, v.pos)
        new == (key.v :> v.v) @@ m
    IN CASE peek(s, p) # "\"" \/ ~key.ok -> Fail
         [] peek(s, p) = "\"" /\ key.ok /\ (peek(s, colon) # ":" \/ ~v.ok) -> Fail
         [] peek(s, p) = "\"" /\ key.ok /\ peek(s, colon) = ":" /\ v.ok /\ peek(s, q) = "," -> members(s, q + 1, depth, new)
         [] peek(s, p) = "\"" /\ key.ok /\ peek(s, colon) = ":" /\ v.ok /\ peek(s, q) = "}" -> Read(Obj(new), q + 1)
         [] OTHER -> Fail

parse(s) ==
    LET v == value(s, 1, 0)
    IN IF v.ok /\ skip_ws(s, v.pos) > Len(s) THEN v ELSE Fail

Init == input = <<>> /\ chunks = 0

Type(c) ==
    /\ chunks < MaxChunks
    /\ input' = input \o c
    /\ chunks' = chunks + 1

Next == \E c \in Chunks : Type(c)

Spec == Init /\ [][Next]_vars

(***************************************************************************)
(* Properties.                                                             *)
(***************************************************************************)

\* The grammar (RFC 8259) of what nests no deeper than d, over the text with
\* every string literal replaced by "S" and the spaces between tokens gone.
RECURSIVE Lexed(_, _)
Lexed(s, p) ==
    LET str == string(s, p)
    IN CASE p > Len(s) -> <<>>
         [] p <= Len(s) /\ s[p] = "\"" -> IF str.ok THEN <<"S">> \o Lexed(s, str.pos) ELSE <<"open">>
         [] p <= Len(s) /\ s[p] \in Space -> Lexed(s, p + 1)
         [] OTHER -> <<s[p]>> \o Lexed(s, p + 1)

Inner(s) == SubSeq(s, 2, Len(s) - 1)
RECURSIVE IsValue(_, _)
RECURSIVE AreItems(_, _, _)
IsValue(s, d) ==
    \/ s \in {<<"S">>, <<"num">>, <<"null">>}
    \/ /\ d > 0 /\ Len(s) >= 2
       /\ \E b \in {<<"[", "]">>, <<"{", "}">>} :
             s[1] = b[1] /\ s[Len(s)] = b[2] /\ (Len(s) = 2 \/ AreItems(Inner(s), d - 1, b[1] = "{"))
AreItems(s, d, keyed) ==
    LET Item(x) == IF keyed THEN Len(x) > 2 /\ x[1] = "S" /\ x[2] = ":" /\ IsValue(SubSeq(x, 3, Len(x)), d) ELSE IsValue(x, d)
    IN \/ Item(s)
       \/ \E i \in 2..(Len(s) - 1) : s[i] = "," /\ Item(SubSeq(s, 1, i - 1)) /\ AreItems(SubSeq(s, i + 1, Len(s)), d, keyed)

\* The parser accepts the JSON texts within the nesting limit and nothing
\* else: no trailing comma, no missing colon, nothing after the value.
AcceptsJson == parse(input).ok <=> IsValue(Lexed(input, 1), MAX_DEPTH)

\* What the parser has read, both serialisers write as a text the parser
\* reads as the same value: quotes, backslashes and control characters in
\* strings and keys included.
RoundTrips ==
    parse(input).ok =>
        LET v == parse(input).v
        IN parse(write_to(v)).v = v /\ parse(to_pretty(v)).v = v
           /\ parse(write_to(v)).ok /\ parse(to_pretty(v)).ok

\* A string of \u escapes is the text those UTF-16 units spell: a high and a
\* low surrogate in a row are one character, one alone is the replacement
\* character, and no unit is skipped or read twice.
Utf16(units) ==
    FoldLeft(LAMBDA a, u : IF u = "lo" /\ a.high THEN [high |-> FALSE, out |-> Append(Front(a.out), "smile")]
                           ELSE [high |-> u = "hi", out |-> Append(a.out, from_u32(u))],
             [high |-> FALSE, out |-> <<>>], units).out

DecodesUtf16 ==
    (/\ Len(input) % 3 = 0
     /\ \A i \in DOMAIN input : /\ (i % 3 = 1 => input[i] = "\\")
                               /\ (i % 3 = 2 => input[i] = "u")
                               /\ (i % 3 = 0 => input[i] \in Hex)) =>
        string(<<"\"">> \o input \o <<"\"">>, 1).v = Utf16([i \in 1..(Len(input) \div 3) |-> input[3 * i]])

(***************************************************************************)
(* The template engine of sutegi-template (lib.rs): lexer, parser and      *)
(* renderer, over a registry of partials.                                  *)
(*                                                                         *)
(* A source is a sequence of pieces: the marks "@", "{{", "}}", "{!!",     *)
(* "!!}", the words of the directives with their argument in place         *)
(* ("if(v)", "foreach(xs)" for `xs as v`, "include(p)"), and the names "v" *)
(* and "last" (for `loop.last`), which are plain text outside a mark.      *)
(* An output is a sequence of characters.                                  *)
(***************************************************************************)
CONSTANTS
    TemplatePieces,     \* the pieces a source is put together from
    MaxPieces,          \* bound: pieces of one source
    Root,               \* the context: a record of values with field "v" and "xs"
    Partials,           \* the sources of the registered templates
    MAX_PARSE_DEPTH, MAX_INCLUDE_DEPTH

VARIABLES src, pieces

templateVars == <<src, pieces>>

Text(s) == [t |-> "str", v |-> s]
Nothing == [t |-> "null", v |-> <<>>]

(***************************************************************************)
(* Lexer.                                                                  *)
(***************************************************************************)
Conds == {"if(v)", "if(!v)", "if(last)"}
Words == {"else", "endif", "endforeach"}
Includes == {"include(p)", "include(self)", "include(gone)"}
Directives == Conds \cup Words \cup Includes \cup {"foreach(xs)"}
Alphanumeric == {"v", "last"} \cup Directives

Tok(kind, arg) == [kind |-> kind, arg |-> arg]

at(s, i) == IF i <= Len(s) THEN s[i] ELSE "end"
find(s, i, mark) == SelectInSubSeq(s, i, Len(s), LAMBDA p : p = mark)

\* The token of the directive at i, which stands after an "@".  A word
\* directive ends where its word ends.
directive(s, i) ==
    CASE at(s, i) \in Conds -> <<Tok("if", at(s, i))>>
      [] at(s, i) = "foreach(xs)" -> <<Tok("foreach", "xs")>>
      [] at(s, i) \in Includes -> <<Tok("include", at(s, i))>>
      [] at(s, i) \in Words /\ at(s, i + 1) \notin Alphanumeric -> <<Tok(at(s, i), "")>>
      [] OTHER -> <<>>

Failed == <<Tok("error", "")>>

\* What an "@" in front makes literal.
Escapable == {"@", "{{"}

RECURSIVE lex(_, _)
lex(s, i) ==
    LET mark == at(s, i)
        next == at(s, i + 1)
        end == find(s, i + 1, IF mark = "{!!" THEN "!!}" ELSE "}}")
    IN CASE mark = "end" -> <<>>
         [] mark = "@" /\ next \in Escapable -> <<Tok("text", next)>> \o lex(s, i + 2)
         [] mark \in {"{{", "{!!"} /\ end = 0 -> Failed
         [] mark \in {"{{", "{!!"} /\ end > 0 -> <<Tok(mark, SubSeq(s, i + 1, end - 1))>> \o lex(s, end + 1)
         [] mark = "@" /\ next \notin Escapable /\ directive(s, i + 1) # <<>> -> directive(s, i + 1) \o lex(s, i + 2)
         [] OTHER -> <<Tok("text", mark)>> \o lex(s, i + 1)

(***************************************************************************)
(* Parser.  parse_tokens reads tokens until one of `until` (or the end     *)
(* when there is none to wait for) and returns the nodes and the position  *)
(* it stopped at; the caller consumes the stop token.                      *)
(***************************************************************************)
Parsed(nodes, pos) == [ok |-> TRUE, nodes |-> nodes, pos |-> pos]
NotParsed == [ok |-> FALSE, nodes |-> <<>>, pos |-> 0]

IfNode(cond, then, els) == [kind |-> "if", arg |-> cond, body |-> then, els |-> els]
Leaf(kind, arg) == [kind |-> kind, arg |-> arg, body |-> <<>>, els |-> <<>>]
KindAt(toks, p) == IF p <= Len(toks) THEN toks[p].kind ELSE "end"

StopsOf(kind) == IF kind = "if" THEN {"else", "endif"} ELSE {"endforeach"}

RECURSIVE parse_tokens(_, _, _, _, _)
parse_tokens(toks, pos, until, depth, nodes) ==
    LET tok == toks[pos]
        kind == KindAt(toks, pos)
        body == parse_tokens(toks, pos + 1, StopsOf(kind), depth + 1, <<>>)
        els == parse_tokens(toks, body.pos + 1, {"endif"}, depth + 1, <<>>)
        Continue(node, p) == parse_tokens(toks, p, until, depth, Append(nodes, node))
    IN IF depth > MAX_PARSE_DEPTH THEN NotParsed
       ELSE CASE kind = "end" -> IF until = {} THEN Parsed(nodes, pos) ELSE NotParsed
              [] kind \in Words -> IF kind \in until THEN Parsed(nodes, pos) ELSE NotParsed
              [] kind \in {"text", "include"} -> Continue(Leaf(kind, tok.arg), pos + 1)
              [] kind \in {"{{", "{!!"} -> IF tok.arg = <<>> THEN NotParsed ELSE Continue(Leaf(kind, tok.arg), pos + 1)
              [] kind = "if" /\ body.ok /\ KindAt(toks, body.pos) = "else" /\ els.ok ->
                   Continue(IfNode(tok.arg, body.nodes, els.nodes), els.pos + 1)
              [] kind = "if" /\ body.ok /\ KindAt(toks, body.pos) = "endif" ->
                   Continue(IfNode(tok.arg, body.nodes, <<>>), body.pos + 1)
              [] kind = "foreach" /\ body.ok ->
                   Continue([Leaf(kind, tok.arg) EXCEPT !.body = body.nodes], body.pos + 1)
              [] OTHER -> NotParsed

compile(s) == parse_tokens(lex(s, 1), 1, {}, 0, <<>>)

(***************************************************************************)
(* Renderer.  scopes is the stack of loop variables, newest last.          *)
(***************************************************************************)
\* A path's value: the innermost loop variable of that name, or the root's.
lookup(path, scopes) ==
    LET bound == SelectLastInSeq(scopes, LAMBDA b : b.name = IF path = <<"last">> THEN "loop" ELSE "v")
    IN CASE path = <<"last">> -> IF bound = 0 THEN Nothing ELSE scopes[bound].value
         [] path = <<"v">> -> IF bound = 0 THEN Root.v ELSE scopes[bound].value
         [] OTHER -> Nothing

html_escape(s) == FlattenSeq([i \in DOMAIN s |-> IF s[i] = "<" THEN <<"&", "l", "t", ";">> ELSE <<s[i]>>])

display(v) == IF v.t = "bool" THEN <<IF v.v THEN "true" ELSE "false">> ELSE v.v

is_truthy(v) ==
    CASE v.t = "null" -> FALSE
      [] v.t = "bool" -> v.v
      [] v.t = "str" -> v.v # <<>>

CondHolds(cond, scopes) ==
    CASE cond = "if(v)" -> is_truthy(lookup(<<"v">>, scopes))
      [] cond = "if(!v)" -> ~is_truthy(lookup(<<"v">>, scopes))
      [] cond = "if(last)" -> is_truthy(lookup(<<"last">>, scopes))

Out(text) == [ok |-> TRUE, text |-> text]
NoOut == [ok |-> FALSE, text |-> <<>>]
Then(a, b) == IF a.ok /\ b.ok THEN Out(a.text \o b.text) ELSE NoOut

partial(name) == CASE name = "include(p)" -> "p" [] name = "include(self)" -> "self" [] OTHER -> "gone"

\* One iteration's scopes.
Iteration(scopes, list, i) ==
    scopes \o <<[name |-> "v", value |-> list[i]],
                [name |-> "loop", value |-> [t |-> "bool", v |-> i = Len(list)]]>>

RECURSIVE render_nodes(_, _, _)
\* A partial, rendered where it is included.
IncludedBare(name, scopes, depth) == IF depth < MAX_INCLUDE_DEPTH /\ name \in DOMAIN Partials THEN render_nodes(compile(Partials[name]).nodes, <<>>, depth + 1) ELSE NoOut
Included(name, scopes, depth) ==
    IF depth < MAX_INCLUDE_DEPTH /\ name \in DOMAIN Partials
    THEN render_nodes(compile(Partials[name]).nodes, scopes, depth + 1)
    ELSE NoOut

render_nodes(nodes, scopes, depth) ==
    LET Interp(path, raw) == LET s == display(lookup(path, scopes)) IN Out(IF raw THEN s ELSE html_escape(s))
        Each(n) ==
            CASE n.kind = "text" -> Out(<<n.arg>>)
              [] n.kind = "{{" -> Interp(n.arg, FALSE)
              [] n.kind = "{!!" -> Interp(n.arg, TRUE)
              [] n.kind = "if" -> render_nodes(IF CondHolds(n.arg, scopes) THEN n.body ELSE n.els, scopes, depth)
              [] n.kind = "foreach" ->
                   FoldLeft(LAMBDA out, i : Then(out, render_nodes(n.body, Iteration(scopes, Root.xs, i), depth)),
                            Out(<<>>), [i \in DOMAIN Root.xs |-> i])
              [] n.kind = "include" -> Included(partial(n.arg), scopes, depth)
    IN IF nodes = <<>> THEN Out(<<>>)
       ELSE Then(Each(Head(nodes)), render_nodes(Tail(nodes), scopes, depth))

render(s) == IF compile(s).ok THEN render_nodes(compile(s).nodes, <<>>, 0) ELSE NoOut

TemplateInit == src = <<>> /\ pieces = 0

Extend(c) ==
    /\ pieces < MaxPieces
    /\ src' = src \o c
    /\ pieces' = pieces + 1

TemplateNext == \E c \in TemplatePieces : Extend(c)

TemplateSpec == TemplateInit /\ [][TemplateNext]_vars

(***************************************************************************)
(* Properties.                                                             *)
(***************************************************************************)

\* The grammar of the blocks, over the kinds of the tokens: what may stand
\* between two block tokens is a block with at most d levels inside.
RECURSIVE IsBlock(_, _)
IsBlock(s, d) ==
    \/ s = <<>>
    \/ s[1] \in {"text", "include", "{{", "{!!"} /\ IsBlock(Tail(s), d)
    \/ /\ d > 0
       /\ \E e \in 2..Len(s) :
             /\ IsBlock(SubSeq(s, e + 1, Len(s)), d)
             /\ \/ s[1] = "foreach" /\ s[e] = "endforeach" /\ IsBlock(SubSeq(s, 2, e - 1), d - 1)
                \/ s[1] = "if" /\ s[e] = "endif" /\ IsBlock(SubSeq(s, 2, e - 1), d - 1)
                \/ /\ s[1] = "if" /\ s[e] = "endif"
                   /\ \E m \in 2..(e - 1) : /\ s[m] = "else"
                                            /\ IsBlock(SubSeq(s, 2, m - 1), d - 1)
                                            /\ IsBlock(SubSeq(s, m + 1, e - 1), d - 1)

\* A source compiles exactly when its blocks are properly nested, within the
\* limit: every @if and @foreach closed by its own end, an @else only inside
\* an @if and once.
CompilesWhatNests ==
    LET toks == lex(src, 1)
    IN compile(src).ok <=> /\ \A i \in DOMAIN toks : toks[i].kind \in {"{{", "{!!"} => toks[i].arg # <<>>
                           /\ IsBlock([i \in DOMAIN toks |-> toks[i].kind], MAX_PARSE_DEPTH)

\* An @include renders as if the partial's text stood in its place: it sees
\* the loop variables around it and leaves none of its own behind, on either
\* side of a branch, in a loop, twice in a row.
Inlined ==
    FlattenSeq([i \in DOMAIN src |->
        CASE src[i] = "@" /\ at(src, i + 1) = "include(p)" -> <<>>
          [] src[i] = "include(p)" /\ i > 1 /\ src[i - 1] = "@" -> Partials.p
          [] OTHER -> <<src[i]>>])

IncludesAreInlined ==
    (/\ \A i \in DOMAIN src : /\ (src[i] = "@" => at(src, i + 1) \in Directives)
                            /\ (src[i] = "{{" => at(src, i + 2) = "}}")
     /\ compile(Inlined).ok) => render(src) = render(Inlined)

\* Without raw interpolation no markup of the data reaches the output, from
\* the root, from a loop or through an include.
DataIsEscaped == (~Contains(src, "{!!")) => ~Contains(render(src).text, "<")

\* Any text of names and marks comes back as it was when "@" is written "@@"
\* and "{{" is written "@{{" (raw marks have no escape).
Quoted(s) == FlattenSeq([i \in DOMAIN s |-> IF s[i] \in {"@", "{{"} THEN <<"@", s[i]>> ELSE <<s[i]>>])
LiteralsComeBack == (~Contains(src, "{!!")) => render(Quoted(src)) = Out(src)

=============================================================================
