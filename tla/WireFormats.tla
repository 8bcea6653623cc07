---------------------------- MODULE WireFormats ----------------------------
(***************************************************************************)
(* Four readers of what a peer sends: the server's request parser, the     *)
(* client's response reader, the form decoder and the WebSocket receiver.  *)
(***************************************************************************)
EXTENDS Integers, Sequences, FiniteSets, SequencesExt, Functions

(***************************************************************************)
(* parse_request_impl of sutegi-http/src/lib.rs on one kept-alive          *)
(* connection.  The wire is a sequence of items, each one line or one unit *)
(* of a body: "get" is a request line, "blank" an empty line, "te" a       *)
(* Transfer-Encoding header, "cl0" .. "cl3" a Content-Length, "nan" one    *)
(* that is not 1*DIGIT, "x" a header  without meaning for framing.  A     *)
(* client writes whole requests, with bodies that look like requests, and  *)
(* may hang up anywhere.  An item may be there already, arrive whole or    *)
(* arrive in two pieces; time counts the receives that had to wait.        *)
(***************************************************************************)


CONSTANTS
    Requests,        \* what a client may send: [heads, body]
    MaxPipelined,    \* bound: requests on one connection
    MaxHeaderBytes,  \* Limits::max_header_bytes, in lines
    MaxBody,         \* Limits::max_body
    HeaderTimeout    \* Limits::header_timeout, in receives

VARIABLES
    script,    \* the requests the client writes
    wire,      \* the items it gets out before it hangs up
    pos,       \* items consumed
    phase,     \* "line", "headers", "body", "closed"
    start,     \* position at which this request began
    lines,     \* header lines read of it
    length,    \* its Content-Length, or None
    filled,    \* body units read
    clock,     \* receives waited for since the deadline was set
    handed,    \* requests given to the handler: [from, to, lines, length]
    status     \* status of the refusal, or 0

vars == <<script, wire, pos, phase, start, lines, length, filled, clock, handed, status>>

None == -1
LengthOf == [cl0 |-> 0, cl1 |-> 1, cl2 |-> 2, cl3 |-> 3]   \* parse_content_length
Numerals == DOMAIN LengthOf
Line(r) == <<"get">> \o r.heads \o <<"blank">>
Whole(r) == Line(r) \o [i \in 1 .. r.body |-> "get"]

Init ==
    /\ script \in UNION {[1 .. n -> Requests] : n \in 1 .. MaxPipelined}
    /\ \E cut \in 0 .. Len(FlattenSeq([i \in DOMAIN script |-> Whole(script[i])])) :
          wire = SubSeq(FlattenSeq([i \in DOMAIN script |-> Whole(script[i])]), 1, cut)
    /\ pos = 0 /\ phase = "line" /\ start = 0 /\ lines = <<>> /\ length = None
    /\ filled = 0 /\ clock = 0 /\ handed = <<>> /\ status = 0

Refuse(code) ==
    /\ phase' = "closed" /\ status' = code
    /\ UNCHANGED <<script, wire, pos, start, lines, length, filled, clock, handed>>

HangUp ==       \* Ok(None), or an io::Error
    /\ phase' = "closed"
    /\ UNCHANGED <<script, wire, pos, start, lines, length, filled, clock, handed, status>>

\* How an item arrives: with earlier ones, after a wait, in two pieces.
Arrivals == {0, 1, 2}
Eof == pos = Len(wire)
Item == wire[pos + 1]

\* read_line_capped: the deadline is looked at only when a piece of a line is
\* in and the rest is not.
LineTimedOut(how) == how = 2 /\ clock + 1 > HeaderTimeout
LineTooLong == Len(lines) + 1 > MaxHeaderBytes

ReadLine(how) ==
    /\ phase = "line"
    /\ IF Eof THEN HangUp
       ELSE IF LineTooLong THEN Refuse(413)
       ELSE IF LineTimedOut(how) THEN Refuse(408)
       ELSE /\ pos' = pos + 1
            /\ clock' = clock + how
            /\ lines' = <<Item>>
            /\ phase' = "headers"
            /\ UNCHANGED <<script, wire, start, length, filled, handed, status>>


HeaderRefusal(h) ==
    CASE h = "te" -> 501
      [] h = "nan" -> 400
      [] h \in Numerals /\ length \notin {None, LengthOf[h]} -> 400
      [] OTHER -> 0

ReadHeader(how) ==
    /\ phase = "headers"
    /\ IF Eof       \* taken for the end of the headers
       THEN phase' = "body" /\ UNCHANGED <<script, wire, pos, start, lines, length,
                                           filled, clock, handed, status>>
       ELSE IF LineTooLong THEN Refuse(413)
       ELSE IF LineTimedOut(how) THEN Refuse(408)
       ELSE IF HeaderRefusal(Item) # 0 THEN Refuse(HeaderRefusal(Item))
       ELSE /\ pos' = pos + 1
            /\ clock' = clock + how
            /\ lines' = Append(lines, Item)
            /\ length' = IF Item \in Numerals THEN LengthOf[Item] ELSE length
            /\ phase' = IF Item = "blank" THEN "body" ELSE "headers"
            /\ UNCHANGED <<script, wire, start, filled, handed, status>>

BodyLength == IF length = None THEN 0 ELSE length

ReadBody(how) ==
    /\ phase = "body" /\ filled < BodyLength
    /\ IF BodyLength > MaxBody THEN Refuse(413)
       ELSE IF Eof THEN HangUp
       ELSE IF filled + 1 < BodyLength /\ clock + how > HeaderTimeout THEN Refuse(408)
       ELSE /\ pos' = pos + 1
            /\ filled' = filled + 1
            /\ clock' = clock + how
            /\ UNCHANGED <<script, wire, phase, start, lines, length, handed, status>>

\* The request goes to the handler and the loop of handle_connection starts
\* over with a deadline of its own.
Hand ==
    /\ phase = "body" /\ filled = BodyLength
    /\ handed' = Append(handed, [from |-> start, to |-> pos, lines |-> lines,
                                 length |-> BodyLength, time |-> clock])
    /\ start' = pos /\ phase' = "line" /\ lines' = <<>> /\ length' = None
    /\ filled' = 0 /\ clock' = 0
    /\ UNCHANGED <<script, wire, pos, status>>

Next == Hand \/ \E how \in Arrivals : ReadLine(how) \/ ReadHeader(how) \/ ReadBody(how)

Spec == Init /\ [][Next]_vars

-----------------------------------------------------------------------------
(* Properties.                                                             *)

Offset(i) == FoldLeft(LAMBDA n, r : n + Len(Whole(r)), 0, SubSeq(script, 1, i))

\* The handler only sees requests the client wrote: each handed request starts
\* where one of the script starts, in order, and ends where that one ends (or
\* where the client hung up inside its headers).  No body is read as a request.
HandsOverWhatWasSent ==
    \A i \in DOMAIN handed :
        /\ handed[i].from = Offset(i - 1)
        /\ handed[i].to = Offset(i) \/ handed[i].to = Len(wire)

\* A request whose length the server and the client could disagree on is never
\* handed over: no Transfer-Encoding, no unreadable and no two different
\* Content-Lengths, within the body limit.
NoAmbiguousLength ==
    \A i \in DOMAIN handed :
        LET heads == ToSet(handed[i].lines) IN
        /\ heads \cap {"te", "nan"} = {}
        /\ Cardinality(heads \cap Numerals) <= 1
        /\ handed[i].length <= MaxBody

(***************************************************************************)
(* The response side of the outbound HTTP client of sutegi-storage         *)
(* (transport.rs, PlainHttp): read_response over a connection that closes  *)
(* after the answer, or breaks before its end.                             *)
(*                                                                         *)
(* The stream is a sequence of tokens: a status line, header lines, a      *)
(* blank line, chunk-size lines and bytes.  A line that was cut off counts *)
(* as missing, as read_line's "connection closed mid-response".            *)
(***************************************************************************)


CONSTANTS
    Statuses,    \* final statuses of an answer
    MaxLen,      \* bound: bytes of a body
    MaxInterim,  \* bound: 1xx blocks before the answer
    max_body     \* the client's cap on a body

VARIABLES
    asked,       \* "HEAD" or "GET"
    answer,      \* what the server says, [interim, status, framing, body, cuts]
    arrives      \* how many tokens of it arrive

transportVars == <<asked, answer, arrives>>

TransportLine(kind, v) == [is |-> kind, v |-> v]
Blank == TransportLine("blank", 0)
Bytes(body) == [i \in DOMAIN body |-> TransportLine("byte", body[i])]

(***************************************************************************)
(* The server.  A body is framed by its length, in chunks (the lengths in  *)
(* cuts), or by the end of the connection; HEAD, 204 and 304 carry none.   *)
(***************************************************************************)
Chunked(body, cuts) ==
    LET StartOf(i) == FoldLeft(LAMBDA a, b : a + b, 0, SubSeq(cuts, 1, i - 1))
    IN  FlattenSeq([i \in DOMAIN cuts |->
            <<TransportLine("size", cuts[i])>> \o Bytes(SubSeq(body, StartOf(i) + 1, StartOf(i) + cuts[i])) \o <<Blank>>])
        \o <<TransportLine("size", 0), TransportLine("header", 0), Blank>>

NoBody(method, st) == method = "HEAD" \/ st \in {204, 304}

Wire(method, a) ==
    LET interim == FlattenSeq([i \in 1..a.interim |-> <<TransportLine("status", 100), Blank>>])
        head == <<TransportLine("status", a.status), TransportLine("header", 0)>>
        framing == CASE a.framing = "length" -> <<TransportLine("length", Len(a.body))>>
                     [] a.framing = "chunked" -> <<TransportLine("chunked", 0)>>
                     [] a.framing = "close" -> <<>>
        body == IF NoBody(method, a.status) THEN <<>>
                ELSE IF a.framing = "chunked" THEN Chunked(a.body, a.cuts) ELSE Bytes(a.body)
    IN  interim \o head \o framing \o <<Blank>> \o body

(***************************************************************************)
(* The client.  Each reader returns what it read and the position after    *)
(* it, or Failed.                                                          *)
(***************************************************************************)
Failed == [ok |-> FALSE]
IsByte(s, i) == i <= Len(s) /\ s[i].is = "byte"

\* read_headers: up to the blank line.
HeadEnd(s, i) ==
    LET ends == {j \in i..Len(s) : s[j].is = "blank"}
    IN  IF ends = {} THEN 0 ELSE CHOOSE j \in ends : \A k \in ends : j <= k

\* The loop over interim blocks: the first head whose status is no 1xx.
FinalHead(s) ==
    LET From[i \in 1..(Len(s) + 1)] ==
            IF i > Len(s) \/ s[i].is # "status" \/ HeadEnd(s, i) = 0 THEN [status |-> 0, from |-> 0, to |-> 0]
            ELSE IF s[i].v \in 100..199 THEN From[HeadEnd(s, i) + 1]
            ELSE [status |-> s[i].v, from |-> i, to |-> HeadEnd(s, i)]
    IN  From[1]

\* read_exact
TakeBytes(s, i, n) ==
    IF \A j \in i..(i + n - 1) : IsByte(s, j)
    THEN [ok |-> TRUE, body |-> [j \in 1..n |-> s[i + j - 1].v], next |-> i + n]
    ELSE Failed

read_chunked(s, transportStart) ==
    LET From[i \in 1..(Len(s) + 1), got \in 0..MaxLen] ==
            IF i > Len(s) \/ s[i].is # "size" THEN Failed
            ELSE IF s[i].v = 0 THEN
                 IF HeadEnd(s, i) = 0 THEN Failed ELSE [ok |-> TRUE, body |-> <<>>]
            ELSE IF got + s[i].v > max_body THEN Failed
            ELSE LET part == TakeBytes(s, i + 1, s[i].v)
                 IN  IF ~part.ok \/ part.next > Len(s) \/ s[part.next].is # "blank" THEN Failed
                     ELSE LET rest == From[part.next + 1, got + s[i].v]
                          IN  IF rest.ok THEN [ok |-> TRUE, body |-> part.body \o rest.body] ELSE Failed
    IN  From[transportStart, 0]

\* No framing: whatever comes until the end.
ReadToEnd(s, i) == IF Len(s) - i + 1 > max_body THEN Failed ELSE TakeBytes(s, i, Len(s) - i + 1)

bodyless(method, st) == method = "HEAD" \/ st \in {204, 304}

read_response(s, method) ==
    LET head == FinalHead(s)
        transportLines == {s[i] : i \in head.from..head.to}
        lengths == {l.v : l \in {x \in transportLines : x.is = "length"}}
        body == CASE bodyless(method, head.status) -> [ok |-> TRUE, body |-> <<>>]
                  [] ~bodyless(method, head.status) /\ (\E l \in transportLines : l.is = "chunked") -> read_chunked(s, head.to + 1)
                  [] OTHER -> IF lengths = {} THEN ReadToEnd(s, head.to + 1)
                              ELSE LET n == CHOOSE n \in lengths : TRUE
                                   IN  IF n > max_body THEN Failed ELSE TakeBytes(s, head.to + 1, n)
    IN  IF head.to = 0 THEN Failed
        ELSE IF ~body.ok THEN Failed
        ELSE [ok |-> TRUE, status |-> head.status, body |-> body.body]

(***************************************************************************)
(* Every answer, and every way it can break off.                           *)
(***************************************************************************)
Bodies == UNION {[1..n -> {1, 2}] : n \in 0..MaxLen}
CutsOf(n) == {c \in UNION {[1..k -> 1..n] : k \in 0..n} : FoldLeft(LAMBDA a, b : a + b, 0, c) = n}
Answers == {[interim |-> i, status |-> st, framing |-> f, body |-> b, cuts |-> c] :
               i \in 0..MaxInterim, st \in Statuses, f \in {"length", "chunked", "close"},
               b \in Bodies, c \in UNION {CutsOf(n) : n \in 0..MaxLen}}

TransportInit ==
    /\ asked \in {"GET", "HEAD"}
    /\ answer \in {a \in Answers : a.cuts \in CutsOf(Len(a.body))}
    /\ arrives = 0

\* More of the answer arrives.
Arrive ==
    /\ arrives < Len(Wire(asked, answer))
    /\ arrives' = arrives + 1
    /\ UNCHANGED <<asked, answer>>

TransportNext == Arrive
TransportSpec == TransportInit /\ [][TransportNext]_transportVars

Result == read_response(SubSeq(Wire(asked, answer), 1, arrives), asked)
TransportWhole == arrives = Len(Wire(asked, answer))
Fits == NoBody(asked, answer.status) \/ Len(answer.body) <= max_body

(***************************************************************************)
(* If the connection ends here, the call returns the answer as it was sent *)
(* (a HEAD, 204 or 304 without a body), or an error: a broken-off or       *)
(* oversized answer is never taken for a whole one.  Only an answer framed *)
(* by the end of the connection cannot be told from its beginning.         *)
(***************************************************************************)
WholeOrError ==
    IF Result.ok
    THEN /\ Result.status = answer.status
         /\ Len(Result.body) <= max_body
         /\ IF NoBody(asked, answer.status) THEN Result.body = <<>>
            ELSE \/ TransportWhole /\ Result.body = answer.body
                 \/ answer.framing = "close" /\ IsPrefix(Result.body, answer.body)
    ELSE ~TransportWhole \/ ~Fits

(***************************************************************************)
(* Query strings and form bodies (sutegi-web/src/lib.rs): url_decode,      *)
(* parse_urlencoded and form_to_json, over strings as sequences of         *)
(* characters.  A character is a letter, one of the marks the format gives *)
(* a meaning, or a hex digit; Hex gives a byte its two digits.             *)
(***************************************************************************)


CONSTANTS Keys, Values,    \* the texts a form holds
          Hex,             \* the two digits of each character's code
          MaxPairs         \* bound

VARIABLES form,       \* the pairs the client meant
          formWire,       \* what it sent
          formPhase

formVars == <<form, formWire, formPhase>>

\* The WHATWG encoding a browser applies: letters stand for themselves.
Plain == {"a", "2", "5"}
Encode(text) ==
    FlattenSeq([i \in DOMAIN text |->
        CASE text[i] \in Plain -> <<text[i]>>
          [] text[i] = " " -> <<"+">>
          [] OTHER -> <<"%">> \o Hex[text[i]]])

EncodePair(p) == Encode(p.key) \o <<"=">> \o Encode(p.value)
EncodeForm(f) == FoldLeft(LAMBDA acc, p : IF acc = << >> THEN EncodePair(p)
                                          ELSE acc \o <<"&">> \o EncodePair(p), << >>, f)

\* The character two digits stand for; `hex_val` knows no other marks.
HexPair(a, b) == {c \in DOMAIN Hex : Hex[c] = <<a, b>>}

\* url_decode: left to right, a "%" with two hex digits behind it is their
\* character, any other "%" is itself.
url_decode(s) ==
    LET step[i \in 1..(Len(s) + 1)] ==
            IF i > Len(s) THEN << >>
            ELSE IF s[i] = "+" THEN <<" ">> \o step[i + 1]
            ELSE IF s[i] = "%" /\ i + 2 <= Len(s) /\ HexPair(s[i + 1], s[i + 2]) # {}
                 THEN <<CHOOSE c \in HexPair(s[i + 1], s[i + 2]) : TRUE>> \o step[i + 3]
            ELSE <<s[i]>> \o step[i + 1]
    IN  step[1]

\* str::split: the pieces between the marks.
split(s, mark) ==
    LET cuts == <<0>> \o SelectSeq([i \in DOMAIN s |-> i], LAMBDA i : s[i] = mark)
                      \o <<Len(s) + 1>>
    IN  [k \in 1..(Len(cuts) - 1) |-> SubSeq(s, cuts[k] + 1, cuts[k + 1] - 1)]

\* The pairs of the input, empty pieces skipped; without a "=" the value is empty.
pairs(input) ==
    LET pieces == SelectSeq(split(input, "&"), LAMBDA p : p # << >>)
        cut(p) == IF \E i \in DOMAIN p : p[i] = "="
                  THEN SelectInSeq(p, LAMBDA c : c = "=") ELSE Len(p) + 1
    IN  [k \in DOMAIN pieces |->
            [key |-> url_decode(SubSeq(pieces[k], 1, cut(pieces[k]) - 1)),
             value |-> url_decode(SubSeq(pieces[k], cut(pieces[k]) + 1, Len(pieces[k])))]]

\* Later keys overwrite earlier ones.
parse_urlencoded(input) ==
    LET ps == pairs(input)
    IN  [k \in {ps[i].key : i \in DOMAIN ps} |->
            LET i == Max({j \in DOMAIN ps : ps[j].key = k}) IN ps[i].value]

\* form_to_json: "key[]" appends to the list at key, unless a plain value is
\* there; a plain key overwrites what is there.
\* Values are not typed here (infer_json_type): a list is told from a value.
form_to_json(input) ==
    LET ps == pairs(input)
        isList(k) == Len(k) >= 2 /\ SubSeq(k, Len(k) - 1, Len(k)) = <<"[", "]">>
        base(k) == IF isList(k) THEN SubSeq(k, 1, Len(k) - 2) ELSE k
        put(map, k, v) == [x \in DOMAIN map \cup {k} |-> IF x = k THEN v ELSE map[x]]
        add(map, p) ==
            LET k == base(p.key) IN
            IF ~isList(p.key) THEN put(map, k, [list |-> FALSE, items |-> <<p.value>>])
            ELSE IF k \notin DOMAIN map THEN put(map, k, [list |-> TRUE, items |-> <<p.value>>])
            ELSE IF map[k].list THEN [map EXCEPT ![k].items = Append(@, p.value)]
            ELSE map
    IN  FoldLeft(add, [x \in {} |-> [list |-> FALSE, items |-> << >>]], ps)
-----------------------------------------------------------------------------
FormInit ==
    /\ formPhase = "meant"
    /\ formWire = << >>
    /\ form \in UNION {[1..n -> [key : Keys, value : Values]] : n \in 1..MaxPairs}

\* The browser sends the form.
Send == formPhase = "meant" /\ formPhase' = "sent" /\ formWire' = EncodeForm(form) /\ UNCHANGED form

FormNext == Send
FormSpec == FormInit /\ [][FormNext]_formVars

\* What a browser encodes, whatever marks the texts hold, is what the handler
\* reads back: every key with the last value given for it.
FormsComeBack ==
    formPhase = "sent" =>
        /\ pairs(formWire) = form
        /\ \A i \in DOMAIN form :
              (\A j \in DOMAIN form : j > i => form[j].key # form[i].key)
              => parse_urlencoded(formWire)[form[i].key] = form[i].value

\* A list keeps every item sent for it in order, unless the form holds a plain
\* value of the same name: then the last such value is what the handler gets.
ListsKeepTheirItems ==
    formPhase = "sent" =>
        \A k \in DOMAIN form_to_json(formWire) :
            LET entry == form_to_json(formWire)[k]
                items == SelectSeq(form, LAMBDA p : p.key = k \o <<"[", "]">>)
                plain == SelectSeq(form, LAMBDA p : p.key = k)
            IN  /\ entry.list => plain = << >> /\ entry.items = [i \in DOMAIN items |-> items[i].value]
                /\ ~entry.list => entry.items = <<Last(plain).value>>

(***************************************************************************)
(* The receiving side of one WebSocket connection: the incremental frame   *)
(* decoder of sutegi-ws/src/protocol.rs and the message assembly of        *)
(* reactor.rs (parse_frames, handle_frame, deliver), fed a frame sequence  *)
(* in chunks cut anywhere.  A payload is a sequence of symbols: "a" is a   *)
(* whole character, "hi" and "lo" the two halves of one.  The length       *)
(* thresholds of the three length forms are constants.                     *)
(***************************************************************************)

CONSTANTS
    FrameInputs, \* frame sequences a client may send
    Len7,        \* longest payload of the 7-bit length form (125)
    Len16,       \* longest payload of the 16-bit form (65535)
    MaxFrame,    \* WsConfig::max_frame
    MaxMessage   \* WsConfig::max_message

VARIABLES
    frames,     \* the frames on the wire
    got,        \* bytes read so far
    used,       \* frames drained from rbuf
    rx          \* assembly, delivered messages, pongs sent, code of the close sent

framesVars == <<frames, got, used, rx>>

Control == {"close", "ping", "pong"}
NoMessage == [op |-> "none"]

Ext(f) == CASE f.form = 7 -> 0 [] f.form = 16 -> 2 [] f.form = 64 -> 8
Size(f) == 2 + Ext(f) + 4 + Len(f.payload)
SizeUpTo(i) == FoldLeft(LAMBDA n, f : n + Size(f), 0, SubSeq(frames, 1, i))

\* ProtocolError::close_code
CloseCode(err) == CASE err = "TooBig" -> 1009 [] err = "BadUtf8" -> 1007 [] OTHER -> 1002

\* decode_frame on the first n bytes of frame f.
DecodeFrame(f, n) ==
    IF n < 2 THEN "more"
    ELSE IF f.flaw # "none" THEN f.flaw
    ELSE IF f.op \in Control /\ (~f.fin \/ f.form # 7) THEN "BadControlFrame"
    ELSE IF n < 2 + Ext(f) THEN "more"
    ELSE IF (f.form = 16 /\ Len(f.payload) <= Len7)
             \/ (f.form = 64 /\ Len(f.payload) <= Len16) THEN "NonMinimalLength"
    ELSE IF Len(f.payload) > MaxFrame THEN "TooBig"
    ELSE IF n < Size(f) THEN "more" ELSE "frame"

\* encode_frame's choice of length form.
LengthForm(len) == IF len <= Len7 THEN 7 ELSE IF len <= Len16 THEN 16 ELSE 64

\* String::from_utf8
Utf8(data) ==
    \A i \in DOMAIN data :
        /\ data[i] = "hi" => i < Len(data) /\ data[i + 1] = "lo"
        /\ data[i] = "lo" => i > 1 /\ data[i - 1] = "hi"

Fail(r, err) ==     \* protocol_error, begin_close
    IF r.code # 0 THEN r ELSE [r EXCEPT !.code = CloseCode(err), !.assembly = NoMessage]

\* parse_close
ParseClose(payload) ==
    CASE payload = <<>> -> "ok"
      [] payload = <<"a">> -> "BadCloseFrame"
      [] payload[1] = "code" -> IF Utf8(Tail(Tail(payload))) THEN "ok" ELSE "BadUtf8"
      [] OTHER -> "BadCloseFrame"

Deliver(r, op, data) ==
    IF op = "text" /\ ~Utf8(data) THEN Fail(r, "BadUtf8")
    ELSE [r EXCEPT !.delivered = Append(@, [op |-> op, data |-> data])]

HandleData(r, f) ==
    IF r.code # 0 THEN r
    ELSE IF r.assembly # NoMessage THEN Fail(r, "BadFragmentation")
    ELSE IF f.fin THEN Deliver(r, f.op, f.payload)
    ELSE [r EXCEPT !.assembly = [op |-> f.op, data |-> f.payload]]

\* Mutant: the size of the frame is checked, not of the message so far.
HandleContinuation_FrameSize(r, f) ==
    IF r.code # 0 THEN r
    ELSE IF r.assembly = NoMessage THEN Fail(r, "BadFragmentation")
    ELSE LET q    == [r EXCEPT !.assembly = NoMessage]
             data == r.assembly.data \o f.payload
         IN  IF Len(f.payload) > MaxMessage THEN Fail(q, "TooBig")
             ELSE IF f.fin THEN Deliver(q, r.assembly.op, data)
             ELSE [q EXCEPT !.assembly = [op |-> r.assembly.op, data |-> data]]

HandleContinuation(r, f) ==
    IF r.code # 0 THEN r
    ELSE IF r.assembly = NoMessage THEN Fail(r, "BadFragmentation")
    ELSE LET q    == [r EXCEPT !.assembly = NoMessage]
             data == r.assembly.data \o f.payload
         IN  IF Len(data) > MaxMessage THEN Fail(q, "TooBig")
             ELSE IF f.fin THEN Deliver(q, r.assembly.op, data)
             ELSE [q EXCEPT !.assembly = [op |-> r.assembly.op, data |-> data]]

HandleFrame(r, f) ==
    CASE f.op = "ping"  -> [r EXCEPT !.pongs = @ + 1]
      [] f.op = "pong"  -> r
      [] f.op = "close" ->
            IF ParseClose(f.payload) # "ok" THEN Fail(r, ParseClose(f.payload))
            ELSE [r EXCEPT !.code = IF @ = 0 THEN 1000 ELSE @, !.gone = TRUE]
      [] f.op \in {"text", "binary"} -> HandleData(r, f)
      [] f.op = "cont" -> HandleContinuation(r, f)

\* One turn of parse_frames' loop on frame i; a decode error leaves rbuf as it
\* was before the call.
ParseStep(acc, i, n) ==
    IF acc.stop \/ acc.rx.gone THEN acc
    ELSE LET d == DecodeFrame(frames[i], n - SizeUpTo(i - 1)) IN
         IF d = "more" THEN [acc EXCEPT !.stop = TRUE]
         ELSE IF d = "frame"
              THEN [acc EXCEPT !.rx = HandleFrame(@, frames[i]), !.used = i]
         ELSE [acc EXCEPT !.rx = Fail(@, d), !.stop = TRUE, !.used = used]

ParseFrames(n) ==
    FoldLeft(LAMBDA acc, i : ParseStep(acc, i, n),
             [rx |-> rx, used |-> used, stop |-> FALSE],
             [k \in 1 .. Len(frames) - used |-> used + k])

FramesInit ==
    /\ frames \in FrameInputs
    /\ got = 0 /\ used = 0
    /\ rx = [assembly |-> NoMessage, delivered |-> <<>>, pongs |-> 0, code |-> 0,
             gone |-> FALSE]

HandleReadable(n) ==
    /\ ~rx.gone
    /\ got' = got + n
    /\ LET acc == ParseFrames(got + n) IN rx' = acc.rx /\ used' = acc.used
    /\ UNCHANGED frames

FramesNext == \E n \in 1 .. SizeUpTo(Len(frames)) - got : HandleReadable(n)

FramesSpec == FramesInit /\ [][FramesNext]_vars

-----------------------------------------------------------------------------
(* What a whole frame sequence means, stated without the machine.          *)

Starts(i) == frames[i].op \in {"text", "binary"}

\* A fragmented message started before frame i is still unfinished there.
OpenAt(i) ==
    \E j \in 1 .. i - 1 :
        /\ Starts(j) /\ ~frames[j].fin
        /\ \A k \in j + 1 .. i - 1 : ~(frames[k].op = "cont" /\ frames[k].fin)

StartOf(i) == IF Starts(i) THEN i
              ELSE CHOOSE j \in 1 .. i - 1 :
                      Starts(j) /\ \A k \in j + 1 .. i - 1 : ~Starts(k)

DataUpTo(i) ==
    FoldLeft(LAMBDA d, f : IF f.op \in Control THEN d ELSE d \o f.payload, <<>>,
             SubSeq(frames, StartOf(i), i))

Reason(i) ==
    LET f == frames[i] IN
    IF DecodeFrame(f, Size(f)) # "frame" THEN DecodeFrame(f, Size(f))
    ELSE IF f.op = "close" THEN IF ParseClose(f.payload) = "ok" THEN "closed" ELSE ParseClose(f.payload)
    ELSE IF f.op \in Control THEN "none"
    ELSE IF Starts(i) = OpenAt(i) THEN "BadFragmentation"
    ELSE IF f.op = "cont" /\ Len(DataUpTo(i)) > MaxMessage THEN "TooBig"
    ELSE IF f.fin /\ frames[StartOf(i)].op = "text" /\ ~Utf8(DataUpTo(i)) THEN "BadUtf8"
    ELSE "none"

Arrived == {i \in DOMAIN frames : SizeUpTo(i) <= got}
Good(i) == \A j \in 1 .. i : Reason(j) = "none"
Messages == {i \in Arrived : Good(i) /\ frames[i].fin /\ frames[i].op \notin Control}

-----------------------------------------------------------------------------
(* Properties.                                                             *)

\* However the bytes are cut into reads, on_message sees exactly the messages
\* of the frame sequence, in order, whole and validated as a whole, up to the
\* first violation or close.
DeliversTheMessages ==
    rx.delivered = LET order == SetToSortSeq(Messages, <) IN
        [k \in DOMAIN order |-> [op |-> frames[StartOf(order[k])].op,
                                 data |-> DataUpTo(order[k])]]

\* The connection is closed with the code of the first violation and not
\* before one: 1009 for size, 1007 for UTF-8, 1002 for the rest.
ClosesForTheFirstViolation ==
    LET bad == {i \in DOMAIN frames : Reason(i) # "none"}
        first == CHOOSE i \in bad : \A j \in bad : i <= j
    IN  /\ rx.code # 0 => bad # {} /\ rx.code =
              IF Reason(first) = "closed" THEN 1000 ELSE CloseCode(Reason(first))
        /\ (bad # {} /\ got >= SizeUpTo(first)) => rx.code # 0

\* A ping is answered by one pong as long as no violation was seen.
PingsAnsweredOnce ==
    rx.code = 0 => rx.pongs = Cardinality({i \in Arrived : frames[i].op = "ping"})

\* A frame the server encodes passes the decoder's own minimal-length rule.
EncodesMinimally ==
    \A f \in ToSet(frames) :
        LET g == [f EXCEPT !.form = LengthForm(Len(f.payload)), !.flaw = "none"] IN
        DecodeFrame(g, Size(g)) # "NonMinimalLength"
=============================================================================
