-------------------------------- MODULE Mail --------------------------------
(***************************************************************************)
(* Sending mail (sutegi-mail): the Email builder, Mailer::send, and the    *)
(* transports: the SMTP client with its dialogue, the pipe to sendmail,    *)
(* the in-memory inbox (the log transport differs from it in where it      *)
(* writes).  The relay may refuse any command and the connection may break *)
(* before or after the relay acted on one.                                 *)
(*                                                                         *)
(* A message's text is a sequence of lines, a line a sequence of           *)
(* characters; of the headers only the addresses matter.                   *)
(***************************************************************************)
EXTENDS Integers, Sequences, SequencesExt

CONSTANTS
    Addrs,         \* addresses that parse
    Bad,           \* one that does not
    Contents,      \* the rendered texts tried, sequences of lines
    Transports,    \* subset of {"smtp", "sendmail", "memory"}
    None,
    MaxCalls,      \* bound: builder calls of a message
    MaxSends       \* bound: messages sent

VARIABLES
    transport,
    creds,         \* credentials are configured
    caps,          \* what the relay's EHLO offers, a subset of {"PLAIN", "LOGIN"}
    draft,         \* the Email under construction
    asked,         \* history: the builder calls, a sequence of <<field, address>>
    script,        \* the SMTP commands still to send, [verb, arg]
    sending,       \* the message under way, [email, lines, asked], or None
    relay,         \* the recipients the relay accepted for the transaction
    box,           \* messages accepted for delivery
    result,        \* history: the last send, [ok, email, asked, lost, before], or None
    sends

vars == <<transport, creds, caps, draft, asked, script, sending, relay, box, result, sends>>
sites == <<transport, creds, caps>>

NewEmail == [from |-> None, to |-> <<>>, cc |-> <<>>, bcc |-> <<>>, bad |-> FALSE]
Idle == {}

(***************************************************************************)
(* The builder.                                                            *)
(***************************************************************************)
\* An address that does not parse is remembered among the headers.
to(a) == IF a = Bad THEN [draft EXCEPT !.bad = TRUE] ELSE [draft EXCEPT !.to = Append(@, a)]
cc(a) == IF a = Bad THEN draft ELSE [draft EXCEPT !.cc = Append(@, a)]
bcc(a) == IF a = Bad THEN draft ELSE [draft EXCEPT !.bcc = Append(@, a)]
from(a) == [draft EXCEPT !.from = IF a = Bad THEN None ELSE a]

Build ==
    /\ sending = None /\ sends < MaxSends /\ Len(asked) < MaxCalls
    /\ \E a \in Addrs \cup {Bad}, f \in {"from", "to", "cc", "bcc"} :
         /\ draft' = CASE f = "to" -> to(a) [] f = "cc" -> cc(a) [] f = "bcc" -> bcc(a) [] OTHER -> from(a)
         /\ asked' = Append(asked, <<f, a>>)
    /\ UNCHANGED <<sites, script, sending, relay, box, result, sends>>

\* A body is always set here, and from by the mailer.
validate(e) == (e.to # <<>> \/ e.cc # <<>> \/ e.bcc # <<>>) /\ ~e.bad

recipients(e) == e.to \o e.cc \o e.bcc

\* render's address headers.
Headers(e) == [from |-> e.from, to |-> e.to, cc |-> e.cc]

(***************************************************************************)
(* SMTP.                                                                   *)
(***************************************************************************)
\* A line that starts with a dot gets another.
dot_stuff(lines) == [i \in DOMAIN lines |-> IF lines[i] # <<>> /\ lines[i][1] = "." THEN <<".">> \o lines[i] ELSE lines[i]]

Cmd(verb, arg) == [verb |-> verb, arg |-> arg]

Login == IF ~creds THEN <<>>
         ELSE IF "PLAIN" \in caps THEN <<Cmd("AUTH PLAIN", None)>>
         ELSE <<Cmd("AUTH LOGIN", None), Cmd("user", None), Cmd("pass", None)>>

Smtp(e, lines) ==
    <<Cmd("connect", None), Cmd("EHLO", None)>> \o Login \o <<Cmd("MAIL", e.from)>>
    \o [i \in DOMAIN recipients(e) |-> Cmd("RCPT", recipients(e)[i])]
    \o <<Cmd("DATA", None), Cmd(".", dot_stuff(lines)), Cmd("QUIT", None)>>

\* What a relay does with a command it accepts: a text ends at the first
\* line that is a dot, and a leading dot is taken off the others.
Received(stuffed) ==
    LET all == Append(stuffed, <<".">>)
        end == CHOOSE i \in DOMAIN all : all[i] = <<".">> /\ \A j \in 1..(i - 1) : all[j] # <<".">>
    IN  [i \in 1..(end - 1) |-> IF all[i] # <<>> /\ all[i][1] = "." THEN Tail(all[i]) ELSE all[i]]

Acts(c) ==
    CASE c.verb = "MAIL" -> relay' = Idle /\ box' = box
      [] c.verb = "RCPT" -> relay' = relay \cup {c.arg} /\ box' = box
      [] c.verb = "." ->
           /\ box' = Append(box, [rcpts |-> relay, text |-> Received(c.arg), headers |-> Headers(sending.email)])
           /\ relay' = Idle
      [] OTHER -> UNCHANGED <<relay, box>>

\* AUTH with a mechanism the relay does not offer is refused.
MayAccept(c) == (c.verb = "AUTH PLAIN" => "PLAIN" \in caps) /\ (c.verb = "AUTH LOGIN" => "LOGIN" \in caps)

Done(ok, lost) ==
    /\ result' = [ok |-> ok, email |-> sending.email, lines |-> sending.lines, asked |-> sending.asked,
                  lost |-> lost, before |-> sending.before]
    /\ sending' = None /\ script' = <<>>

GoOn(c) == FALSE
\* Anything but the expected code ends the send, except after QUIT.
Stops(c) == c.verb # "QUIT"

\* command: write the line, read the reply, compare its code.
command ==
    /\ sending # None /\ script # <<>>
    /\ LET c == Head(script) IN
       \/ /\ MayAccept(c)
          /\ Acts(c)
          /\ IF Len(script) = 1 THEN Done(TRUE, FALSE) ELSE script' = Tail(script) /\ UNCHANGED <<sending, result>>
       \/ /\ UNCHANGED <<relay, box>>
          /\ IF Stops(c) THEN Done(FALSE, FALSE)
             ELSE IF Len(script) = 1 THEN Done(TRUE, FALSE) ELSE script' = Tail(script) /\ UNCHANGED <<sending, result>>
    /\ UNCHANGED <<sites, draft, asked, sends>>

\* The connection breaks: before the relay acted, or before its reply came.
Breaks ==
    /\ sending # None /\ script # <<>>
    /\ LET c == Head(script) IN
       /\ UNCHANGED <<relay, box>> \/ (MayAccept(c) /\ Acts(c))
       /\ Done(~Stops(c), Stops(c))
    /\ UNCHANGED <<sites, draft, asked, sends>>

(***************************************************************************)
(* The other transports hand the message over in one step.                 *)
(***************************************************************************)
\* sendmail -t reads To and Cc from the headers; Bcc is on its command line.
SendmailTo(e) == ToSet(e.to) \cup ToSet(e.cc) \cup ToSet(e.bcc)

HandOver(e, lines) ==
    \E ok \in IF transport = "memory" THEN {TRUE} ELSE BOOLEAN :
       /\ box' = IF ok THEN Append(box, [rcpts |-> IF transport = "sendmail" THEN SendmailTo(e) ELSE ToSet(recipients(e)),
                                         text |-> lines, headers |-> Headers(e)])
                 ELSE box
       /\ result' = [ok |-> ok, email |-> e, lines |-> lines, asked |-> asked, lost |-> FALSE, before |-> Len(box)]

DefaultFrom == "app"

\* Mailer::send
send ==
    /\ sending = None /\ sends < MaxSends /\ asked # <<>>
    /\ sends' = sends + 1
    /\ draft' = NewEmail /\ asked' = <<>>
    /\ \E lines \in Contents :
       LET e == [draft EXCEPT !.from = IF @ = None THEN DefaultFrom ELSE @] IN
       CASE ~validate(e) ->
              /\ result' = [ok |-> FALSE, email |-> e, lines |-> lines, asked |-> asked, lost |-> FALSE, before |-> Len(box)]
              /\ UNCHANGED <<script, sending, box>>
         [] validate(e) /\ transport = "smtp" ->
              /\ script' = Smtp(e, lines)
              /\ sending' = [email |-> e, lines |-> lines, asked |-> asked, before |-> Len(box)]
              /\ UNCHANGED <<box, result>>
         [] OTHER -> HandOver(e, lines) /\ UNCHANGED <<script, sending>>
    /\ UNCHANGED <<sites, relay>>

Init ==
    /\ transport \in Transports /\ creds \in BOOLEAN /\ caps \in SUBSET {"PLAIN", "LOGIN"}
    /\ transport # "smtp" => ~creds /\ caps = {}
    /\ draft = NewEmail /\ asked = <<>> /\ script = <<>> /\ sending = None
    /\ relay = Idle /\ box = <<>> /\ result = None /\ sends = 0

Next == Build \/ send \/ command \/ Breaks
Spec == Init /\ [][Next]_vars

-----------------------------------------------------------------------------
Wanted(calls) == {calls[i][2] : i \in {j \in DOMAIN calls : calls[j][1] # "from" /\ calls[j][2] # Bad}}
Delivered == SubSeq(box, result.before + 1, Len(box))

(***************************************************************************)
(* A send that succeeded put one message into delivery, with the text as   *)
(* it was rendered, for every recipient that was asked for; a send that    *)
(* failed put none into delivery for anyone, one refused recipient among   *)
(* several included.  Only a connection lost at the end leaves it open.    *)
(***************************************************************************)
AllOrNothing ==
    result # None /\ sending = None =>
        \/ /\ result.ok \/ result.lost
           /\ Len(Delivered) = 1
           /\ Delivered[1].rcpts = Wanted(result.asked)
           /\ Delivered[1].text = result.lines
        \/ ~result.ok /\ Delivered = <<>>

(***************************************************************************)
(* Bcc recipients are on the envelope and never in the headers the others  *)
(* read.                                                                   *)
(***************************************************************************)
BccStaysHidden ==
    result # None /\ sending = None /\ Delivered # <<>> =>
        LET h == Delivered[1].headers
            open == {result.asked[i][2] : i \in {j \in DOMAIN result.asked : result.asked[j][1] \in {"to", "cc"}}}
        IN  ToSet(h.to) \cup ToSet(h.cc) \subseteq open

(***************************************************************************)
(* "Invalid addresses surface when the mail is sent": a message given an   *)
(* invalid To goes to nobody.                                              *)
(***************************************************************************)
InvalidSurfaces ==
    result # None /\ sending = None /\ (\E i \in DOMAIN result.asked : result.asked[i] = <<"to", Bad>>) =>
        ~result.ok /\ Delivered = <<>>
=============================================================================
