------------------------------ MODULE Accounts ------------------------------
(***************************************************************************)
(* The user store, the verification mails and the API tokens of            *)
(* sutegi-auth (users.rs, flows.rs, links.rs, tokens.rs), as the requests  *)
(* of several workers on one database.  Every SQL statement is one step:   *)
(* an operation that looks before it writes is two.                        *)
(*                                                                         *)
(* A row remembers which registration made it (`person`), so that an id    *)
(* the database hands out again can be told from the one it was.           *)
(***************************************************************************)
EXTENDS Naturals, FiniteSets, FiniteSetsExt

CONSTANTS Workers,
          Written,       \* addresses as people write them
          Normal,        \* what normalize_email makes of each; "bad" is refused
          ReuseIds,      \* SQLite gives the largest rowid + 1, PostgreSQL never repeats
          MaxPersons, MaxLinks, MaxTokens      \* bounds

VARIABLES users,     \* id -> [email, verified, person], or None
          persons,   \* registrations so far
          highest,   \* the largest id ever given
          worker,    \* worker -> what it does between two statements
          links,     \* verification links mailed: [uid, to, person]
          tokens,    \* api_tokens: [uid, person, expires]
          clock,
          acted      \* the last use of a token: [token, user], or NoUse

vars == <<users, persons, highest, worker, links, tokens, clock, acted>>

Ids == 1..MaxPersons
None == [email |-> "none", verified |-> FALSE, person |-> 0]
Idle == [op |-> "idle", id |-> 0, email |-> "none"]
NoUse == [token |-> [uid |-> 0, person |-> 0, expires |-> 0], user |-> None]

Init ==
    /\ users = [i \in Ids |-> None]
    /\ persons = 0 /\ highest = 0 /\ clock = 0
    /\ worker = [w \in Workers |-> Idle]
    /\ links = {} /\ tokens = {} /\ acted = NoUse

Rows == {i \in Ids : users[i] # None}
normalize_email(text) == Normal[text]
find_by_email(email) == {i \in Rows : users[i].email = email}

Become(w, op, id, email) == worker' = [worker EXCEPT ![w] = [op |-> op, id |-> id, email |-> email]]
Done(w) == Become(w, "idle", 0, "none")

\* register_with up to its INSERT: a malformed or taken address ends it.
register_with(w, text) ==
    /\ worker[w] = Idle
    /\ persons < MaxPersons
    /\ normalize_email(text) # "bad"
    /\ find_by_email(normalize_email(text)) = {}
    /\ Become(w, "insert", 0, normalize_email(text))
    /\ UNCHANGED <<users, persons, highest, links, tokens, clock, acted>>

NextId == IF ReuseIds THEN Max(Rows \cup {0}) + 1 ELSE highest + 1


insert(w) ==
    /\ worker[w].op = "insert"
    /\ IF find_by_email(worker[w].email) # {} \/ persons = MaxPersons
       THEN UNCHANGED <<users, persons, highest>>
       ELSE /\ persons' = persons + 1
            /\ users' = [users EXCEPT ![NextId] =
                    [email |-> worker[w].email, verified |-> FALSE, person |-> persons']]
            /\ highest' = Max({highest, NextId})
    /\ Done(w)
    /\ UNCHANGED <<links, tokens, clock, acted>>

\* set_email: look for another account with the address, then write it.
set_email(w, i, text) ==
    /\ worker[w] = Idle /\ i \in Rows
    /\ normalize_email(text) # "bad"
    /\ find_by_email(normalize_email(text)) \subseteq {i}
    /\ Become(w, "set_email", i, normalize_email(text))
    /\ UNCHANGED <<users, persons, highest, links, tokens, clock, acted>>

\* The UPDATE fails on a row that is gone and on the unique index.
UpdateEmail(w) ==
    LET i == worker[w].id IN
    /\ worker[w].op = "set_email"
    /\ users' = IF i \in Rows /\ find_by_email(worker[w].email) \subseteq {i}
                THEN [users EXCEPT ![i].email = worker[w].email, ![i].verified = FALSE]
                ELSE users
    /\ Done(w)
    /\ UNCHANGED <<persons, highest, links, tokens, clock, acted>>

delete(i) ==
    /\ i \in Rows
    /\ users' = [users EXCEPT ![i] = None]
    /\ UNCHANGED <<persons, highest, worker, links, tokens, clock, acted>>

\* A signed link names its purpose, its user and its expiry; what a
\* verification link is bound to is empty.  Here it carries, unread, whom it
\* was mailed to; it does not expire within the bounds.
mint(i) == [uid |-> i, to |-> users[i].email, person |-> users[i].person]

send_verification(i) ==
    /\ i \in Rows
    /\ Cardinality(links) < MaxLinks
    /\ links' = links \cup {mint(i)}
    /\ UNCHANGED <<users, persons, highest, worker, tokens, clock, acted>>

\* confirm_email: the link's user is looked up, then marked.
confirm_email(w, link) ==
    /\ worker[w] = Idle
    /\ link \in links
    /\ link.uid \in Rows
    /\ Become(w, "confirm", link.uid, "none")
    /\ UNCHANGED <<users, persons, highest, links, tokens, clock, acted>>

mark_verified(w) ==
    /\ worker[w].op = "confirm"
    /\ users' = IF worker[w].id \in Rows THEN [users EXCEPT ![worker[w].id].verified = TRUE]
                ELSE users
    /\ Done(w)
    /\ UNCHANGED <<persons, highest, links, tokens, clock, acted>>

\* Tokens: `expires` 0 never does.
issue(i, expires) ==
    /\ i \in Rows
    /\ Cardinality(tokens) < MaxTokens
    /\ tokens' = tokens \cup {[uid |-> i, person |-> users[i].person, expires |-> expires]}
    /\ UNCHANGED <<users, persons, highest, worker, links, clock, acted>>

revoke(t) ==
    /\ t \in tokens
    /\ tokens' = tokens \ {t}
    /\ UNCHANGED <<users, persons, highest, worker, links, clock, acted>>

revoke_all(i) ==
    /\ \E t \in tokens : t.uid = i
    /\ tokens' = {t \in tokens : t.uid # i}
    /\ UNCHANGED <<users, persons, highest, worker, links, clock, acted>>

verify(t) == t \in tokens /\ (t.expires > 0 => t.expires >= clock)

\* token_user: the token's row and then the user it names; what it finds acts.
token_user(t) ==
    /\ verify(t)
    /\ t.uid \in Rows
    /\ acted' = [token |-> t, user |-> users[t.uid]]
    /\ UNCHANGED <<users, persons, highest, worker, links, tokens, clock>>

Tick == clock < 2 /\ clock' = clock + 1
        /\ UNCHANGED <<users, persons, highest, worker, links, tokens, acted>>

Next ==
    \/ \E w \in Workers :
        \/ \E text \in Written : register_with(w, text) \/ \E i \in Ids : set_email(w, i, text)
        \/ insert(w) \/ UpdateEmail(w) \/ mark_verified(w)
        \/ \E link \in links : confirm_email(w, link)
    \/ \E i \in Ids : delete(i) \/ send_verification(i) \/ revoke_all(i)
                      \/ issue(i, 0) \/ issue(i, 1)
    \/ \E t \in tokens : token_user(t) \/ revoke(t)
    \/ Tick

Spec == Init /\ [][Next]_vars
-----------------------------------------------------------------------------
TypeOK ==
    /\ \A i \in Rows : users[i].person \in 1..persons
    /\ highest <= persons
    /\ \A w \in Workers : worker[w].op \in {"idle", "insert", "set_email", "confirm"}

\* However registrations and address changes interleave between their look
\* and their write, an address belongs to one account.
EmailsUnique == \A i, j \in Rows : i # j => users[i].email # users[j].email

\* A verified account is one a verification link was mailed to.
VerifiedWasMailed ==
    \A i \in Rows : users[i].verified => \E link \in links : link.person = users[i].person

\* A token acts for the account it was issued to, never for one registered
\* later, and for no one once the account is gone or the token has expired.
TokensReachTheirOwner ==
    acted # NoUse => acted.user.person = acted.token.person

=============================================================================
