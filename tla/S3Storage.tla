----------------------------- MODULE S3Storage -----------------------------
(***************************************************************************)
(* S3Storage (sutegi-storage/src/s3_storage.rs): the Storage calls of one  *)
(* client as HTTP exchanges with a bucket that other clients change        *)
(* meanwhile.  An exchange is a step of the client (request), a step of    *)
(* the bucket (Serve) and a step that reads the answer.  The transport may *)
(* lose the request, lose the answer after the bucket acted, or hand over  *)
(* an altered body.                                                        *)
(*                                                                         *)
(* A key is a number, so that the bucket's order of keys is <; the keys of *)
(* Markers are the ones validate_key refuses ("dir/" objects written by    *)
(* other tools).  A prefix is the set of keys it covers.  A stored object  *)
(* is its body and whether its ETag is the MD5 of the body; the body of a  *)
(* marker does not matter.                                                 *)
(***************************************************************************)
EXTENDS Integers, Sequences, FiniteSets, SequencesExt, TLC

CONSTANTS
    Keys,          \* the keys of the bucket
    Markers,       \* the ones no Storage call can address
    ListPrefixes,      \* sets of keys a listing may ask for
    Bodies,        \* what an object may hold
    None,          \* no object, no token, no answer
    Wrong,         \* an altered body
    PageSize,      \* PAGE_SIZE
    MaxListKeys,   \* max_list_keys
    MaxChanges,    \* bound: changes by other clients
    MaxFaults,     \* bound: faults of the transport
    MaxCalls       \* bound: calls of the client

VARIABLES
    bucket,    \* [Keys -> [body, md5] or None]
    call,      \* the call under way, [op, key, body, prefix], or None
    wire,      \* the exchange: None, [req |-> ...] or [status, ...]
    step,      \* which request of the call is out: "head" for delete's first
    out,       \* the keys a listing has accumulated
    token,     \* its continuation token
    pages,     \* its requests so far
    result,    \* what the last call returned, [call, ok, val], or None
    seen,      \* history: [Keys -> the objects the key held during the call]
    changes, faults, calls

vars == <<bucket, call, wire, step, out, token, pages, result, seen, changes, faults, calls>>

Objects == [body : Bodies, md5 : BOOLEAN]

Ok(v) == [call |-> call, ok |-> TRUE, val |-> v]
Err == [call |-> call, ok |-> FALSE, val |-> None]

(***************************************************************************)
(* The bucket.  A page of ListObjectsV2 holds the first PageSize keys      *)
(* after the token, in order; the token of the next page is its last key.  *)
(***************************************************************************)
Present(b, ks) == {k \in ks : b[k] # None}
After(t, ks) == IF t = None THEN ks ELSE {k \in ks : k > t}
Ascending(ks) == SetToSortSeq(ks, <)

Page(b, r) ==
    LET rest == Ascending(After(r.token, Present(b, r.prefix)))
        page == SubSeq(rest, 1, IF Len(rest) < PageSize THEN Len(rest) ELSE PageSize)
        more == Len(rest) > PageSize
    IN  [status |-> 200, keys |-> page, truncated |-> more,
         next |-> IF more THEN page[Len(page)] ELSE None]

Answer(b, r) ==
    CASE r.method = "PUT" -> [status |-> 200, md5 |-> TRUE, body |-> r.body]
      [] r.method \in {"GET", "HEAD"} /\ b[r.key] = None -> [status |-> 404]
      [] r.method \in {"GET", "HEAD"} -> [status |-> 200] @@ b[r.key]
      [] r.method = "DELETE" -> [status |-> 204]
      [] r.method = "LIST" -> Page(b, r)

Effect(b, r) ==
    CASE r.method = "PUT" -> [b EXCEPT ![r.key] = [body |-> r.body, md5 |-> TRUE]]
      [] r.method = "DELETE" -> [b EXCEPT ![r.key] = None]
      [] OTHER -> b

Witness(b) == [k \in Keys |-> seen[k] \cup {b[k]}]

(***************************************************************************)
(* The client.                                                             *)
(***************************************************************************)

\* max_list_keys / PAGE_SIZE + 2
max_pages == MaxListKeys \div PageSize + 2

ListRequest(prefix, tok) == [req |-> [method |-> "LIST", prefix |-> prefix, token |-> tok]]
ObjectRequest(method, key, body) == [req |-> [method |-> method, key |-> key, body |-> body]]

\* What a call sends first; a key validate_key refuses never gets this far.
First(c) ==
    CASE c.op = "put" -> ObjectRequest("PUT", c.key, c.body)
      [] c.op = "get" -> ObjectRequest("GET", c.key, None)
      [] c.op \in {"stat", "delete"} -> ObjectRequest("HEAD", c.key, None)
      [] c.op = "list" -> ListRequest(c.prefix, None)

Calls == [op : {"put"}, key : Keys \ Markers, body : Bodies]
         \cup [op : {"get", "stat", "delete"}, key : Keys \ Markers]
         \cup [op : {"list"}, prefix : ListPrefixes]

Begin ==
    /\ call = None
    /\ calls < MaxCalls
    /\ \E c \in Calls : call' = c /\ wire' = First(c)
    /\ step' = "first" /\ out' = <<>> /\ token' = None /\ pages' = 1
    /\ result' = None
    /\ seen' = [k \in Keys |-> {bucket[k]}]
    /\ calls' = calls + 1
    /\ UNCHANGED <<bucket, changes, faults>>

Serve ==
    /\ wire # None /\ "req" \in DOMAIN wire
    /\ bucket' = Effect(bucket, wire.req)
    /\ wire' = Answer(bucket, wire.req)
    /\ seen' = Witness(bucket')
    /\ UNCHANGED <<call, step, out, token, pages, result, changes, faults, calls>>

Return(r) == result' = r /\ call' = None /\ wire' = None

\* etag_mismatch: an ETag that is an MD5 is compared with the body at hand.
etag_mismatch(resp, body) == resp.md5 /\ resp.body # body

\* put compares the ETag of the answer with the bytes it sent.
Put ==
    /\ call.op = "put"
    /\ Return(IF wire.status = 200 /\ ~etag_mismatch(wire, call.body) THEN Ok(call.body) ELSE Err)
    /\ UNCHANGED <<step, out, token, pages>>

\* get compares it with the body that arrived, `got` where a fault altered it.
Get ==
    /\ call.op = "get"
    /\ LET got == IF "got" \in DOMAIN wire THEN wire.got ELSE wire.body IN
       Return(CASE wire.status = 404 -> Ok(None)
                [] wire.status = 200 -> IF etag_mismatch(wire, got) THEN Err ELSE Ok(got)
                [] OTHER -> Err)
    /\ UNCHANGED <<step, out, token, pages>>

Stat ==
    /\ call.op = "stat"
    /\ Return(Ok(wire.status = 200))
    /\ UNCHANGED <<step, out, token, pages>>

\* stat(key)?.is_none(): nothing to delete.
Missing(resp) == resp.status = 404

\* delete: the HEAD decides the answer, the DELETE follows it.
Delete ==
    /\ call.op = "delete"
    /\ \/ /\ step = "first" /\ Missing(wire)
          /\ Return(Ok(FALSE))
          /\ step' = step
       \/ /\ step = "first" /\ ~Missing(wire)
          /\ wire' = ObjectRequest("DELETE", call.key, None)
          /\ step' = "delete"
          /\ UNCHANGED <<call, result>>
       \/ /\ step = "delete"
          /\ Return(Ok(TRUE))
          /\ step' = step
    /\ UNCHANGED <<out, token, pages>>

\* A key validate_key refuses is skipped; the others are counted as they come.
Addressable(keys) == SelectSeq(keys, LAMBDA k : k \notin Markers)

Follow(next) == next

\* for _ in 0..max_pages: a store that repeats a token is given up on.
NextPage(n) == n + 1

List ==
    /\ call.op = "list"
    /\ LET all == out \o Addressable(wire.keys) IN
       /\ out' = all
       /\ \/ /\ Len(all) > MaxListKeys
             /\ Return(Err)
             /\ UNCHANGED <<token, pages>>
          \/ /\ Len(all) <= MaxListKeys /\ ~wire.truncated
             /\ Return(Ok(SortSeq(all, <)))
             /\ UNCHANGED <<token, pages>>
          \/ /\ Len(all) <= MaxListKeys /\ wire.truncated
             /\ token' = Follow(wire.next)
             /\ IF pages = max_pages
                THEN Return(Err) /\ pages' = pages
                ELSE /\ wire' = ListRequest(call.prefix, token')
                     /\ pages' = NextPage(pages)
                     /\ UNCHANGED <<call, result>>
    /\ step' = step

\* The answer arrives whole; a status that is none of a call's own is an error.
Handle ==
    /\ wire # None /\ "status" \in DOMAIN wire
    /\ IF wire.status \in {200, 204, 404}
       THEN Put \/ Get \/ Stat \/ Delete \/ List
       ELSE Return(Err) /\ UNCHANGED <<step, out, token, pages>>
    /\ UNCHANGED <<bucket, seen, changes, faults, calls>>

(***************************************************************************)
(* The world.                                                              *)
(***************************************************************************)

\* The request is lost, or the answer is: transport.send returns an error.
Lose ==
    /\ wire # None
    /\ faults < MaxFaults
    /\ Return(Err)
    /\ faults' = faults + 1
    /\ UNCHANGED <<bucket, step, out, token, pages, seen, changes, calls>>

\* The store is out of order, or refuses a body its signature does not match.
Refuse ==
    /\ wire # None /\ "req" \in DOMAIN wire
    /\ faults < MaxFaults
    /\ wire' = [status |-> 500]
    /\ faults' = faults + 1
    /\ UNCHANGED <<bucket, call, step, out, token, pages, result, seen, changes, calls>>

\* A store that hands back the same continuation token over and over.
Stall ==
    /\ wire # None /\ "req" \in DOMAIN wire /\ wire.req.method = "LIST"
    /\ MaxFaults > 0
    /\ wire' = [status |-> 200, keys |-> <<>>, truncated |-> TRUE,
                next |-> IF wire.req.token = None THEN 0 ELSE wire.req.token]
    /\ faults' = MaxFaults
    /\ UNCHANGED <<bucket, call, step, out, token, pages, result, seen, changes, calls>>

\* The body of an answer arrives altered.
Alter ==
    /\ wire # None /\ "status" \in DOMAIN wire /\ call.op = "get" /\ wire.status = 200
    /\ faults < MaxFaults
    /\ wire' = [got |-> Wrong] @@ wire
    /\ faults' = faults + 1
    /\ UNCHANGED <<bucket, call, step, out, token, pages, result, seen, changes, calls>>

Other ==
    /\ changes < MaxChanges
    /\ \E k \in Keys, o \in Objects \cup {None} :
         /\ o # bucket[k]
         /\ bucket' = [bucket EXCEPT ![k] = o]
    /\ seen' = IF call = None THEN seen ELSE Witness(bucket')
    /\ changes' = changes + 1
    /\ UNCHANGED <<call, wire, step, out, token, pages, result, faults, calls>>

Init ==
    /\ bucket \in {b \in [Keys -> Objects \cup {None}] :
                      \A k \in Keys : b[k] # None => b[k].md5 /\ b[k].body = CHOOSE x \in Bodies : TRUE}
    /\ call = None /\ wire = None /\ step = "first"
    /\ out = <<>> /\ token = None /\ pages = 0
    /\ result = None
    /\ seen = [k \in Keys |-> {bucket[k]}]
    /\ changes = 0 /\ faults = 0 /\ calls = 0

Done == call = None /\ calls = MaxCalls /\ UNCHANGED vars

Next == Begin \/ Serve \/ Handle \/ Lose \/ Refuse \/ Stall \/ Alter \/ Other \/ Done

Fairness == WF_vars(Serve) /\ WF_vars(Handle)

Spec == Init /\ [][Next]_vars /\ Fairness

-----------------------------------------------------------------------------
TypeOK ==
    /\ bucket \in [Keys -> Objects \cup {None}]
    /\ call \in Calls \cup {None}
    /\ step \in {"first", "delete"}
    /\ out \in Seq(Keys \ Markers) /\ pages \in 0..max_pages
    /\ (call = None) = (wire = None)
    /\ changes \in 0..MaxChanges /\ faults \in 0..MaxFaults /\ calls \in 0..MaxCalls

Answered(op) == result # None /\ result.ok /\ result.call.op = op

(***************************************************************************)
(* A listing that succeeds names, in order and once each, every            *)
(* addressable key under the prefix that was there all through the call,   *)
(* and none that was never there, however the bucket changed between its   *)
(* pages.                                                                  *)
(***************************************************************************)
ListsWhatStayed ==
    Answered("list") =>
        LET got == result.val
            asked == result.call.prefix \ Markers
        IN  /\ \A i, j \in DOMAIN got : i < j => got[i] < got[j]
            /\ \A k \in asked : None \notin seen[k] => \E i \in DOMAIN got : got[i] = k
            /\ \A i \in DOMAIN got : got[i] \in asked /\ seen[got[i]] # {None}

(***************************************************************************)
(* A listing that fails over a sound transport has met more than           *)
(* max_list_keys keys: the page bound is never what stops it.              *)
(***************************************************************************)
ListsUpToTheLimit ==
    result # None /\ ~result.ok /\ faults = 0 =>
        /\ result.call.op = "list"
        /\ Cardinality({k \in result.call.prefix : seen[k] # {None}}) > MaxListKeys

(***************************************************************************)
(* A get hands over a body the key held while the call ran, unless the     *)
(* object's ETag is no MD5 and nothing could be compared; a put that       *)
(* succeeds left its body in the bucket.                                   *)
(***************************************************************************)
GetsStoredBytes ==
    /\ Answered("get") =>
         \/ result.val = None /\ None \in seen[result.call.key]
         \/ \E o \in seen[result.call.key] \ {None} : o.body = result.val \/ ~o.md5
    /\ Answered("put") =>
         \E o \in seen[result.call.key] \ {None} : o.body = result.call.body

(***************************************************************************)
(* delete answers TRUE only when the object was there during the call and  *)
(* was gone at some time of it, FALSE only when it was missing.            *)
(***************************************************************************)
DeletesWhatWasThere ==
    Answered("delete") =>
        /\ None \in seen[result.call.key]
        /\ result.val => seen[result.call.key] # {None}

(***************************************************************************)
(* Every call returns, a listing of a store that repeats its continuation  *)
(* token included.                                                         *)
(***************************************************************************)
CallsReturn == (call # None) ~> (call = None)
=============================================================================
