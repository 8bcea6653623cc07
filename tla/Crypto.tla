--------------------------------- MODULE Crypto ---------------------------------
(***************************************************************************)
(* Two parts of crates/sutegi-crypto with a machine each: hashing fed in   *)
(* pieces, and authenticated encryption.                                   *)
(***************************************************************************)
EXTENDS Integers, Sequences, SequencesExt

(***************************************************************************)
(* The streaming hash of sutegi-crypto (Sha256: update, finalize) around   *)
(* its compression function, against the padding of the one-shot digests.  *)
(* The compression function is free: the state h is the sequence of blocks *)
(* compressed so far.  The block of 64 bytes with 8 for the length is a    *)
(* parameter.                                                              *)
(***************************************************************************)


CONSTANTS
    DigestBlock,       \* bytes of a block
    LenBytes,    \* bytes of the length field
    MaxMessage   \* bound: bytes hashed

VARIABLES
    h, buf, total,   \* the hasher: blocks compressed, bytes buffered, bytes seen
    fed,             \* history: the message so far
    done

digestVars == <<h, buf, total, fed, done>>

(***************************************************************************)
(* The hasher as a record, so that finalize can be a chain of updates.     *)
(***************************************************************************)
Hasher == [h |-> h, buf |-> buf, total |-> total]

Blocks(s) == [i \in 1..(Len(s) \div DigestBlock) |-> SubSeq(s, (i - 1) * DigestBlock + 1, i * DigestBlock)]
Remainder(s) == SubSeq(s, (Len(s) \div DigestBlock) * DigestBlock + 1, Len(s))

\* Top up the buffer, compress it once full, then whole blocks of the input;
\* what is left is buffered.
update(st, data) ==
    LET take == IF DigestBlock - Len(st.buf) < Len(data) THEN DigestBlock - Len(st.buf) ELSE Len(data)
        topped == st.buf \o SubSeq(data, 1, take)
        rest == IF st.buf = <<>> THEN data ELSE SubSeq(data, take + 1, Len(data))
        blocks == IF st.buf = <<>> THEN <<>> ELSE <<topped>>
    IN  IF st.buf # <<>> /\ Len(topped) < DigestBlock
        THEN [st EXCEPT !.buf = topped, !.total = @ + Len(data)]
        ELSE [h |-> st.h \o blocks \o Blocks(rest), buf |-> Remainder(rest), total |-> st.total + Len(data)]

\* The length field: LenBytes bytes that stand for n.
LengthField(n) == [i \in 1..LenBytes |-> 1000 + n]

\* while buf_len != 56: one zero at a time.
ZeroFill(st) ==
    LET From[n \in 0..DigestBlock] ==
            IF n = DigestBlock THEN st
            ELSE LET one == From[n + 1] IN IF Len(one.buf) = DigestBlock - LenBytes THEN one ELSE update(one, <<0>>)
    IN  From[0]

\* The bit length is that of the message, read before the padding is added.
finalize(st) == update(ZeroFill(update(st, <<128>>)), LengthField(st.total))

DigestInit == h = <<>> /\ buf = <<>> /\ total = 0 /\ fed = <<>> /\ done = FALSE

Set(st) == h' = st.h /\ buf' = st.buf /\ total' = st.total

\* Bytes are numbered by their place in the message.
Update ==
    /\ ~done
    /\ \E n \in 0..(MaxMessage - Len(fed)) :
         LET data == [i \in 1..n |-> ((Len(fed) + i) % 3) + 1]
         IN  Set(update(Hasher, data)) /\ fed' = fed \o data
    /\ done' = FALSE

Finalize ==
    /\ ~done
    /\ Set(finalize(Hasher))
    /\ done' = TRUE /\ fed' = fed

DigestNext == Update \/ Finalize
DigestSpec == DigestInit /\ [][DigestNext]_digestVars

TypeOK ==
    /\ Len(buf) < DigestBlock /\ total \in Nat /\ done \in BOOLEAN
    /\ \A i \in DOMAIN h : Len(h[i]) = DigestBlock

(***************************************************************************)
(* The padding as the one-shot digests build it: 0x80, zeros up to the     *)
(* length field, the length.                                               *)
(***************************************************************************)
Padded(msg) ==
    LET zeros == CHOOSE z \in 0..(DigestBlock - 1) : (Len(msg) + 1 + z) % DigestBlock = DigestBlock - LenBytes
    IN  msg \o <<128>> \o [i \in 1..zeros |-> 0] \o LengthField(Len(msg))

(***************************************************************************)
(* However a message is cut into updates, the blocks compressed by the     *)
(* time finalize returns are those of the padded message, and nothing is   *)
(* left in the buffer; before that, they are those of the message.         *)
(***************************************************************************)
DigestsTheMessage ==
    IF done THEN h = Blocks(Padded(fed)) /\ buf = <<>>
    ELSE h = Blocks(fed) /\ buf = Remainder(fed) /\ total = Len(fed)

(***************************************************************************)
(* Authenticated encryption as sutegi-crypto composes it from ChaCha20 and *)
(* Poly1305 (chacha20_poly1305_seal and _open, which seal and open call).  A byte is a set of *)
(* atoms and xor the symmetric difference, so equal bytes cancel; a byte   *)
(* of keystream is an atom of its block and place, a tag is a term of its  *)
(* one-time key and its whole input.  The 64-byte block, the 16-byte       *)
(* padding and the field widths are scaled down.                           *)
(***************************************************************************)


CONSTANTS
    Block,       \* bytes of a keystream block
    Pad,         \* the tag's input is padded to multiples of this
    MaxText,     \* bound: bytes of plaintext
    MaxAad       \* bound: bytes of associated data

VARIABLES
    aad, text,   \* what is sealed under key "k" and nonce "n"
    given        \* what open is given: [key, nonce, aad, sealed]

vars == <<aad, text, given>>

Byte(x) == {<<"byte", x>>}
Zero == {}
Xor(a, b) == (a \ b) \cup (b \ a)

chacha20_block(key, counter, nonce) == [i \in 1..Block |-> {<<"stream", key, counter, nonce, i>>}]

CounterStays(i) == 1
\* Block i of the text takes the i-th counter after the tag key's.
CounterOf(i) == 1 + ((i - 1) \div Block)

chacha20_xor(key, nonce, data) ==
    [i \in DOMAIN data |-> Xor(data[i], chacha20_block(key, CounterOf(i), nonce)[((i - 1) % Block) + 1])]

Padding(n) == [i \in 1..((Pad - (n % Pad)) % Pad) |-> Zero]
Length(n) == <<{<<"len", n>>}>>

\* What aead_tag authenticates.
MacData(a, ct) == a \o Padding(Len(a)) \o ct \o Padding(Len(ct)) \o Length(Len(a)) \o Length(Len(ct))

poly_key(key, nonce) == chacha20_block(key, 0, nonce)
aead_tag(key, nonce, a, ct) == {<<"tag", poly_key(key, nonce), MacData(a, ct)>>}

chacha20_poly1305_seal(key, nonce, a, plain) ==
    LET ct == chacha20_xor(key, nonce, plain)
    IN  Append(ct, aead_tag(key, nonce, a, ct))

Refused == [ok |-> FALSE, text |-> <<>>]
chacha20_poly1305_open(key, nonce, a, sealed) ==
    IF Len(sealed) < 1 THEN Refused
    ELSE LET ct == Front(sealed) IN
         IF Last(sealed) # aead_tag(key, nonce, a, ct) THEN Refused
         ELSE [ok |-> TRUE, text |-> chacha20_xor(key, nonce, ct)]

open(g) == chacha20_poly1305_open(g.key, g.nonce, g.aad, g.sealed)
Sealed == chacha20_poly1305_seal("k", "n", aad, text)
Whole == [key |-> "k", nonce |-> "n", aad |-> aad, sealed |-> Sealed]

\* Byte 0 may be zero, which padding is too.
Strings(n) == UNION {[1..m -> {Zero, Byte(1)}] : m \in 0..n}

Init ==
    /\ aad \in Strings(MaxAad) /\ text \in Strings(MaxText)
    /\ given = Whole

\* What arrives is not what was sealed: another key, nonce or associated
\* data, a byte that changed, an end or a beginning missing, the border
\* between associated data and ciphertext moved.
Differs ==
    /\ given = Whole
    /\ \/ given' = [Whole EXCEPT !.key = "other"]
       \/ given' = [Whole EXCEPT !.nonce = "other"]
       \/ \E a \in Strings(MaxAad) \ {aad} : given' = [Whole EXCEPT !.aad = a]
       \/ \E i \in 1..Len(Sealed) : given' = [Whole EXCEPT !.sealed[i] = Xor(@, Byte(2))]
       \/ \E i \in 1..Len(Sealed) : given' = [Whole EXCEPT !.sealed = SubSeq(@, 1, i - 1)]
       \/ \E i \in 2..Len(Sealed) : given' = [Whole EXCEPT !.sealed = SubSeq(@, i, Len(@))]
       \/ /\ Len(Sealed) > 1
          /\ given' = [Whole EXCEPT !.aad = Append(@, Sealed[1]), !.sealed = Tail(@)]
    /\ UNCHANGED <<aad, text>>

Next == Differs
Spec == Init /\ [][Next]_vars

-----------------------------------------------------------------------------
(***************************************************************************)
(* What was sealed opens to the plaintext, and only that: "None on any     *)
(* tampering", whatever the lengths and wherever padding could be taken    *)
(* for content.                                                            *)
(***************************************************************************)
OpensWhatWasSealed ==
    IF given = Whole THEN open(given) = [ok |-> TRUE, text |-> text] ELSE ~open(given).ok

(***************************************************************************)
(* No byte of keystream is used twice: two places of a text never share    *)
(* one, and the block the tag's key is taken from encrypts nothing.        *)
(***************************************************************************)
KeystreamOnce ==
    LET used == [i \in DOMAIN text |-> Xor(Sealed[i], text[i])] IN
    /\ \A i, j \in DOMAIN used : used[i] = used[j] => i = j
    /\ \A i \in DOMAIN used, j \in 1..Block : used[i] # poly_key("k", "n")[j]

=============================================================================
