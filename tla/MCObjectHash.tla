--------------------------- MODULE MCObjectHash ----------------------------
(***************************************************************************)
(* Checks objectHashWithRedaction, shedRedacted and the number encoding    *)
(* over small JSON values: scalars, arrays of up to two of them, dicts     *)
(* over two keys in either insertion order, and one level of nesting.      *)
(* Each action is one call with its inputs chosen by \E; Return goes back  *)
(* to idle.                                                                *)
(***************************************************************************)
EXTENDS EntryTypes, MerkleRef

LOCAL INSTANCE SequencesExt

CONSTANTS Keys, Strings, Nonce, MaxNum, MaxQ

VARIABLE call

vars == <<call>>

\* One key sorts before the other in the byte order of their digests.
MCKeyRank == [k \in Keys |-> IF k = (CHOOSE j \in Keys : TRUE) THEN 1 ELSE 0]

Num(p, q) == [t |-> "num", p |-> p, q |-> q]
List(s)   == [t |-> "list", v |-> s]
Dict(ms)  == [t |-> "dict", v |-> ms]

\* A dyadic number written once: odd numerator, or zero as 0 / 2^0.
Dyadics == {<<p, q>> \in (-MaxNum .. MaxNum) \X (0 .. MaxQ) : p % 2 = 1 \/ (p = 0 /\ q = 0)}

Scalars == {[t |-> "null"], [t |-> "bool", v |-> TRUE], [t |-> "bool", v |-> FALSE],
            Num(1, 0), Num(-1, 1)} \cup {Str(s) : s \in Strings}

\* Arrays of at most n elements of S; dicts whose members have distinct
\* keys, in every insertion order, with values in S.
Lists(S, n) == {List(s) : s \in SeqsUpTo(S, 0, n)}
KeyOrders == {ks \in SeqsUpTo(Keys, 0, Cardinality(Keys)) : IsInjective(ks)}
Dicts(S) == UNION {{Dict([i \in DOMAIN ks |-> <<ks[i], vs[i]>>]) : vs \in [DOMAIN ks -> S]} : ks \in KeyOrders}

Flat == Scalars \cup Lists(Scalars, 2) \cup Dicts(Scalars)
Docs == Flat \cup Lists(Dicts(Scalars), 1) \cup Dicts(Lists(Scalars, 1))

\* The value a JSON document denotes: dicts as sets of members.
RECURSIVE Canon(_)
Canon(o) ==
    CASE o.t = "list" -> [o EXCEPT !.v = [i \in DOMAIN o.v |-> Canon(o.v[i])]]
      [] o.t = "dict" -> [o EXCEPT !.v = {<<o.v[i][1], Canon(o.v[i][2])>> : i \in DOMAIN o.v}]
      [] OTHER -> o

TopKeys(o) == IF o.t = "dict" THEN {o.v[i][1] : i \in DOMAIN o.v} ELSE {}

\* The server's redactable form: every dict value v becomes [nonce, v].
RECURSIVE Encode(_)
Encode(o) ==
    CASE o.t = "list" -> [o EXCEPT !.v = [i \in DOMAIN o.v |-> Encode(o.v[i])]]
      [] o.t = "dict" ->
           [o EXCEPT !.v = [i \in DOMAIN o.v |-> <<o.v[i][1], List(<<Str(Nonce), Encode(o.v[i][2])>>)>>]]
      [] OTHER -> o

\* The server's redaction of the top-level members with keys in K.
RedactKeys(o, K) ==
    IF o.t # "dict" THEN o
    ELSE [o EXCEPT !.v = [i \in DOMAIN o.v |->
            IF o.v[i][1] \in K
            THEN <<o.v[i][1], [t |-> "red", v |-> ObjectHashWithStdRedaction(o.v[i][2])]>>
            ELSE o.v[i]]]

RemoveKeys(o, K) ==
    IF o.t # "dict" THEN o ELSE [o EXCEPT !.v = SelectSeq(o.v, LAMBDA m : m[1] \notin K)]

\* Values with redacted strings in them: arrays of one and dicts of one
\* member whose payload is a sequence of up to two scalar digests.
Payloads == SeqsUpTo({ObjectHashWithStdRedaction(s) : s \in Scalars}, 0, 2)
RedStrings == {[t |-> "red", v |-> pl] : pl \in Payloads}
RedDocs == RedStrings \cup Lists(RedStrings, 1) \cup Dicts(RedStrings)

\* x is y with some values replaced by the redacted string of their hash.
RECURSIVE Redacts(_, _)
Redacts(x, y) ==
    \/ x = y
    \/ x.t = "red" /\ x.v = ObjectHashWithStdRedaction(y)
    \/ /\ x.t = y.t /\ x.t \in {"list", "dict"} /\ Len(x.v) = Len(y.v)
       /\ \A i \in DOMAIN x.v :
            IF x.t = "list" THEN Redacts(x.v[i], y.v[i])
            ELSE x.v[i][1] = y.v[i][1] /\ Redacts(x.v[i][2], y.v[i][2])

\* Log entries: dicts over the keys with a string or a number as values,
\* added as /xjson (stored as is) or /xjson/redactable (stored encoded).
EntryDocs == Dicts({Str(CHOOSE s \in Strings : TRUE), Num(1, 0)})
Stored(x, fmt) == IF fmt = "xjson" THEN x ELSE Encode(x)

\* The leaf input the log commits to for x: its objecthash.
EntryLeafInput(x, fmt) == DigestText(ObjectHashWithStdRedaction(Stored(x, fmt)))

\* What a getEntries answer can carry for an entry of x: as leaf_input the
\* committed leaf input or other bytes, and as extra_data any entry document, plain or encoded,
\* with any top-level members redacted -- or either field missing.
EntryTexts == {JsonText(RedactKeys(d, K)) : d \in EntryDocs \cup {Encode(y) : y \in EntryDocs},
                                          K \in SUBSET Keys}
EntryValues(x, fmt) ==
    [leaf_input : {Absent, Btoa(RawText("bytes")), Btoa(EntryLeafInput(x, fmt))},
     extra_data : {Absent} \cup {Btoa(t) : t \in EntryTexts}]

-----------------------------------------------------------------------------
Init == call = [kind |-> "none"]

\* Two objectHashWithStdRedaction calls on plain documents.
HashPair ==
    /\ call.kind = "none"
    /\ \E x, y \in Docs :
         call' = [kind |-> "pair", x |-> x, y |-> y,
                  hx |-> ObjectHashWithStdRedaction(x), hy |-> ObjectHashWithStdRedaction(y)]

\* A redactable document is hashed whole and with members redacted.
HashRedacted ==
    /\ call.kind = "none"
    /\ \E x \in Flat \cup Dicts(Lists(Scalars, 1)) : \E K \in SUBSET TopKeys(x) :
         call' = [kind |-> "redact",
                  hx |-> ObjectHashWithStdRedaction(Encode(x)),
                  hr |-> ObjectHashWithStdRedaction(RedactKeys(Encode(x), K))]

\* A document with redacted strings and a plain one, both hashed.
HashForged ==
    /\ call.kind = "none"
    /\ \E x \in RedDocs, y \in Flat :
         call' = [kind |-> "forged", x |-> x, y |-> y,
                  hx |-> ObjectHashWithStdRedaction(x), hy |-> ObjectHashWithStdRedaction(y)]

\* RedactedJsonEntry.getData on a redacted redactable document, or on a
\* document as it stands.
GetRedactedData ==
    /\ call.kind = "none"
    /\ \E x \in Docs, K \in SUBSET Keys :
         \E d \in {RedactKeys(Encode(x), K \cap TopKeys(x)), x} :
           call' = [kind |-> "getdata", x |-> x, K |-> K \cap TopKeys(x), doc |-> d,
                    encoded |-> d = RedactKeys(Encode(x), K \cap TopKeys(x)),
                    result |-> RedactedGetData(d)]

\* The number branch on two dyadic values.
EncodeNumbers ==
    /\ call.kind = "none"
    /\ \E a, b \in Dyadics :
         call' = [kind |-> "num", a |-> a, b |-> b,
                  ea |-> FloatEncoding(a[1], a[2]), eb |-> FloatEncoding(b[1], b[2]),
                  \* the loops are reached only for a nonzero value
                  ma |-> IF a[1] = 0 THEN [a |-> 0, b |-> 0, e |-> 0]
                         ELSE NormalizeMagnitude(a[1], a[2])]

\* An auditor reads one entry of a log of x through a factory: the entry
\* is accepted when its getLeafHash is the leaf the log commits to (what
\* verifyEntries's root comparison amounts to), and then each() reads
\* its getData.
ReadEntry ==
    /\ call.kind = "none"
    /\ \E x \in EntryDocs, fmt \in {"xjson", "redactable"}, f \in {"raw", "json", "redacted"} :
       \E b \in EntryValues(x, fmt) :
         LET e == CreateFromLeafData(f, b)
             accepted == /\ e # Throw /\ ~LeafHashThrows(e)
                         /\ GetLeafHash(e) = LeafMerkleTreeHash(EntryLeafInput(x, fmt))
         IN  call' = [kind |-> "entry", x |-> x, fmt |-> fmt, f |-> f,
                      accepted |-> accepted, read |-> IF accepted THEN GetData(e) ELSE Throw]

\* getEntry(idx, factory) on a server answer carrying element b.
GetEntryCall ==
    /\ call.kind = "none"
    /\ \E x \in EntryDocs, fmt \in {"xjson", "redactable"}, f \in {"raw", "json", "redacted"} :
       \E b \in EntryValues(x, fmt) :
         call' = [kind |-> "one", f |-> f, b |-> b, e |-> CreateFromLeafData(f, GetEntryElement(b))]

Return ==
    /\ call.kind # "none"
    /\ call' = [kind |-> "none"]

Next == ReadEntry \/ GetEntryCall \/ HashPair \/ HashRedacted \/ HashForged \/ GetRedactedData \/ EncodeNumbers \/ Return

Spec == Init /\ [][Next]_vars

-----------------------------------------------------------------------------
\* The object hash is canonical: two plain documents hash alike exactly
\* when they denote the same value -- dict members in any insertion order
\* (kh.sort()), and no two different values with one hash (the type tags
\* and the one-digest-per-element concatenation).
HashCanonical ==
    call.kind = "pair" => (call.hx = call.hy <=> Canon(call.x) = Canon(call.y))

\* Redacting members of a redactable document, which replaces each by the
\* prefixed hex of its objecthash, leaves the document's objecthash as it
\* was: the string branch's decodeHex gives back exactly that digest.
RedactionPreservesHash ==
    call.kind = "redact" => call.hx = call.hr

\* getData of a redactable document with some members redacted is the
\* original document without those members: shedRedacted keeps the
\* second element of every nonce tuple and drops the redacted strings.
ShedInverse ==
    call.kind = "getdata" /\ call.encoded
    => Canon(call.result) = Canon(RemoveKeys(call.x, call.K))

\* What an auditor reads from a verified entry is what was added: through
\* JsonEntry, the stored document up to member order with some top-level
\* members redacted; through RedactedJsonEntry on a redactable log, the
\* added document without some of its top-level members -- for any entry
\* document, plain or encoded, with top-level members redacted, that the
\* server sends, and never an undefined getData.
EntryReadSound ==
    call.kind = "entry" /\ call.accepted
    /\ (call.f = "json" \/ (call.f = "redacted" /\ call.fmt = "redactable"))
    => /\ call.read.tx = "json"
       /\ \E K \in SUBSET TopKeys(call.x) :
             Canon(call.read.v) = Canon(IF call.f = "json" THEN RedactKeys(Stored(call.x, call.fmt), K)
                                        ELSE RemoveKeys(call.x, K))

\* getEntry returns the entry getEntries would build from the same
\* element ("Get the entry at the specified index"): the factory sees
\* the entry's fields.  Checked by MCObjectHash_getentry.cfg only.
GetEntryAgreesWithGetEntries ==
    call.kind = "one" => call.e = CreateFromLeafData(call.f, call.b)

\* The number branch encodes every value in range (never undefined), and
\* two numbers alike exactly when they are equal.
NumberEncodingInjective ==
    call.kind = "num"
    => /\ call.ea.ok
       /\ (call.ea = call.eb <=> call.a[1] * 2^call.b[2] = call.b[1] * 2^call.a[2])

\* Spec 4.4 and the glossary: a redaction replaces a value by a string
\* carrying its hash; so a document with redacted strings hashes like a
\* plain one only if it is that one with some values redacted.
RedactionFaithful ==
    call.kind = "forged" /\ call.hx = call.hy => Redacts(call.x, call.y)

\* A member value that is neither a nonce tuple nor a redacted string,
\* anywhere in the document.
RECURSIVE Malformed(_)
Malformed(o) ==
    CASE o.t = "list" -> \E i \in DOMAIN o.v : Malformed(o.v[i])
      [] o.t = "dict" ->
           \E i \in DOMAIN o.v :
              \/ BadMember(o.v[i][2])
              \/ o.v[i][2].t = "list" /\ Len(o.v[i][2].v) = 2 /\ Malformed(o.v[i][2].v[2])
      [] OTHER -> FALSE

\* Spec 4.4: in shedRedacted "any other shape at this level is malformed and
\* the walk fails" -- getData of a malformed document is undefined.
ShedFailsWhole ==
    call.kind = "getdata" /\ Malformed(call.doc) => call.result = Undef

\* Spec 4.4: the magnitude is normalized into [0.5, 1) before the mantissa
\* bits are written.
NormalizedInSpecRange ==
    call.kind = "num" /\ call.a[1] # 0
    => 2 * call.ma.a >= 2^call.ma.b /\ call.ma.a < 2^call.ma.b

=============================================================================
