---------------------------- MODULE ObjectHash -----------------------------
(***************************************************************************)
(* objectHashWithRedaction and shedRedacted (src/assets/static/            *)
(* continusec.js): the canonical hash of a JSON value and the walk that    *)
(* strips a redactable document back to plain JSON.                        *)
(*                                                                         *)
(* A JSON value is a record tagged t: "null", "bool", "num" (a dyadic      *)
(* number p / 2^q, which a double holds exactly), "str", "list" (a         *)
(* sequence) or "dict" (its members <<key, value>> in the order for..in  *)
(* visits them).  A string is "str" with a model value, or "red": one that *)
(* starts with REDACTED_PREFIX followed by the hex of its payload, a       *)
(* sequence of digests.  Keys are plain strings (model values).            *)
(*                                                                         *)
(* The result of the code is a byte string.  It is a sequence of units     *)
(* here: a digest (the term OHash(tag, bytes)), or a text the code         *)
(* appends.  Concatenation (`+=`, `join`) is \o.                           *)
(***************************************************************************)
EXTENDS MerkleLog

LOCAL INSTANCE SequencesExt

CONSTANT KeyRank    \* key -> its position in the byte order of SHA-256(key)

\* sha256(tag + bytes)
OHash(tag, bytes) == <<"oh", tag, bytes>>

\* The text "undefined" that `+=` appends when a call returns undefined.
UndefinedText == <<"text", "undefined">>

-----------------------------------------------------------------------------
(* Number normalization.  A magnitude a / 2^b is kept as [a, b].           *)

\* `while (o > 1) { o /= 2.0; e++; }`
RECURSIVE Shrink(_)
Shrink(m) == IF m.a > 2^m.b THEN Shrink([m EXCEPT !.b = @ + 1, !.e = @ + 1]) ELSE m

\* Fault variant of Grow: `while (o < 0.5)`.
RECURSIVE GrowBelowHalf(_)
GrowBelowHalf(m) ==
    IF 2 * m.a < 2^m.b
    THEN GrowBelowHalf(IF m.b > 0 THEN [m EXCEPT !.b = @ - 1, !.e = @ - 1]
                                  ELSE [m EXCEPT !.a = @ * 2, !.e = @ - 1])
    ELSE m

\* `while (o <= 0.5) { o *= 2.0; e--; }`
RECURSIVE Grow(_)
Grow(m) ==
    IF 2 * m.a <= 2^m.b
    THEN Grow(IF m.b > 0 THEN [m EXCEPT !.b = @ - 1, !.e = @ - 1]
                         ELSE [m EXCEPT !.a = @ * 2, !.e = @ - 1])
    ELSE m

\* The magnitude of p / 2^q after both loops, with its exponent e.
NormalizeMagnitude(p, q) == Grow(Shrink([a |-> IF p < 0 THEN -p ELSE p, b |-> q, e |-> 0]))

\* The characters of the decimal exponent (with its minus sign).
RECURSIVE DigitCount(_)
DigitCount(n) == IF n < 0 THEN 1 + DigitCount(-n) ELSE IF n < 10 THEN 1 ELSE 1 + DigitCount(n \div 10)

\* The mantissa loop: emit 1 and subtract while o >= 1, else 0; double;
\* stop at o == 0, and give up (ok = FALSE: undefined) at 1000 characters
\* or if o is still >= 1 after the subtraction.  prefixLen is the length
\* of sign, exponent and ':'.
RECURSIVE Mantissa(_, _, _)
Mantissa(m, bits, prefixLen) ==
    IF m.a = 0 THEN [ok |-> TRUE, bits |-> bits]
    ELSE LET one  == m.a >= 2^m.b
             rest == IF one THEN m.a - 2^m.b ELSE m.a
             out  == Append(bits, IF one THEN 1 ELSE 0)
         IN  IF rest >= 2^m.b \/ prefixLen + Len(out) >= 1000 THEN [ok |-> FALSE, bits |-> out]
             ELSE Mantissa(IF m.b > 0 THEN [m EXCEPT !.a = rest, !.b = @ - 1]
                                      ELSE [m EXCEPT !.a = rest * 2], out, prefixLen)

\* The string after the 'f' tag for p / 2^q: "+0:" for zero, else sign,
\* e, ':' and the mantissa bits; ok = FALSE where the code returns
\* undefined.
FloatEncoding(p, q) ==
    IF p = 0 THEN [ok |-> TRUE, sign |-> "+", e |-> 0, bits |-> <<>>]
    ELSE LET m   == NormalizeMagnitude(p, q)
             man == Mantissa(m, <<>>, 2 + DigitCount(m.e))
         IN  IF m.a > 2^m.b \/ 2 * m.a <= 2^m.b \/ ~man.ok THEN [ok |-> FALSE]
             ELSE [ok |-> TRUE, sign |-> IF p < 0 THEN "-" ELSE "+", e |-> m.e,
                   bits |-> man.bits]

-----------------------------------------------------------------------------
(* objectHashWithRedaction(o, prefix); redact is prefix.length > 0, and    *)
(* the prefix is REDACTED_PREFIX when it is.                               *)

Str(k) == [t |-> "str", v |-> k]

\* The bytes of a string: its model value, or the prefixed hex text.
StringBytes(o) == IF o.t = "str" THEN o.v ELSE o

\* Fault variant of StringHash: a prefixed string is hashed as text.
StringHashIgnoringPrefix(o, redact) == <<OHash("u", <<StringBytes(o)>>)>>

\* The string branch: decodeHex of what follows the prefix, of whatever
\* length, else sha256('u' + normalize(o)).
StringHash(o, redact) ==
    IF redact /\ o.t = "red" THEN o.v ELSE <<OHash("u", <<StringBytes(o)>>)>>

\* The number branch; an undefined result, appended to the caller's
\* input, is the text "undefined".
NumberHash(o) ==
    LET enc == FloatEncoding(o.p, o.q)
    IN  IF enc.ok THEN <<OHash("f", <<enc>>)>> ELSE <<UndefinedText>>

\* Fault variant of SortedMembers: kh left in for..in order.
UnsortedMembers(kh) == kh

\* kh.sort(): each element starts with the 32 bytes of its key's digest,
\* and keys are distinct, so the order is the key digests' byte order.
SortedMembers(kh) ==
    SetToSortSeq({kh[i] : i \in DOMAIN kh}, LAMBDA x, y : KeyRank[x.key] < KeyRank[y.key])

RECURSIVE OH(_, _)
OH(o, redact) ==
    CASE o.t = "null" -> <<OHash("n", <<>>)>>
      [] o.t = "list" ->
           <<OHash("l", FoldLeft(LAMBDA acc, e : acc \o OH(e, redact), <<>>, o.v))>>
      [] o.t \in {"str", "red"} -> StringHash(o, redact)
      [] o.t = "num"  -> NumberHash(o)
      [] o.t = "bool" -> <<OHash("b", <<IF o.v THEN "1" ELSE "0">>)>>
      [] o.t = "dict" ->
           LET kh == [i \in DOMAIN o.v |->
                        [key   |-> o.v[i][1],
                         bytes |-> OH(Str(o.v[i][1]), redact) \o OH(o.v[i][2], redact)]]
           IN  <<OHash("d", FoldLeft(LAMBDA acc, m : acc \o m.bytes, <<>>, SortedMembers(kh)))>>

\* objectHash(o) and objectHashWithStdRedaction(o).
ObjectHash(o) == OH(o, FALSE)
ObjectHashWithStdRedaction(o) == OH(o, TRUE)

-----------------------------------------------------------------------------
(* shedRedacted(o, REDACTED_PREFIX) and JSON.stringify of its result.      *)

\* JavaScript undefined, as a value.
Undef == [t |-> "undef"]

\* Fault variant of NonceTuplePayload: v[0], the nonce, is kept.
NonceTupleNonce(v) == v.v[1]

\* `rv[k] = shedRedacted(v[1], prefix)` keeps the second element.
NonceTuplePayload(v) == v.v[2]

\* A member value that makes the dict branch `return undefined`: neither a
\* 2-element array nor a string that starts with the prefix.
BadMember(v) == ~(v.t = "list" /\ Len(v.v) = 2) /\ v.t # "red"

RECURSIVE Shed(_)
Shed(o) ==
    CASE o.t = "list" -> [o EXCEPT !.v = [i \in DOMAIN o.v |-> Shed(o.v[i])]]
      [] o.t = "dict" ->
           IF \E i \in DOMAIN o.v : BadMember(o.v[i][2]) THEN Undef
           ELSE LET kept == SelectSeq(o.v, LAMBDA m : m[2].t = "list")
                IN  [t |-> "dict",
                     v |-> [j \in DOMAIN kept |-> <<kept[j][1], Shed(NonceTuplePayload(kept[j][2]))>>]]
      [] OTHER -> o

\* JSON.stringify: an undefined member is left out, an undefined array
\* element is written null, and an undefined argument gives undefined.
RECURSIVE Stringify(_)
Stringify(o) ==
    CASE o.t = "list" ->
           [o EXCEPT !.v = [i \in DOMAIN o.v |-> IF o.v[i] = Undef THEN [t |-> "null"] ELSE Stringify(o.v[i])]]
      [] o.t = "dict" ->
           LET kept == SelectSeq(o.v, LAMBDA m : m[2] # Undef)
           IN  [o EXCEPT !.v = [j \in DOMAIN kept |-> <<kept[j][1], Stringify(kept[j][2])>>]]
      [] OTHER -> o

\* RedactedJsonEntry.getData: JSON.stringify(shedRedactedWithStdRedaction(..)).
RedactedGetData(o) == Stringify(Shed(o))

=============================================================================
