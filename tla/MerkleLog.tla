----------------------------- MODULE MerkleLog -----------------------------
(***************************************************************************)
(* The Merkle-tree math of the verifiable log: leaf and node hashes, the   *)
(* range splits that describe inclusion and consistency audit paths        *)
(* (src/assets/www/log.js), the stack-based tree hash of the audit tool,   *)
(* and the two proof verifiers of src/assets/static/continusec.js.         *)
(*                                                                         *)
(* SHA-256 is abstracted as a free term constructor: a digest is the term  *)
(* that produced it, so two digests are equal exactly when their inputs    *)
(* are.  This is the collision resistance every proof argument relies on.  *)
(* The leading 0x00 / 0x01 byte of the code becomes the "leaf" / "node"    *)
(* tag of the term.                                                        *)
(***************************************************************************)
EXTENDS Naturals, Integers, Sequences

\* JavaScript null where a head is expected (prev == null): a model value.
CONSTANT None

\* The root hash of a log of size 0 (the server sends root_hash: null).
NoHash == <<"null">>

\* HASH(chr(0) || b)
LeafMerkleTreeHash(b) == <<"leaf", b>>

\* HASH(chr(1) || l || r)
NodeMerkleTreeHash(l, r) == <<"node", l, r>>

\* isPow2: halve k while it is even and greater than one.
RECURSIVE IsPow2(_)
IsPow2(k) == IF k % 2 = 0 /\ k > 1 THEN IsPow2(k \div 2) ELSE k = 1

\* ReallyCalcK: the largest power of two strictly below n (1 when n <= 2).
ReallyCalcK(n) ==
    LET RECURSIVE Grow(_)
        Grow(k) == IF 2 * k < n THEN Grow(2 * k) ELSE k
    IN  Grow(1)

-----------------------------------------------------------------------------
(* Range splits.  A range is <<start, end>>, end exclusive, 0-based.       *)

\* Fault variant of Path: the left branch also taken at m = k.
RECURSIVE PathLeftAtK(_, _, _)
PathLeftAtK(m, s, e) ==
    IF e - s = 1 THEN <<>>
    ELSE LET k == ReallyCalcK(e - s)
         IN  IF m <= k THEN Append(PathLeftAtK(m, s, s + k), <<s + k, e>>)
                       ELSE Append(PathLeftAtK(m - k, s + k, e), <<s, s + k>>)

\* Path(m, start_n, end_n): the sibling ranges of leaf m, bottom-up.
RECURSIVE Path(_, _, _)
Path(m, s, e) ==
    IF e - s = 1 THEN <<>>
    ELSE LET k == ReallyCalcK(e - s)
         IN  IF m < k THEN Append(Path(m, s, s + k), <<s + k, e>>)
                      ELSE Append(Path(m - k, s + k, e), <<s, s + k>>)

\* Fault variant of SubProof: the range itself is emitted even when it is
\* the whole first tree (b ignored).
RECURSIVE SubProofIgnoringB(_, _, _, _)
SubProofIgnoringB(m, s, e, b) ==
    IF m = e - s THEN << <<s, e>> >>
    ELSE LET k == ReallyCalcK(e - s)
         IN  IF m <= k THEN Append(SubProofIgnoringB(m, s, s + k, b), <<s + k, e>>)
                       ELSE Append(SubProofIgnoringB(m - k, s + k, e, FALSE), <<s, s + k>>)

\* SubProof(m, start_n, end_n, b): the consistency ranges between the
\* first m leaves of [start_n, end_n) and the whole range.
RECURSIVE SubProof(_, _, _, _)
SubProof(m, s, e, b) ==
    IF m = e - s THEN (IF b THEN <<>> ELSE << <<s, e>> >>)
    ELSE LET k == ReallyCalcK(e - s)
         IN  IF m <= k THEN Append(SubProof(m, s, s + k, b), <<s + k, e>>)
                       ELSE Append(SubProof(m - k, s + k, e, FALSE), <<s, s + k>>)

-----------------------------------------------------------------------------
(* FakeTree.CalculateMTH: the tree hash of entries[start..end) computed    *)
(* with a stack, merging the top two hashes once per trailing one bit of  *)
(* the index just pushed, then folding what is left from the right.        *)

MergeTop(stack) ==
    Append(SubSeq(stack, 1, Len(stack) - 2),
           NodeMerkleTreeHash(stack[Len(stack) - 1], stack[Len(stack)]))

\* Fault variant of the merge loop: `if` where the code has `while`.
MergeOnceIfOdd(stack, j) == IF j % 2 = 1 THEN MergeTop(stack) ELSE stack

RECURSIVE MergeWhileOdd(_, _)
MergeWhileOdd(stack, j) ==
    IF j % 2 = 1 THEN MergeWhileOdd(MergeTop(stack), j \div 2) ELSE stack

RECURSIVE Collapse(_)
Collapse(stack) == IF Len(stack) > 1 THEN Collapse(MergeTop(stack)) ELSE stack

CalculateMTH(entries, start, end) ==
    LET RECURSIVE Push(_, _)
        Push(stack, i) ==
            IF i = end - start THEN stack
            ELSE Push(MergeWhileOdd(Append(stack, LeafMerkleTreeHash(entries[start + i + 1])), i),
                      i + 1)
    IN  Collapse(Push(<<>>, 0))[1]

(* DrawTree(c, 0, n, entries): the audit tool's picture of a whole tree.  *)
(* Leaving the canvas aside, it fills a cache keyed by "a-b" (here <<a, b>>) *)
(* with the leaf hashes, then level by level (skip = 2, 4, ...) joins the  *)
(* ranges <<j, j + skip/2>> and <<j + skip/2, min(j + skip, n)>> when both *)
(* are cached, and draws each join.  The levels are 1 + Path(0, 0, n)      *)
(* rows high, and only trees starting at 0 with fewer than 50 entries are  *)
(* drawn.                                                                   *)

DrawLeaves(entries) ==
    [r \in {<<i, i + 1>> : i \in 0 .. Len(entries) - 1} |-> LeafMerkleTreeHash(entries[r[2]])]

\* Fault variant of DrawJoins: the right range is not clipped at n.
DrawJoinsUnclipped(cache, skip, n) ==
    LET joined == {j \in {x * skip : x \in 0 .. (n - 1) \div skip} :
                     /\ <<j, j + skip \div 2>> \in DOMAIN cache
                     /\ <<j + skip \div 2, j + skip>> \in DOMAIN cache}
        Key(j) == <<j, j + skip>>
        new == {Key(j) : j \in joined}
    IN  [r \in DOMAIN cache \cup new |->
           IF r \in new THEN NodeMerkleTreeHash(cache[<<r[1], r[1] + skip \div 2>>],
                                                cache[<<r[1] + skip \div 2, r[2]>>])
           ELSE cache[r]]

\* One level of the drawing loop: for j = 0, skip, 2 skip, ... below n.
DrawJoins(cache, skip, n) ==
    LET Right(j) == IF j + skip < n THEN j + skip ELSE n
        joined == {j \in {x * skip : x \in 0 .. (n - 1) \div skip} :
                     /\ <<j, j + skip \div 2>> \in DOMAIN cache
                     /\ <<j + skip \div 2, Right(j)>> \in DOMAIN cache}
        new == {<<j, Right(j)>> : j \in joined}
    IN  [r \in DOMAIN cache \cup new |->
           IF r \in new THEN NodeMerkleTreeHash(cache[<<r[1], r[1] + skip \div 2>>],
                                                cache[<<r[1] + skip \div 2, r[2]>>])
           ELSE cache[r]]

\* The cache DrawTree ends with: every range it drew and its hash.
DrawTree(entries) ==
    LET n == Len(entries)
        RECURSIVE Levels(_, _)
        Levels(cache, i) ==
            IF i >= Len(Path(0, 0, n)) THEN cache
            ELSE Levels(DrawJoins(cache, 2^(i + 1), n), i + 1)
    IN  IF n >= 50 THEN [r \in {} |-> NoHash] ELSE Levels(DrawLeaves(entries), 0)

\* FakeTree.InclusionProof and FakeTree.ConsistencyProof: the hashes of the
\* ranges named by Path and SubProof.
RangeHashes(entries, ranges) ==
    [i \in DOMAIN ranges |-> CalculateMTH(entries, ranges[i][1], ranges[i][2])]

InclusionProof(entries, li, ts) == RangeHashes(entries, Path(li, 0, ts))

ConsistencyProof(entries, first, second) ==
    RangeHashes(entries, SubProof(first, 0, second, TRUE))

-----------------------------------------------------------------------------
(* Proof verification.  An outcome is "throw" (CONTINUSEC_VERIFICATION_    *)
(* ERROR is thrown), "false" (the function executes `return false`),      *)
(* "ok" (it returns normally after its final comparisons), or "hang" (it  *)
(* never returns).  Every caller wraps verify in try/catch and calls       *)
(* success() when it returns without throwing.                             *)

Accepted(outcome) == outcome \in {"ok", "false"}

(* JavaScript's `>>` and `&` convert their operand with ToInt32: the value *)
(* modulo 2^IntWidth, read as a signed IntWidth-bit number.  TLC's own     *)
(* integers lie in [-2^31, 2^31), where ToInt32 is the identity, so at the *)
(* real width 32 the conversion changes nothing TLC can represent; a       *)
(* smaller width, given in a cfg, puts the sign bit within reach of small  *)
(* logs.  `x & 1` is x % 2 at any width, since 2^IntWidth is even.         *)
IntWidth == 32

ToInt32(x) ==
    IF IntWidth >= 32 THEN x
    ELSE LET h == 2^(IntWidth - 1)
             u == x % (2 * h)
         IN  IF u >= h THEN u - 2 * h ELSE u

\* `x >> 1`: an arithmetic shift, rounding towards minus infinity.
Shr(x) == ToInt32(x) \div 2

\* The inner loop `while (!((fn === 0) || ((fn & 1) == 1)))`: shift fn and
\* sn right together while fn is even and non-zero.
RECURSIVE ShiftWhileEven(_)
ShiftWhileEven(s) ==
    IF s.fn = 0 \/ s.fn % 2 = 1 THEN s
    ELSE ShiftWhileEven([s EXCEPT !.fn = Shr(@), !.sn = Shr(@)])

Halve(s) == [s EXCEPT !.fn = Shr(@), !.sn = Shr(@)]

\* The audit-path loop of LogInclusionProof.verify.
RECURSIVE InclusionFold(_, _)
InclusionFold(s, path) ==
    IF path = <<>> THEN s
    ELSE LET p == Head(path)
             t == IF s.fn = s.sn \/ s.fn % 2 = 1
                  THEN ShiftWhileEven([s EXCEPT !.r = NodeMerkleTreeHash(p, s.r)])
                  ELSE [s EXCEPT !.r = NodeMerkleTreeHash(s.r, p)]
         IN  InclusionFold(Halve(t), Tail(path))

\* Fault variant of VerifyInclusionProof: the range check is off by one
\* (`leafIndex > treeSize`).
VerifyInclusionProofOffByOne(proof, head) ==
    IF head.treeSize # proof.treeSize THEN "throw"
    ELSE IF proof.leafIndex > proof.treeSize \/ proof.leafIndex < 0 THEN "false"
    ELSE LET s == InclusionFold([fn |-> proof.leafIndex, sn |-> proof.treeSize - 1,
                                 r |-> proof.leafHash], proof.auditPath)
         IN  IF s.sn # 0 \/ s.r # head.rootHash THEN "throw" ELSE "ok"

\* Fault variant of VerifyInclusionProof: the `sn != 0` check after the
\* loop is missing.
VerifyInclusionProofNoSnCheck(proof, head) ==
    IF head.treeSize # proof.treeSize THEN "throw"
    ELSE IF proof.leafIndex >= proof.treeSize \/ proof.leafIndex < 0 THEN "false"
    ELSE LET s == InclusionFold([fn |-> proof.leafIndex, sn |-> proof.treeSize - 1,
                                 r |-> proof.leafHash], proof.auditPath)
         IN  IF s.r # head.rootHash THEN "throw" ELSE "ok"

\* LogInclusionProof.prototype.verify(head); proof is
\* [leafHash, treeSize, leafIndex, auditPath], head is [treeSize, rootHash].
VerifyInclusionProof(proof, head) ==
    IF head.treeSize # proof.treeSize THEN "throw"
    ELSE IF proof.leafIndex >= proof.treeSize \/ proof.leafIndex < 0 THEN "false"
    ELSE LET s == InclusionFold([fn |-> proof.leafIndex, sn |-> proof.treeSize - 1,
                                 r |-> proof.leafHash], proof.auditPath)
         IN  IF s.sn # 0 \/ s.r # head.rootHash THEN "throw" ELSE "ok"

\* `while ((fn & 1) == 1)` before the consistency loop.  -1 >> 1 is -1,
\* so once fn is -1 the loop never ends: the recursion stops there and
\* Spins tells.
RECURSIVE ShiftWhileOdd(_)
ShiftWhileOdd(s) == IF s.fn % 2 = 1 /\ Shr(s.fn) # s.fn THEN ShiftWhileOdd(Halve(s)) ELSE s

Spins(s) == s.fn % 2 = 1

\* The loop of LogConsistencyProof.verify over newProof[1..]; `early` records
\* the `if (sn === 0) return false;` exit.
RECURSIVE ConsistencyFold(_, _)
ConsistencyFold(s, path) ==
    IF path = <<>> THEN s
    ELSE IF s.sn = 0 THEN [s EXCEPT !.early = TRUE]
    ELSE LET p == Head(path)
             t == IF s.fn % 2 = 1 \/ s.fn = s.sn
                  THEN ShiftWhileEven([s EXCEPT !.fr = NodeMerkleTreeHash(p, s.fr),
                                                !.sr = NodeMerkleTreeHash(p, s.sr)])
                  ELSE [s EXCEPT !.sr = NodeMerkleTreeHash(s.sr, p)]
         IN  ConsistencyFold(Halve(t), Tail(path))

\* Fault variant of VerifyConsistencyProof: the recomputed first root is
\* never compared with first.rootHash.
VerifyConsistencyProofNoFirstCheck(proof, first, second) ==
    IF first.treeSize # proof.firstSize \/ second.treeSize # proof.secondSize THEN "throw"
    ELSE IF proof.firstSize < 1 \/ proof.firstSize >= proof.secondSize THEN "throw"
    ELSE LET newProof == (IF IsPow2(proof.firstSize) THEN <<first.rootHash>> ELSE <<>>)
                         \o proof.auditPath
             s0 == ShiftWhileOdd([fn |-> proof.firstSize - 1, sn |-> proof.secondSize - 1])
         IN  IF Spins(s0) THEN "hang"
             ELSE IF newProof = <<>> THEN "false"
             ELSE LET s == ConsistencyFold([fn |-> s0.fn, sn |-> s0.sn, fr |-> newProof[1],
                                            sr |-> newProof[1], early |-> FALSE],
                                           Tail(newProof))
                  IN  IF s.early THEN "false"
                      ELSE IF s.sn # 0 \/ s.sr # second.rootHash THEN "throw" ELSE "ok"

\* LogConsistencyProof.prototype.verify(first, second); proof is
\* [firstSize, secondSize, auditPath].
VerifyConsistencyProof(proof, first, second) ==
    IF first.treeSize # proof.firstSize \/ second.treeSize # proof.secondSize THEN "throw"
    ELSE IF proof.firstSize < 1 \/ proof.firstSize >= proof.secondSize THEN "throw"
    ELSE LET newProof == (IF IsPow2(proof.firstSize) THEN <<first.rootHash>> ELSE <<>>)
                         \o proof.auditPath
             s0 == ShiftWhileOdd([fn |-> proof.firstSize - 1, sn |-> proof.secondSize - 1])
         IN  IF Spins(s0) THEN "hang"
             ELSE IF newProof = <<>> THEN "false"
             ELSE LET s == ConsistencyFold([fn |-> s0.fn, sn |-> s0.sn, fr |-> newProof[1],
                                            sr |-> newProof[1], early |-> FALSE],
                                           Tail(newProof))
                  IN  IF s.early THEN "false"
                      ELSE IF s.sn # 0 \/ s.fr # first.rootHash \/ s.sr # second.rootHash
                           THEN "throw" ELSE "ok"

\* DrawInclusionProof(c, leaf_index, mtlHash, tree_size, tree_hash, proof)
\* (log.js): leaving the canvas aside, the hashes of the nodes it draws,
\* bottom-up.  Its loop is the audit-path loop of LogInclusionProof.verify,
\* with lsb(x) for (x & 1) == 1; each node is coloured "tree_hash" when it
\* equals tree_hash.  No range or sn check is made.
DrawInclusionNodes(li, mtlHash, ts, proof) ==
    [i \in DOMAIN proof |->
       InclusionFold([fn |-> li, sn |-> ts - 1, r |-> mtlHash], SubSeq(proof, 1, i)).r]

\* DrawConsistencyProofInContext (log.js): the loop of
\* LogConsistencyProof.verify without its `sn === 0` exit, drawing each
\* step of the first-tree chain fr and the second-tree chain sr.
RECURSIVE DrawConsistencyFold(_, _)
DrawConsistencyFold(s, path) ==
    IF path = <<>> THEN s
    ELSE LET p == Head(path)
             t == IF s.fn = s.sn \/ s.fn % 2 = 1
                  THEN ShiftWhileEven([s EXCEPT !.fr = NodeMerkleTreeHash(p, s.fr),
                                                !.sr = NodeMerkleTreeHash(p, s.sr)])
                  ELSE [s EXCEPT !.sr = NodeMerkleTreeHash(s.sr, p)]
         IN  DrawConsistencyFold(Halve(t), Tail(path))

\* The top hashes of the two chains the drawing ends with (coloured
\* first_hash / second_hash when they equal them): proof[0] when a chain
\* has no step, None when the proof, with first_hash put in front for a
\* power-of-two first size, is empty.
DrawConsistencyRoots(first, second, firstHash, proof) ==
    LET newProof == (IF IsPow2(first) THEN <<firstHash>> ELSE <<>>) \o proof
        s0 == ShiftWhileOdd([fn |-> first - 1, sn |-> second - 1])
    IN  IF newProof = <<>> THEN [fr |-> None, sr |-> None]
        ELSE LET s == DrawConsistencyFold([fn |-> s0.fn, sn |-> s0.sn, fr |-> newProof[1],
                                           sr |-> newProof[1]], Tail(newProof))
             IN  [fr |-> s.fr, sr |-> s.sr]

\* VerifiableLog.prototype.verifyConsistency(a, b): the checks made before a
\* proof is fetched.  "fetch" means a proof for <<smaller, larger>> is needed.
ConsistencyPrecheck(a, b) ==
    IF a.treeSize <= 0 \/ b.treeSize <= 0 THEN "throw"
    ELSE IF a.treeSize = b.treeSize
         THEN (IF a.rootHash # b.rootHash THEN "throw" ELSE "ok")
         ELSE "fetch"

\* The swap `if (a.getTreeSize() > b.getTreeSize())` before the fetch.
Ordered(a, b) == IF a.treeSize > b.treeSize THEN <<b, a>> ELSE <<a, b>>

\* The whole of verifyConsistency(a, b) when the server answers the fetch
\* with auditPath; the response carries the sizes that were asked for.
VerifyConsistency(a, b, auditPath) ==
    LET pre == ConsistencyPrecheck(a, b)
        o   == Ordered(a, b)
    IN  IF pre # "fetch" THEN pre
        ELSE VerifyConsistencyProof([firstSize |-> o[1].treeSize,
                                     secondSize |-> o[2].treeSize,
                                     auditPath |-> auditPath], o[1], o[2])

=============================================================================
