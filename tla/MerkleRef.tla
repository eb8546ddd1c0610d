----------------------------- MODULE MerkleRef -----------------------------
(***************************************************************************)
(* Reference definitions the log algorithms are checked against: the      *)
(* RFC 6962 tree hash of a sequence of entries, and two readings of a      *)
(* digest in the collision-free term model of MerkleLog -- the digests a   *)
(* party holding a root can present (its sub-terms), and the entries a     *)
(* root commits to (its leaves, left to right).                            *)
(***************************************************************************)
EXTENDS MerkleLog

\* The RFC 6962 definition of the tree hash, the reference the algorithms
\* are checked against: split at the largest power of two below n.
RECURSIVE RefMTH(_)
RefMTH(d) ==
    IF Len(d) = 0 THEN NoHash
    ELSE IF Len(d) = 1 THEN LeafMerkleTreeHash(d[1])
    ELSE LET k == CHOOSE p \in {2^j : j \in 0..Len(d)} : p < Len(d) /\ 2 * p >= Len(d)
         IN  NodeMerkleTreeHash(RefMTH(SubSeq(d, 1, k)), RefMTH(SubSeq(d, k + 1, Len(d))))

HeadOf(d) == [treeSize |-> Len(d), rootHash |-> RefMTH(d)]

\* A digest produced by nodeMerkleTreeHash.
IsNode(d) == d[1] = "node"

\* The digests a server can present: every sub-term of a root.
RECURSIVE SubTerms(_)
SubTerms(t) ==
    IF t = NoHash THEN {}
    ELSE IF IsNode(t) THEN {t} \cup SubTerms(t[2]) \cup SubTerms(t[3])
    ELSE {t}

\* The leaves of a root, left to right (decoding the collision-free hash).
RECURSIVE LeavesOf(_)
LeavesOf(t) ==
    IF t = NoHash THEN <<>>
    ELSE IF IsNode(t) THEN LeavesOf(t[2]) \o LeavesOf(t[3])
    ELSE <<t[2]>>

\* Every sequence of 0..n elements of S.
SeqsUpTo(S, lo, n) == UNION {[1..k -> S] : k \in lo..n}

=============================================================================
