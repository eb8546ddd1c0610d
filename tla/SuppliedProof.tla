--------------------------- MODULE SuppliedProof ---------------------------
(***************************************************************************)
(* VerifiableLog.verifySuppliedInclusionProof(prev, proof): a caller that  *)
(* holds a persisted head prev (or null) is handed an inclusion proof by a *)
(* third party and checks it.  The call is getVerifiedTreeHead(prev,       *)
(* proof.treeSize), whose shortcut returns prev when the sizes match and   *)
(* otherwise sends getTreeHead(treeSize) and, with a prev, verifyConsistency *)
(* (which may send getConsistencyProof); then proof.verify(head).          *)
(*                                                                         *)
(* The server holds every log of at most MaxSize entries and answers each  *)
(* request from any of them (a forking server).  ProofModel is what the    *)
(* third party can supply:                                                 *)
(*   "wellformed" an inclusion proof of any log, for an index in range;    *)
(*   "anyindex"   the same paths with any leaf index in -1 .. MaxSize.     *)
(***************************************************************************)
EXTENDS MerkleRef

Seqs == INSTANCE SequencesExt

CONSTANTS Entries, MaxSize, ProofModel

ASSUME ProofModel \in {"wellformed", "anyindex"}

VARIABLES
    prev,   \* the caller's persisted head, or None
    pc,     \* "idle", "head" (getTreeHead sent), "proof" (consistency proof requested), "done"
    pf,     \* the supplied proof being checked
    head,   \* the head received while its consistency proof is outstanding
    res     \* what the call reported: [ok |-> FALSE] or [ok |-> TRUE, head |-> h]

vars == <<prev, pc, pf, head, res>>

AllLogs == SeqsUpTo(Entries, 0, MaxSize)
Heads == {HeadOf(d) : d \in AllLogs}

Indices(ts) == IF ProofModel = "wellformed" THEN 0 .. ts - 1 ELSE -1 .. MaxSize

\* The proofs the third party can hand over: the path of the inclusion
\* proof of an entry of some log, with that entry's leaf hash, stated for
\* any index the model allows.
Supplied ==
    {[leafHash |-> LeafMerkleTreeHash(x[1][x[3] + 1]), treeSize |-> x[2],
      leafIndex |-> x[4], auditPath |-> InclusionProof(x[1], x[3], x[2])]
        : x \in {<<d, ts, li, i>> \in AllLogs \X (1 .. MaxSize) \X (0 .. MaxSize - 1) \X (-1 .. MaxSize)
                   : li < ts /\ ts <= Len(d) /\ i \in Indices(ts)}}

\* What getTreeHead(treeSize) can return: a head of that size, or for 0
\* the latest head of any log.
ServedHeads(ts) == IF ts = 0 THEN Heads ELSE {h \in Heads : h.treeSize = ts}

\* What getConsistencyProof(first, second) can return.
ServedProofs(first, second) ==
    {ConsistencyProof(d, first.treeSize, second.treeSize) :
        d \in {f \in AllLogs : Len(f) >= second.treeSize}}

\* The last callback: proof.verify(h) in a try block; success(h) unless it
\* threw, so a verify that returns false is a success.
Verified(h) ==
    IF Accepted(VerifyInclusionProof(pf, h)) THEN [ok |-> TRUE, head |-> h] ELSE [ok |-> FALSE]

Init ==
    /\ prev \in {None} \cup {h \in Heads : h.treeSize > 0}
    /\ pc = "idle"
    /\ pf = None
    /\ head = None
    /\ res = None

\* verifySuppliedInclusionProof(prev, p) -> getVerifiedTreeHead(prev,
\* p.treeSize): with a prev of exactly that (non-zero) size it is used as
\* is; otherwise getTreeHead(p.treeSize) is sent.
Call(p) ==
    /\ pc = "idle"
    /\ pf' = p
    /\ IF p.treeSize # 0 /\ prev # None /\ prev.treeSize = p.treeSize
       THEN /\ pc' = "done"
            /\ res' = IF Accepted(VerifyInclusionProof(p, prev))
                      THEN [ok |-> TRUE, head |-> prev] ELSE [ok |-> FALSE]
       ELSE pc' = "head" /\ UNCHANGED res
    /\ UNCHANGED <<prev, head>>

\* Fault variant of ReceiveHead: the fetched head is used without
\* verifyConsistency, as if prev were null.
ReceiveHeadUnchecked(h) ==
    /\ pc = "head"
    /\ pc' = "done"
    /\ res' = Verified(h)
    /\ UNCHANGED <<prev, pf, head>>

\* The getTreeHead callback: with no prev the head is used at once;
\* otherwise verifyConsistency(prev, h) decides, or requests a proof.
ReceiveHead(h) ==
    /\ pc = "head"
    /\ IF prev = None \/ ConsistencyPrecheck(prev, h) = "ok"
       THEN pc' = "done" /\ res' = Verified(h) /\ UNCHANGED head
       ELSE IF ConsistencyPrecheck(prev, h) = "fetch"
            THEN pc' = "proof" /\ head' = h /\ UNCHANGED res
            ELSE pc' = "done" /\ res' = [ok |-> FALSE] /\ UNCHANGED head
    /\ UNCHANGED <<prev, pf>>

\* The getConsistencyProof callback: verify on the ordered heads, then
\* proof.verify(head) if it did not throw.
ReceiveProof(path) ==
    /\ pc = "proof"
    /\ LET o == Ordered(prev, head)
       IN  res' = IF Accepted(VerifyConsistencyProof([firstSize |-> o[1].treeSize,
                                                     secondSize |-> o[2].treeSize,
                                                     auditPath |-> path], o[1], o[2]))
                  THEN Verified(head) ELSE [ok |-> FALSE]
    /\ pc' = "done"
    /\ head' = None
    /\ UNCHANGED <<prev, pf>>

\* Fault variant of RequestFails: the failure callback is not passed on.
RequestFailsSilently ==
    /\ pc \in {"head", "proof"}
    /\ pc' = "done"
    /\ head' = None
    /\ UNCHANGED <<prev, pf, res>>

\* A request fails (makeRequest's failure): failure(reason) is called.
RequestFails ==
    /\ pc \in {"head", "proof"}
    /\ pc' = "done"
    /\ res' = [ok |-> FALSE]
    /\ head' = None
    /\ UNCHANGED <<prev, pf>>

\* The caller takes the result and may check another proof.
Return ==
    /\ pc = "done"
    /\ pc' = "idle" /\ pf' = None /\ res' = None
    /\ UNCHANGED <<prev, head>>

Next ==
    \/ \E p \in Supplied : Call(p)
    \/ pc = "head" /\ \E h \in ServedHeads(pf.treeSize) : ReceiveHead(h)
    \/ pc = "proof" /\ \E path \in ServedProofs(Ordered(prev, head)[1], Ordered(prev, head)[2]) :
                          ReceiveProof(path)
    \/ RequestFails
    \/ Return

Spec == Init /\ [][Next]_vars

-----------------------------------------------------------------------------
TypeOK ==
    /\ prev \in Heads \cup {None}
    /\ pc \in {"idle", "head", "proof", "done"}
    /\ pf \in Supplied \cup {None}
    /\ head \in Heads \cup {None}
    /\ res \in {None, [ok |-> FALSE]} \cup {[ok |-> TRUE, head |-> h] : h \in Heads}
    /\ (pc = "done") = (res # None)

\* The documentation of verifySuppliedInclusionProof: success is called
\* with a head the supplied proof was verified against -- the entry it
\* names is at its leaf index in the tree under that head.
SuppliedIncluded ==
    res # None /\ res.ok
    => LET leaves == LeavesOf(res.head.rootHash)
       IN  /\ pf.leafIndex \in 0 .. Len(leaves) - 1
           /\ LeafMerkleTreeHash(leaves[pf.leafIndex + 1]) = pf.leafHash

\* ... and that head is consistent with the caller's prev: some one log has
\* prev and it as heads of its prefixes, whether the head was prev itself
\* (the size shortcut), an older one or a newer one fetched from a server
\* that may fork.
SuppliedConsistent ==
    res # None /\ res.ok /\ prev # None
    => \E d \in AllLogs :
          /\ Len(d) >= prev.treeSize /\ Len(d) >= res.head.treeSize
          /\ HeadOf(SubSeq(d, 1, prev.treeSize)) = prev
          /\ HeadOf(SubSeq(d, 1, res.head.treeSize)) = res.head

=============================================================================
