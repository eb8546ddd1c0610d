---------------------------- MODULE MCLogAudit -----------------------------
(***************************************************************************)
(* Checks verifyEntries over every pair of tree heads of logs of at most   *)
(* MaxSize entries (prev may also be null), with both answers chosen by    *)
(* an untrusted server: the inclusion proof's audit path is any sequence   *)
(* of at most MaxPath digests formed from the two roots, or the honest     *)
(* path; the entries are any sequence of at most one more value than was   *)
(* asked for, or the honest ones.                                          *)
(***************************************************************************)
EXTENDS LogAudit, MerkleRef

LOCAL INSTANCE SequencesExt

CONSTANTS Entries, MaxSize, MaxPath

VARIABLE call

vars == <<call>>

Logs == SeqsUpTo(Entries, 0, MaxSize)

\* The prev argument for the log p behind it (null for None).
PrevHead(p) == IF p = None THEN None ELSE HeadOf(p)

Asked(prev, head) == head.treeSize - (IF prev = None THEN 0 ELSE prev.treeSize)

\* What the honest server returns for the two requests, when h is the log
\* behind head.
HonestPath(prev, h) ==
    IF prev # None /\ 0 < prev.treeSize /\ prev.treeSize < Len(h)
    THEN {InclusionProof(h, prev.treeSize, prev.treeSize + 1)} ELSE {}
HonestValues(prev, h) ==
    LET from == IF prev = None THEN 0 ELSE prev.treeSize
    IN  IF from <= Len(h) THEN {SubSeq(h, from + 1, Len(h))} ELSE {}

Init == call = [kind |-> "none"]

\* One verifyEntries(prev, HeadOf(h)) call and the two answers it gets.
Audit ==
    /\ call.kind = "none"
    /\ \E p \in Logs \cup {None}, h \in Logs :
         LET prev == PrevHead(p)
             head == HeadOf(h)
             roots == SubTerms(head.rootHash)
                      \cup (IF prev = None THEN {} ELSE SubTerms(prev.rootHash))
         IN  \E path \in SeqsUpTo(roots, 0, MaxPath) \cup HonestPath(prev, h),
                values \in SeqsUpTo(Entries, 0, Asked(prev, head) + 1) \cup HonestValues(prev, h) :
               call' = [kind |-> "audit", prev |-> prev, prevLog |-> IF p = None THEN <<>> ELSE p,
                        log |-> h, path |-> path,
                        values |-> values,
                        result |-> VerifyEntries(prev, head, path, values)]

Return ==
    /\ call.kind # "none"
    /\ call' = [kind |-> "none"]

Spec == Init /\ [][Audit \/ Return]_vars

-----------------------------------------------------------------------------
\* Soundness of the replay (secondStageVerifyEntries after the seed check):
\* when verifyEntries advances from prev to a larger head and reports
\* success, the log behind head is prev's log followed by exactly the
\* entries handed to each() -- whatever path and entries the server sent.
AuditSound ==
    call.kind = "audit" /\ call.result.outcome = "success"
    /\ (call.prev = None \/ call.prev.treeSize < Len(call.log))
    => call.log = call.prevLog \o call.result.delivered

\* Completeness: for prev a prefix of head's log, the honest inclusion
\* path and the honest entries make verifyEntries succeed.
AuditComplete ==
    /\ call.kind = "audit"
    /\ HonestPath(call.prev, call.log) # {} => call.path \in HonestPath(call.prev, call.log)
    /\ call.values \in HonestValues(call.prev, call.log)
    /\ IsPrefix(call.prevLog, call.log)
    => call.result.outcome = "success"

\* The documented contract of verifyEntries: "if prev is not null, then
\* additionally it is proven that the root hash in head is consistent with
\* the root hash in prev" -- success only if one log extends the other.
AuditConsistent ==
    call.kind = "audit" /\ call.result.outcome = "success" /\ call.prev # None
    => IsPrefix(call.prevLog, call.log) \/ IsPrefix(call.log, call.prevLog)

=============================================================================
