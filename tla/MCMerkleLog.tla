---------------------------- MODULE MCMerkleLog ----------------------------
(***************************************************************************)
(* Checks the log proof algorithms of MerkleLog over every log of at most  *)
(* MaxSize entries drawn from Entries.  Each step is one call of a          *)
(* verifier, with its inputs chosen by \E: the log behind the tree heads,  *)
(* the claimed leaf or sizes, and an audit path sent by an untrusted       *)
(* server -- any sequence of at most MaxPath digests that the server could *)
(* compute, i.e. the sub-terms of the roots involved.  The state records   *)
(* the call and its outcome; the invariants relate them.                   *)
(***************************************************************************)
EXTENDS MerkleRef

CONSTANTS Entries, MaxSize, MaxPath

VARIABLE call

vars == <<call>>

\* Every log of 1..MaxSize entries (0 .. MaxSize for ConsistencyCall).
Logs(lo) == SeqsUpTo(Entries, lo, MaxSize)

Paths(D) == SeqsUpTo(D, 0, MaxPath)

\* The audit tool's consistency proof between the shorter log and the
\* longer one, when the sizes call for a proof at all.
HonestConsistency(a, b) ==
    LET o == IF Len(a) <= Len(b) THEN <<a, b>> ELSE <<b, a>>
    IN  IF 1 <= Len(o[1]) /\ Len(o[1]) < Len(o[2])
        THEN {ConsistencyProof(o[2], Len(o[1]), Len(o[2]))} ELSE {}

\* A width for JavaScript's bitwise operators small enough that logs of a
\* few entries reach its sign bit (MCMerkleLog_width.cfg), standing for
\* logs of more than 2^31 entries at the real width 32.
SmallWidth == 4

Init == call = [kind |-> "none"]

\* A call of LogInclusionProof.verify for the head of log d.
InclusionCall ==
    /\ call.kind = "none"
    /\ \E d \in Logs(1), li \in -1..MaxSize, e \in Entries :
         \E path \in Paths(SubTerms(RefMTH(d))) \cup {InclusionProof(d, li, Len(d))} :
           LET proof == [leafHash |-> LeafMerkleTreeHash(e), treeSize |-> Len(d),
                      leafIndex |-> li, auditPath |-> path]
           IN  call' = [kind |-> "inclusion", log |-> d, index |-> li, entry |-> e,
                        path |-> path, outcome |-> VerifyInclusionProof(proof, HeadOf(d))]

\* A call of VerifiableLog.verifyConsistency(HeadOf(a), HeadOf(b)) answered
\* with path.
ConsistencyCall ==
    /\ call.kind = "none"
    /\ \E a, b \in Logs(0) :
         \E path \in Paths(SubTerms(RefMTH(a)) \cup SubTerms(RefMTH(b)))
                     \cup HonestConsistency(a, b) :
           call' = [kind |-> "consistency", first |-> a, second |-> b, path |-> path,
                    outcome |-> VerifyConsistency(HeadOf(a), HeadOf(b), path)]

\* The harness returns to idle so that each call is a separate state.
Return ==
    /\ call.kind # "none"
    /\ call' = [kind |-> "none"]

SpecInclusion == Init /\ [][InclusionCall \/ Return]_vars
SpecConsistency == Init /\ [][ConsistencyCall \/ Return]_vars
Spec == Init /\ [][InclusionCall \/ ConsistencyCall \/ Return]_vars

-----------------------------------------------------------------------------
\* The audit tool's stack-based tree hash (FakeTree.CalculateMTH) equals the
\* RFC 6962 tree hash for every log, so proofs built from it are honest.
CalculateMTHMatchesReference ==
    call.kind = "inclusion" => CalculateMTH(call.log, 0, Len(call.log)) = RefMTH(call.log)

\* The audit tool's tree picture (DrawTree) is right and complete: every
\* node it draws carries the RFC 6962 hash of the entries it spans, and its
\* top node is the root, although ranges at the right edge are joined
\* whole-or-clipped through a cache keyed by range.  Checked once per log.
DrawTreeSound ==
    call.kind = "inclusion" /\ call.index = -1 /\ call.path = <<>>
    => LET c == DrawTree(call.log)
       IN  /\ <<0, Len(call.log)>> \in DOMAIN c
           /\ \A r \in DOMAIN c : c[r] = RefMTH(SubSeq(call.log, r[1] + 1, r[2]))

\* Completeness of inclusion: the path the audit tool builds with Path() for
\* an in-range leaf is accepted by LogInclusionProof.verify.
InclusionComplete ==
    call.kind = "inclusion" /\ call.index \in 0..Len(call.log) - 1
    /\ call.entry = call.log[call.index + 1]
    /\ call.path = InclusionProof(call.log, call.index, Len(call.log))
    => call.outcome = "ok"

\* Soundness of the final comparison in LogInclusionProof.verify: when the
\* fold of the audit path reaches the root with sn = 0, the claimed leaf is
\* in the log at the claimed index, whatever path the server sent.
InclusionFoldSound ==
    call.kind = "inclusion" /\ call.outcome = "ok"
    => call.index \in 0..Len(call.log) - 1 /\ call.log[call.index + 1] = call.entry

\* The contract callers rely on (VerifiableLog.verifyInclusion calls success
\* whenever verify does not throw): an accepted proof means the leaf is in
\* the log at that index.
InclusionAcceptedSound ==
    call.kind = "inclusion" /\ Accepted(call.outcome)
    => call.index \in 0..Len(call.log) - 1 /\ call.log[call.index + 1] = call.entry

\* The two logs of a consistency call, shorter first.
ShortLong(c) == IF Len(c.first) <= Len(c.second) THEN <<c.first, c.second>>
                                                 ELSE <<c.second, c.first>>

\* Completeness of consistency: for two non-empty heads, in either order,
\* where one log is a prefix of the other, verifyConsistency succeeds --
\* without a proof at equal sizes, and with the audit tool's SubProof() path
\* otherwise.
ConsistencyComplete ==
    LET o == ShortLong(call)
    IN  /\ call.kind = "consistency"
        /\ Len(o[1]) >= 1
        /\ o[1] = SubSeq(o[2], 1, Len(o[1]))
        /\ Len(o[1]) < Len(o[2]) => call.path = ConsistencyProof(o[2], Len(o[1]), Len(o[2]))
        => call.outcome = "ok"

\* Soundness of the final comparisons in LogConsistencyProof.verify: when
\* both recomputed roots match, the shorter log is a prefix of the longer.
ConsistencyFoldSound ==
    call.kind = "consistency" /\ call.outcome = "ok"
    => LET o == ShortLong(call) IN o[1] = SubSeq(o[2], 1, Len(o[1]))

\* The contract of verifyConsistency (VerifiableLog.verifyConsistency calls
\* success whenever verify does not throw): success only if one head's log
\* is a prefix of the other's.
ConsistencyAcceptedSound ==
    call.kind = "consistency" /\ Accepted(call.outcome)
    => LET o == ShortLong(call) IN o[1] = SubSeq(o[2], 1, Len(o[1]))

\* The audit tool's drawing of an inclusion proof colours its top node as
\* the tree hash exactly when LogInclusionProof.verify accepts the proof
\* (checked by MCMerkleLog_drawn.cfg).
DrawnVerdictAgrees ==
    call.kind = "inclusion" /\ call.index \in 0 .. Len(call.log) - 1 /\ call.path # <<>>
    => LET nodes == DrawInclusionNodes(call.index, LeafMerkleTreeHash(call.entry),
                                       Len(call.log), call.path)
       IN  nodes[Len(nodes)] = RefMTH(call.log) <=> call.outcome = "ok"

\* The audit tool's drawing of a consistency proof ends with both chains
\* at the two tree hashes exactly when verifyConsistency reports success
\* (checked by MCMerkleLog_drawn_consistency.cfg).
DrawnConsistencyAgrees ==
    call.kind = "consistency" /\ 1 <= Len(call.first) /\ Len(call.first) < Len(call.second)
    => LET d == DrawConsistencyRoots(Len(call.first), Len(call.second),
                                     RefMTH(call.first), call.path)
       IN  d.fr = RefMTH(call.first) /\ d.sr = RefMTH(call.second)
           <=> Accepted(call.outcome)

\* verifyConsistency always ends in one of its callbacks: the verify it
\* calls returns or throws, never spins (checked at a small width by
\* MCMerkleLog_width_hang.cfg, since at width 32 the sizes concerned are
\* beyond TLC's integers).
ConsistencyReturns ==
    call.kind = "consistency" => call.outcome # "hang"

=============================================================================
