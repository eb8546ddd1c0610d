----------------------------- MODULE LogClient -----------------------------
(***************************************************************************)
(* A caller that keeps a trusted log tree head and refreshes it with       *)
(* VerifiableLog.getVerifiedLatestTreeHead(prev, ...), the way the library *)
(* documents it: pass the persisted head, persist what success returns.    *)
(*                                                                         *)
(* The call is a chain of callbacks, each run to completion by the         *)
(* JavaScript event loop: getTreeHead(0) is sent; its callback runs         *)
(* verifyConsistency(prev, head), which either decides at once or sends    *)
(* getConsistencyProof; that callback verifies the proof.  Between the     *)
(* callbacks the server may sequence new entries, and any request may fail *)
(* (makeRequest calls failure on a network error or a non-200 status).    *)
(*                                                                         *)
(* ServerModel is the server the client talks to:                          *)
(*   "honest"    one append-only log, growing by Sequence;                 *)
(*   "forking"   the server holds every log of at most MaxSize entries,    *)
(*               reports the head of any of them and answers proof         *)
(*               requests by running the proof algorithm on any of them;   *)
(*   "arbitrary" as "forking", but a proof is any sequence of at most      *)
(*               MaxPath digests the server can form from the two roots.   *)
(***************************************************************************)
EXTENDS MerkleRef

Seqs == INSTANCE SequencesExt

CONSTANTS
    Entries,      \* entry values
    MaxSize,      \* bound on every log
    MaxPath,      \* bound on an arbitrary proof
    InitSize,     \* size of the honest log when the caller starts
    ServerModel,  \* "honest", "forking" or "arbitrary"
    Callers       \* the caller's outstanding refreshes: one per element

ASSUME ServerModel \in {"honest", "forking", "arbitrary"}

VARIABLES
    log,      \* the honest server's log
    anchor,   \* the head the caller has persisted, or None
    pc,       \* call -> "idle", "head" (getTreeHead sent), "proof" (proof requested)
    prev,     \* call -> the prev it was started with (the closure's prev)
    cand      \* call -> the head received while its proof is outstanding, or None

vars == <<log, anchor, pc, prev, cand>>

AllLogs == SeqsUpTo(Entries, 0, MaxSize)

\* What getTreeHead(0) can return.
ServedHeads ==
    IF ServerModel = "honest" THEN {HeadOf(log)} ELSE {HeadOf(d) : d \in AllLogs}

\* What getConsistencyProof(first, second) can return (its audit_path).
ServedProofs(first, second) ==
    CASE ServerModel = "honest" ->
            {ConsistencyProof(log, first.treeSize, second.treeSize)}
      [] ServerModel = "forking" ->
            {ConsistencyProof(d, first.treeSize, second.treeSize) :
                d \in {f \in AllLogs : Len(f) >= second.treeSize}}
      [] OTHER ->
            SeqsUpTo(SubTerms(first.rootHash) \cup SubTerms(second.rootHash), 0, MaxPath)

\* Fault variants of LatestOf: always take the received head; never move
\* past prev.
LatestAlwaysHead(p, head) == head
LatestNeverAdvances(p, head) == IF head.treeSize >= p.treeSize THEN p ELSE head

\* The callback of getVerifiedLatestTreeHead: keep prev unless the verified
\* head is larger.
LatestOf(p, head) == IF head.treeSize <= p.treeSize THEN p ELSE head

Init ==
    /\ log \in [1..InitSize -> Entries]
    /\ anchor = None
    /\ pc = [c \in Callers |-> "idle"]
    /\ prev = [c \in Callers |-> None]
    /\ cand = [c \in Callers |-> None]

\* The honest server sequences an entry some writer added.
Sequence(e) ==
    /\ ServerModel = "honest"
    /\ Len(log) < MaxSize
    /\ log' = Append(log, e)
    /\ UNCHANGED <<anchor, pc, prev, cand>>

\* getVerifiedLatestTreeHead(anchor) -> getVerifiedTreeHead(anchor, 0):
\* treeSize is 0, so the shortcut is skipped and getTreeHead(0) is sent.
\* The callbacks close over the head persisted at this moment.
CallLatest(c) ==
    /\ pc[c] = "idle"
    /\ pc' = [pc EXCEPT ![c] = "head"]
    /\ prev' = [prev EXCEPT ![c] = anchor]
    /\ UNCHANGED <<log, anchor, cand>>

\* The getTreeHead callback: with no prev the head is trusted on first use;
\* otherwise verifyConsistency(prev, head) either decides without a proof
\* or requests one for the ordered sizes.  What success returns is
\* persisted, over whatever another call persisted meanwhile.
ReceiveHead(c, h) ==
    /\ pc[c] = "head"
    /\ CASE prev[c] = None ->
                /\ anchor' = h
                /\ pc' = [pc EXCEPT ![c] = "idle"]
                /\ UNCHANGED cand
         [] ConsistencyPrecheck(prev[c], h) = "fetch" ->
                /\ pc' = [pc EXCEPT ![c] = "proof"]
                /\ cand' = [cand EXCEPT ![c] = h]
                /\ UNCHANGED anchor
         [] ConsistencyPrecheck(prev[c], h) = "ok" ->
                /\ anchor' = LatestOf(prev[c], h)
                /\ pc' = [pc EXCEPT ![c] = "idle"]
                /\ UNCHANGED cand
         [] OTHER ->
                /\ pc' = [pc EXCEPT ![c] = "idle"]
                /\ UNCHANGED <<anchor, cand>>
    /\ UNCHANGED <<log, prev>>

\* The getConsistencyProof callback: proof.verify(a, b) on the ordered
\* heads; success(head) unless it threw, then the latest-head choice.
ReceiveProof(c, path) ==
    /\ pc[c] = "proof"
    /\ LET o == Ordered(prev[c], cand[c])
           outcome == VerifyConsistencyProof([firstSize |-> o[1].treeSize,
                                              secondSize |-> o[2].treeSize,
                                              auditPath |-> path], o[1], o[2])
       IN  anchor' = IF Accepted(outcome) THEN LatestOf(prev[c], cand[c]) ELSE anchor
    /\ pc' = [pc EXCEPT ![c] = "idle"]
    /\ cand' = [cand EXCEPT ![c] = None]
    /\ UNCHANGED <<log, prev>>

\* Fault variant of RequestFails: the outstanding head is not dropped.
RequestFailsKeepCand(c) ==
    /\ pc[c] \in {"head", "proof"}
    /\ pc' = [pc EXCEPT ![c] = "idle"]
    /\ UNCHANGED <<log, anchor, prev, cand>>

\* A request fails: failure(reason) reaches the caller, nothing persists.
RequestFails(c) ==
    /\ pc[c] \in {"head", "proof"}
    /\ pc' = [pc EXCEPT ![c] = "idle"]
    /\ cand' = [cand EXCEPT ![c] = None]
    /\ UNCHANGED <<log, anchor, prev>>

\* The proofs the server can answer call c's outstanding request with.
ProofReply(c) ==
    /\ pc[c] = "proof"
    /\ \E path \in ServedProofs(Ordered(prev[c], cand[c])[1], Ordered(prev[c], cand[c])[2]) :
         ReceiveProof(c, path)

Next ==
    \/ \E e \in Entries : Sequence(e)
    \/ \E c \in Callers :
         \/ CallLatest(c)
         \/ \E h \in ServedHeads : ReceiveHead(c, h)
         \/ ProofReply(c)
         \/ RequestFails(c)

\* The caller keeps refreshing its head, and the network, though it may fail
\* any request, does not fail the same kind of request forever.
Fairness ==
    \A c \in Callers :
        /\ WF_vars(CallLatest(c))
        /\ SF_vars(\E h \in ServedHeads : ReceiveHead(c, h))
        /\ SF_vars(ProofReply(c))

Spec == Init /\ [][Next]_vars
FairSpec == Spec /\ Fairness

-----------------------------------------------------------------------------
Heads == {HeadOf(d) : d \in AllLogs}

\* The caller's persisted head is a head some log has, and a proof is only
\* outstanding for a received head of a call that started with a head.
TypeOK ==
    /\ log \in SeqsUpTo(Entries, 0, MaxSize)
    /\ anchor \in Heads \cup {None}
    /\ pc \in [Callers -> {"idle", "head", "proof"}]
    /\ prev \in [Callers -> Heads \cup {None}]
    /\ cand \in [Callers -> Heads \cup {None}]
    /\ \A c \in Callers : (pc[c] = "proof") = (cand[c] # None)
    /\ \A c \in Callers : pc[c] = "proof" => prev[c] # None

\* Append-only trust: whenever the persisted head changes, the entries it
\* commits to extend those of the head it replaces.  A server that shows
\* two forks, or an older head, must never move the caller between them.
AnchorAppendOnly ==
    [][anchor # None /\ anchor' # anchor
       => Seqs!IsPrefix(LeavesOf(anchor.rootHash), LeavesOf(anchor'.rootHash))]_vars

\* Against an honest server the caller eventually holds the head of the
\* whole log, once the log stops growing.
Converges == <>[](anchor # None /\ anchor.treeSize = Len(log))

\* The entries the persisted head commits to: the refinement mapping to
\* the abstract promise of TrustedHead.
Committed == IF anchor = None THEN None ELSE LeavesOf(anchor.rootHash)

Trust == INSTANCE TrustedHead WITH trusted <- Committed

\* The client implements TrustedHead: every change of the persisted head,
\* by any callback of any outstanding call, is a first use from nothing or
\* a move to a strict extension of the trusted entries.
TrustedHeadRefined == Trust!Spec

=============================================================================
