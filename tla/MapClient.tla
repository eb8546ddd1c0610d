----------------------------- MODULE MapClient -----------------------------
(***************************************************************************)
(* A caller that keeps a trusted map state and refreshes it with           *)
(* VerifiableMap.getVerifiedLatestMapState(prev, ...)                      *)
(* (src/assets/static/continusec.js).  A map state is a map tree head (the *)
(* head of the mutation log and the map root) and the head of the          *)
(* tree-head log, the log of every map head the server has published.     *)
(*                                                                         *)
(* The call is a chain of callbacks: map getTreeHead(0); verifyConsistency *)
(* of the two mutation-log heads (maybe with a proof request); then        *)
(* secondStageMapVerified: getVerifiedLatestTreeHead on the tree-head log  *)
(* (getTreeHead and maybe a consistency proof), and verifyInclusion of the *)
(* map head's leaf hash in that head.  Any request may fail.               *)
(*                                                                         *)
(* The server keeps forks: it reports the map head of any mutation log of  *)
(* at most MaxSize entries, the head of any tree-head log of at most MaxTH *)
(* map heads, and answers every proof request with the proof algorithm run *)
(* on any of those logs.  With ServerModel = "badindex" it may also answer *)
(* an inclusion request with leaf index -1 and an empty path.              *)
(*                                                                         *)
(* The map root of a mutation log is the term MapRootOf(d): how it is      *)
(* computed from the mutations is MapProof's subject, not this one's.      *)
(***************************************************************************)
EXTENDS ObjectHash, MerkleRef

Seqs == INSTANCE SequencesExt

CONSTANTS
    Entries,      \* mutation values
    MaxSize,      \* bound on a mutation log
    MaxTH,        \* bound on a tree-head log
    ServerModel,  \* "forking" or "badindex"
    Callers       \* the caller's outstanding calls: one per element

ASSUME ServerModel \in {"forking", "badindex"}

VARIABLES
    state,   \* the persisted MapTreeState [mapHead, thlth], or None
    pc,      \* call -> the callback it waits for, or "idle"
    prev,    \* call -> the prev it was started with (the closures' prev)
    mh,      \* call -> the map head received, or None
    thlth,   \* call -> the verified tree-head log head, or None
    thcand,  \* call -> a tree-head log head whose consistency proof is awaited, or None
    size,    \* call -> the treeSize it asked for; 0 (HEAD) for the latest
    got      \* call -> the result of an explicit-size call while the caller
             \* holds it (pc = "got"), or None

vars == <<state, pc, prev, mh, thlth, thcand, size, got>>

MapRootOf(d) == <<"maproot", d>>

\* new MapTreeHead(new LogTreeHead(size, root), rootHash) from getTreeHead.
MapHeadOf(d) == [mlh |-> HeadOf(d), rootHash |-> MapRootOf(d)]

\* btoa of a digest; a null root is written btoa(null), the text "null".
B64(d) == Str(<<"b64", d>>)

\* The object MapTreeHead.getLeafHash hashes.
MapHeadDoc(h) ==
    [t |-> "dict",
     v |-> <<<<"mutation_log",
                [t |-> "dict",
                 v |-> <<<<"tree_size", [t |-> "num", p |-> h.mlh.treeSize, q |-> 0]>>,
                         <<"root_hash", B64(h.mlh.rootHash)>>>>]>>,
             <<"root_hash", B64(h.rootHash)>>>>]

\* The tree-head log's entry for a map head, and its leaf hash.
MapLeafData(h) == ObjectHashWithStdRedaction(MapHeadDoc(h))
MapTreeHeadLeafHash(h) == LeafMerkleTreeHash(MapLeafData(h))

MutLogs == SeqsUpTo(Entries, 0, MaxSize)
MapHeads == {MapHeadOf(d) : d \in MutLogs}
THLogs == SeqsUpTo({MapLeafData(h) : h \in MapHeads}, 0, MaxTH)
THHeads == {HeadOf(t) : t \in THLogs}

\* What the server can answer.
ServedConsistency(logs, a, b) ==
    {ConsistencyProof(d, a.treeSize, b.treeSize) : d \in {f \in logs : Len(f) >= b.treeSize}}
ServedInclusions(h) ==
    {[idx |-> i, path |-> InclusionProof(t, i, h.treeSize)] :
        t \in {f \in THLogs : Len(f) >= h.treeSize}, i \in 0 .. h.treeSize - 1}
    \cup (IF ServerModel = "badindex" THEN {[idx |-> -1, path |-> <<>>]} ELSE {})

\* The callback of getVerifiedLatestTreeHead: keep prev unless the verified
\* head is larger.
LatestTreeHead(p, head) == IF head.treeSize <= p.treeSize THEN p ELSE head

\* Fault variant of PrevThlth: secondStageMapVerified passes null, so the
\* tree-head log is trusted on first use again.
PrevThlthDropped(c) == None

\* secondStageMapVerified: prevThlth = prev.getTreeHeadLogTreeHead(), or null.
PrevThlth(c) == IF prev[c] = None THEN None ELSE prev[c].thlth

Init ==
    /\ state = None
    /\ pc = [c \in Callers |-> "idle"]
    /\ prev = [c \in Callers |-> None]
    /\ mh = [c \in Callers |-> None]
    /\ thlth = [c \in Callers |-> None]
    /\ thcand = [c \in Callers |-> None]
    /\ size = [c \in Callers |-> 0]
    /\ got = [c \in Callers |-> None]

\* getVerifiedLatestMapState(state) -> getVerifiedMapState(state, 0):
\* treeSize is 0, so the shortcut is skipped and getTreeHead(0) is sent.
\* The callbacks close over the state persisted at this moment.
CallLatest(c) ==
    /\ pc[c] = "idle"
    /\ pc' = [pc EXCEPT ![c] = "maphead"]
    /\ prev' = [prev EXCEPT ![c] = state]
    /\ size' = [size EXCEPT ![c] = 0]
    /\ UNCHANGED <<state, mh, thlth, thcand, got>>

\* Fault variant of CallFixed: the shortcut is taken for any prev at least
\* as large as the size asked for.
CallFixedAtLeast(c, ts) ==
    /\ pc[c] = "idle"
    /\ prev' = [prev EXCEPT ![c] = state]
    /\ size' = [size EXCEPT ![c] = ts]
    /\ IF state # None /\ state.mapHead.mlh.treeSize >= ts
       THEN pc' = [pc EXCEPT ![c] = "got"] /\ got' = [got EXCEPT ![c] = state]
       ELSE pc' = [pc EXCEPT ![c] = "maphead"] /\ UNCHANGED got
    /\ UNCHANGED <<state, mh, thlth, thcand>>

\* getVerifiedMapState(state, ts) for a tree size ts the caller names: a
\* prev of exactly that size is returned as is; otherwise getTreeHead(ts).
CallFixed(c, ts) ==
    /\ pc[c] = "idle"
    /\ prev' = [prev EXCEPT ![c] = state]
    /\ size' = [size EXCEPT ![c] = ts]
    /\ IF state # None /\ state.mapHead.mlh.treeSize = ts
       THEN pc' = [pc EXCEPT ![c] = "got"] /\ got' = [got EXCEPT ![c] = state]
       ELSE pc' = [pc EXCEPT ![c] = "maphead"] /\ UNCHANGED got
    /\ UNCHANGED <<state, mh, thlth, thcand>>

\* Fault variant of ReceiveMapHead: the mutation-log heads are not compared
\* (as if prev were null), straight to the second stage.
ReceiveMapHeadUnchecked(c, h) ==
    /\ pc[c] = "maphead"
    /\ pc' = [pc EXCEPT ![c] = "thhead"]
    /\ mh' = [mh EXCEPT ![c] = h]
    /\ UNCHANGED <<state, prev, thlth, thcand, size, got>>

\* The getTreeHead callback: with a prev, verifyConsistency of the two
\* mutation-log heads decides at once or requests a proof; without one,
\* straight to secondStageMapVerified (getTreeHead on the tree-head log).
ReceiveMapHead(c, h) ==
    /\ pc[c] = "maphead"
    /\ LET pre == IF prev[c] = None THEN "ok" ELSE ConsistencyPrecheck(prev[c].mapHead.mlh, h.mlh)
       IN  /\ pc' = [pc EXCEPT ![c] = CASE pre = "ok" -> "thhead" [] pre = "fetch" -> "mlproof" [] OTHER -> "idle"]
           /\ mh' = [mh EXCEPT ![c] = IF pre = "throw" THEN None ELSE h]
    /\ UNCHANGED <<state, prev, thlth, thcand, size, got>>

\* The mutation log's consistency proof callback.
ReceiveMutationProof(c, path) ==
    /\ pc[c] = "mlproof"
    /\ LET o == Ordered(prev[c].mapHead.mlh, mh[c].mlh)
           ok == Accepted(VerifyConsistencyProof([firstSize |-> o[1].treeSize,
                                                  secondSize |-> o[2].treeSize,
                                                  auditPath |-> path], o[1], o[2]))
       IN  /\ pc' = [pc EXCEPT ![c] = IF ok THEN "thhead" ELSE "idle"]
           /\ mh' = [mh EXCEPT ![c] = IF ok THEN mh[c] ELSE None]
    /\ UNCHANGED <<state, prev, thlth, thcand, size, got>>

\* getVerifiedLatestTreeHead(prevThlth) on the tree-head log: its getTreeHead
\* callback trusts th on first use, else runs verifyConsistency's checks;
\* then the inclusion proof of mh is requested against the verified head.
ReceiveTHHead(c, th) ==
    /\ pc[c] = "thhead"
    /\ LET p == PrevThlth(c)
           pre == IF p = None THEN "first" ELSE ConsistencyPrecheck(p, th)
           next == CASE pre = "first" -> "incl" [] pre = "ok" -> "incl"
                     [] pre = "fetch" -> "thproof" [] OTHER -> "idle"
       IN  /\ pc' = [pc EXCEPT ![c] = next]
           /\ thlth' = [thlth EXCEPT ![c] = CASE pre = "first" -> th
                                                 [] pre = "ok" -> LatestTreeHead(p, th)
                                                 [] OTHER -> None]
           /\ thcand' = [thcand EXCEPT ![c] = IF pre = "fetch" THEN th ELSE None]
           /\ mh' = [mh EXCEPT ![c] = IF next = "idle" THEN None ELSE mh[c]]
    /\ UNCHANGED <<state, prev, size, got>>

\* The tree-head log's consistency proof callback, then the latest-head
\* choice of getVerifiedLatestTreeHead.
ReceiveTHProof(c, path) ==
    /\ pc[c] = "thproof"
    /\ LET o == Ordered(PrevThlth(c), thcand[c])
           ok == Accepted(VerifyConsistencyProof([firstSize |-> o[1].treeSize,
                                                  secondSize |-> o[2].treeSize,
                                                  auditPath |-> path], o[1], o[2]))
       IN  /\ pc' = [pc EXCEPT ![c] = IF ok THEN "incl" ELSE "idle"]
           /\ thlth' = [thlth EXCEPT ![c] = IF ok THEN LatestTreeHead(PrevThlth(c), thcand[c]) ELSE None]
           /\ mh' = [mh EXCEPT ![c] = IF ok THEN mh[c] ELSE None]
    /\ thcand' = [thcand EXCEPT ![c] = None]
    /\ UNCHANGED <<state, prev, size, got>>

\* The new MapTreeState, and getVerifiedLatestMapState's choice: keep the
\* prev the call was given unless the new state's map is larger.
NewState(c) == [mapHead |-> mh[c], thlth |-> thlth[c]]
LatestState(c) == IF prev[c] # None /\ mh[c].mlh.treeSize <= prev[c].mapHead.mlh.treeSize
                  THEN prev[c] ELSE NewState(c)

\* success(new MapTreeState(mh, thlth)): a latest call's result is
\* persisted, over whatever another call persisted meanwhile; an
\* explicit-size call hands the state to its caller.
Deliver(c) ==
    IF size[c] = 0 THEN pc' = [pc EXCEPT ![c] = "idle"] /\ state' = LatestState(c) /\ UNCHANGED got
    ELSE pc' = [pc EXCEPT ![c] = "got"] /\ got' = [got EXCEPT ![c] = NewState(c)] /\ UNCHANGED state

\* Fault variant of ReceiveInclusion: failure(err) without the return, so
\* success follows a failed verify.
ReceiveInclusionNoReturn(c, answer) ==
    /\ pc[c] = "incl"
    /\ Deliver(c)
    /\ mh' = [mh EXCEPT ![c] = None] /\ thlth' = [thlth EXCEPT ![c] = None]
    /\ UNCHANGED <<prev, thcand, size>>

\* verifyInclusion(thlth, mh): getInclusionProof(thlth.size, mh) and
\* proof.verify(thlth); success(new MapTreeState(mh, thlth)) unless it threw.
ReceiveInclusion(c, answer) ==
    /\ pc[c] = "incl"
    /\ LET outcome == VerifyInclusionProof([leafHash |-> MapTreeHeadLeafHash(mh[c]),
                                            treeSize |-> thlth[c].treeSize,
                                            leafIndex |-> answer.idx,
                                            auditPath |-> answer.path], thlth[c])
       IN  IF Accepted(outcome) THEN Deliver(c) ELSE pc' = [pc EXCEPT ![c] = "idle"] /\ UNCHANGED <<state, got>>
    /\ mh' = [mh EXCEPT ![c] = None] /\ thlth' = [thlth EXCEPT ![c] = None]
    /\ UNCHANGED <<prev, thcand, size>>

\* Fault variant of RequestFails: the tree-head log head of the failed call
\* is kept.
RequestFailsKeepHead(c) ==
    /\ pc[c] \notin {"idle", "got"}
    /\ pc' = [pc EXCEPT ![c] = "idle"]
    /\ mh' = [mh EXCEPT ![c] = None] /\ thcand' = [thcand EXCEPT ![c] = None]
    /\ UNCHANGED <<state, prev, thlth, size, got>>

\* A request fails: failure(reason) reaches the caller, nothing persists.
RequestFails(c) ==
    /\ pc[c] \notin {"idle", "got"}
    /\ pc' = [pc EXCEPT ![c] = "idle"]
    /\ mh' = [mh EXCEPT ![c] = None]
    /\ thlth' = [thlth EXCEPT ![c] = None]
    /\ thcand' = [thcand EXCEPT ![c] = None]
    /\ UNCHANGED <<state, prev, size, got>>

\* The caller is done with the explicit-size state it was given.
Return(c) ==
    /\ pc[c] = "got"
    /\ pc' = [pc EXCEPT ![c] = "idle"] /\ got' = [got EXCEPT ![c] = None]
    /\ UNCHANGED <<state, prev, mh, thlth, thcand, size>>

\* The proofs the server can answer call c's outstanding requests with.
MutationProofReply(c) ==
    /\ pc[c] = "mlproof"
    /\ LET o == Ordered(prev[c].mapHead.mlh, mh[c].mlh)
       IN  \E path \in ServedConsistency(MutLogs, o[1], o[2]) : ReceiveMutationProof(c, path)
THProofReply(c) ==
    /\ pc[c] = "thproof"
    /\ LET o == Ordered(PrevThlth(c), thcand[c])
       IN  \E path \in ServedConsistency(THLogs, o[1], o[2]) : ReceiveTHProof(c, path)
InclusionReply(c) ==
    /\ pc[c] = "incl"
    /\ \E a \in ServedInclusions(thlth[c]) : ReceiveInclusion(c, a)

Next ==
    \E c \in Callers :
        \/ CallLatest(c)
        \/ \E ts \in 1 .. MaxSize : CallFixed(c, ts)
        \/ \E h \in MapHeads : ReceiveMapHead(c, h)
        \/ MutationProofReply(c)
        \/ \E th \in THHeads : ReceiveTHHead(c, th)
        \/ THProofReply(c)
        \/ InclusionReply(c)
        \/ RequestFails(c)
        \/ Return(c)

Spec == Init /\ [][Next]_vars

-----------------------------------------------------------------------------
States == [mapHead : MapHeads, thlth : THHeads]

\* The persisted state and the call's intermediate results are heads the
\* server can show, present exactly in the callbacks that use them.
TypeOK ==
    /\ state \in States \cup {None}
    /\ pc \in [Callers -> {"idle", "maphead", "mlproof", "thhead", "thproof", "incl", "got"}]
    /\ prev \in [Callers -> States \cup {None}]
    /\ mh \in [Callers -> MapHeads \cup {None}]
    /\ thlth \in [Callers -> THHeads \cup {None}]
    /\ thcand \in [Callers -> THHeads \cup {None}]
    /\ size \in [Callers -> 0 .. MaxSize]
    /\ got \in [Callers -> States \cup {None}]
    /\ \A c \in Callers :
          /\ (mh[c] # None) = (pc[c] \in {"mlproof", "thhead", "thproof", "incl"})
          /\ (thlth[c] # None) = (pc[c] = "incl")
          /\ (thcand[c] # None) = (pc[c] = "thproof")
          /\ (got[c] # None) = (pc[c] = "got")

\* What a MapTreeState promises: its map head is one of the entries of the
\* tree-head log behind its tree-head log head -- the server has published
\* it -- whatever forks the server shows.
MapStateSound ==
    state # None
    => \E i \in DOMAIN LeavesOf(state.thlth.rootHash) :
          LeavesOf(state.thlth.rootHash)[i] = MapLeafData(state.mapHead)

\* The documentation of getVerifiedMapState ("The value returned by this
\* will have been proven to be consistent with any passed prev value"):
\* the state it hands back, from the shortcut or from the server, holds
\* its map head in its tree-head log, one mutation log has both map heads
\* as prefixes, and its tree-head log extends prev's.
MapStateConsistentWithPrev ==
    \A c \in Callers :
        got[c] # None
        => LET r == got[c]
               p == prev[c]
               muts(x) == LeavesOf(x.mapHead.mlh.rootHash)
           IN  /\ \E i \in DOMAIN LeavesOf(r.thlth.rootHash) :
                     LeavesOf(r.thlth.rootHash)[i] = MapLeafData(r.mapHead)
               /\ p # None => \/ Seqs!IsPrefix(muts(p), muts(r))
                             \/ Seqs!IsPrefix(muts(r), muts(p))
               /\ p # None => Seqs!IsPrefix(LeavesOf(p.thlth.rootHash), LeavesOf(r.thlth.rootHash))

\* The documentation of getVerifiedMapState: the state returned for a
\* tree size is the map head "for a given tree size".  getTreeHead's
\* answer is used whatever its size.  Checked by
\* MCMapClient_wrongsize.cfg only.
MapStateAtRequestedSize ==
    \A c \in Callers : got[c] # None => got[c].mapHead.mlh.treeSize = size[c]

\* The entries the persisted state's two heads commit to: the refinement
\* mappings of its mutation log and its tree-head log to TrustedHead.
CommittedMutations == IF state = None THEN None ELSE LeavesOf(state.mapHead.mlh.rootHash)
CommittedTreeHeads == IF state = None THEN None ELSE LeavesOf(state.thlth.rootHash)

MutationTrust == INSTANCE TrustedHead WITH trusted <- CommittedMutations
TreeHeadTrust == INSTANCE TrustedHead
    WITH trusted <- CommittedTreeHeads, Entries <- {MapLeafData(h) : h \in MapHeads},
         MaxSize <- MaxTH

\* The map client implements TrustedHead twice over: whenever
\* getVerifiedLatestMapState's result is persisted, the mutation log it
\* commits to and the tree-head log it commits to each move only from
\* nothing to some log, or to a strict extension (or stay), whatever forks
\* of either log the server shows.
MapStateRefined == MutationTrust!Spec /\ TreeHeadTrust!Spec

=============================================================================
