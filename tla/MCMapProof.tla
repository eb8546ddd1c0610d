---------------------------- MODULE MCMapProof -----------------------------
(***************************************************************************)
(* Checks getVerifiedValue over every map of Keys to values (the empty     *)
(* value "" being what a deleted or never-set key holds), every key, and   *)
(* every answer an untrusted server can give: any value, a present,       *)
(* wrong or missing tree size, and an audit path whose every slot is null  *)
(* or a digest formed from the map root -- besides the honest one.         *)
(***************************************************************************)
EXTENDS MapProof, MerkleRef, FiniteSets, TLC

CONSTANTS Keys, Values

VARIABLE call

vars == <<call>>

AllValues == Values \cup {""}

\* SHA-256 of the keys as Depth-bit numbers.
MCKeyHash == (CHOOSE k \in Keys : TRUE) :> 1 @@ [k \in Keys |-> 6]

Maps == [Keys -> AllValues]

\* Reference: the root of the sparse tree below the node at level l whose
\* position is the top l bits pre of a key hash.
RECURSIVE SubRoot(_, _, _)
SubRoot(m, l, pre) ==
    LET below == {k \in Keys : KeyHash[k] \div 2^(Depth - l) = pre}
    IN  IF below = {} THEN DefaultLeafValues[l]
        ELSE IF l = Depth THEN LeafMerkleTreeHash(m[CHOOSE k \in below : TRUE])
        ELSE NodeMerkleTreeHash(SubRoot(m, l + 1, 2 * pre), SubRoot(m, l + 1, 2 * pre + 1))

RefMapRoot(m) == SubRoot(m, 0, 0)

\* The server's path for key k: the sibling subtree at each level, null
\* where it is empty.
HonestMapPath(m, k) ==
    [i \in 0 .. Depth - 1 |->
        LET pre == KeyHash[k] \div 2^(Depth - 1 - i)
            sib == SubRoot(m, i + 1, IF pre % 2 = 0 THEN pre + 1 ELSE pre - 1)
        IN  IF sib = DefaultLeafValues[i + 1] THEN NoHash ELSE sib]

MapHeadOf(m) == [treeSize |-> 1, rootHash |-> RefMapRoot(m)]

Init == call = [kind |-> "none"]

\* One getVerifiedValue(k, state of map m) call and the server's answer.
GetValueCall ==
    /\ call.kind = "none"
    /\ \E m \in Maps, k \in Keys, v \in AllValues, size \in {1, 2, None} :
         \E path \in [0 .. Depth - 1 -> SubTerms(RefMapRoot(m)) \cup {NoHash}]
                     \cup {HonestMapPath(m, k)} :
           LET answer == [leafHash |-> LeafMerkleTreeHash(v), treeSize |-> size,
                          auditPath |-> path]
           IN  call' = [kind |-> "get", map |-> m, key |-> k, value |-> v,
                        answer |-> answer,
                        outcome |-> GetVerifiedValue(k, MapHeadOf(m), answer)]

\* The map proof picture is checked on a deeper tree than the verifier:
\* at depth 5 a run of up to three default levels can be hidden.  Its
\* siblings are null, the default of their level sent explicitly, or
\* another digest; the tree hash is the fold of the path, or another root.
DrawDepth == 5
Wide == INSTANCE MapProof WITH Depth <- DrawDepth, KeyHash <- [k \in Keys |-> 0]
DrawLeaf == LeafMerkleTreeHash(CHOOSE v \in Values : TRUE)
DrawSlots(i) == {NoHash, Wide!DefaultLeafValues[i + 1], DrawLeaf}

\* One DrawMapInclusion(c, kp, leafHash, treeHash, auditPath) call.
DrawCall ==
    /\ call.kind = "none"
    /\ \E kp \in [0 .. DrawDepth - 1 -> BOOLEAN] :
       \E path \in {f \in [0 .. DrawDepth - 1 -> UNION {DrawSlots(i) : i \in 0 .. DrawDepth - 1}] :
                        \A i \in DOMAIN f : f[i] \in DrawSlots(i)} :
       \E th \in {Wide!MapFold(path, kp, DrawLeaf), NoHash} :
         call' = [kind |-> "draw", kp |-> kp, path |-> path, treeHash |-> th,
                  height |-> Wide!MapDrawHeight(path),
                  rows |-> Wide!DrawMapInclusion(kp, DrawLeaf, th, path)]

Return ==
    /\ call.kind # "none"
    /\ call' = [kind |-> "none"]

Spec == Init /\ [][GetValueCall \/ DrawCall \/ Return]_vars

-----------------------------------------------------------------------------
\* Completeness of MapEntryResponse.verify: the honest answer -- the stored
\* value, the state's size and the sibling path with empty subtrees left
\* null -- is accepted for every key of every map, present or not.
MapVerifyComplete ==
    call.kind = "get" /\ call.value = call.map[call.key]
    /\ call.answer.treeSize = 1
    /\ call.answer.auditPath = HonestMapPath(call.map, call.key)
    => call.outcome = "success"

\* Soundness of getVerifiedValue: whatever path the server sends, a value
\* returned through success() is the one the map root commits to for the
\* requested key ("" when the key is absent).
MapVerifySound ==
    call.kind = "get" /\ call.outcome = "success"
    => call.value = call.map[call.key]

\* log.js's map proof picture fits its canvas and hides nothing silently:
\* DrawMapInclusion's first pass reserves exactly the rows its second pass
\* draws, and the levels drawn with their sibling plus the levels the note
\* row says it hides are every level of the tree.
DrawnMapAccountsLevels ==
    call.kind = "draw"
    => LET r == call.rows
           notes == {j \in DOMAIN r : r[j].box = "note"}
       IN  /\ Len(r) = call.height
           /\ Cardinality(notes) <= 1
           /\ DrawDepth = Len(r) - 2 * Cardinality(notes)
                          + (IF notes = {} THEN 0 ELSE r[CHOOSE j \in notes : TRUE].levels)

\* The picture's verdict is verify's: the top row is the root
\* MapEntryResponse.verify folds from the same path, and it, and only it,
\* is coloured as the tree hash exactly when that root is the map's.
DrawnMapRootAgrees ==
    call.kind = "draw"
    => LET r == call.rows
           root == Wide!MapFold(call.path, call.kp, DrawLeaf)
       IN  /\ r[Len(r)].hash = root
           /\ r[Len(r)].treeHash = (root = call.treeHash)
           /\ \A j \in 1 .. Len(r) - 1 : r[j].box = "node" => ~r[j].treeHash

=============================================================================
