----------------------------- MODULE MapProof ------------------------------
(***************************************************************************)
(* Inclusion of a key/value pair in the sparse Merkle tree of a verifiable *)
(* map (src/assets/static/continusec.js): the key path, the table of       *)
(* default subtree hashes, MapEntryResponse.verify and getVerifiedValue.   *)
(*                                                                         *)
(* The code's tree has 256 levels below the root, one per bit of           *)
(* SHA-256(key).  Here it has Depth levels, and SHA-256(key), read as a    *)
(* big-endian number, is KeyHash[key] in 0 .. 2^Depth - 1.                 *)
(***************************************************************************)
EXTENDS MerkleLog

CONSTANTS
    Depth,      \* levels below the root (256 in the code)
    KeyHash     \* key -> SHA-256(key) as a number of Depth bits

\* constructKeyPath: the bits of the key's hash, most significant first;
\* TRUE means the right child at that level.
ConstructKeyPath(key) ==
    [i \in 0 .. Depth - 1 |-> (KeyHash[key] \div 2^(Depth - 1 - i)) % 2 = 1]

\* generateMapDefaultLeafValues: the hash of an empty subtree at each level,
\* from the root (0) to a leaf (Depth), the leaf being the hash of "".
DefaultLeafValues[i \in 0 .. Depth] ==
    IF i = Depth THEN LeafMerkleTreeHash("")
    ELSE NodeMerkleTreeHash(DefaultLeafValues[i + 1], DefaultLeafValues[i + 1])

\* Fault variant of the loop step: the default is taken one level too high.
MapStepDefaultOffByOne(auditPath, kp, i, t) ==
    LET p == IF auditPath[i] = NoHash THEN DefaultLeafValues[i] ELSE auditPath[i]
    IN  IF kp[i] THEN NodeMerkleTreeHash(p, t) ELSE NodeMerkleTreeHash(t, p)

\* Fault variant of the loop step: the sense of the key bit is inverted.
MapStepMirrored(auditPath, kp, i, t) ==
    LET p == IF auditPath[i] = NoHash THEN DefaultLeafValues[i + 1] ELSE auditPath[i]
    IN  IF kp[i] THEN NodeMerkleTreeHash(t, p) ELSE NodeMerkleTreeHash(p, t)

\* One iteration of the verify loop at level i: a missing (null) sibling is
\* the default of the level below, and the key bit says which side t is.
MapStep(auditPath, kp, i, t) ==
    LET p == IF auditPath[i] = NoHash THEN DefaultLeafValues[i + 1] ELSE auditPath[i]
    IN  IF kp[i] THEN NodeMerkleTreeHash(p, t) ELSE NodeMerkleTreeHash(t, p)

\* `for (i = kp.length - 1; i >= 0; i--)`: fold from the leaf to the root.
MapFold(auditPath, kp, leafHash) ==
    LET RECURSIVE Up(_, _)
        Up(i, t) == IF i < 0 THEN t ELSE Up(i - 1, MapStep(auditPath, kp, i, t))
    IN  Up(Depth - 1, leafHash)

\* MapEntryResponse.prototype.verify(mapTreeHead); resp is
\* [key, leafHash, treeSize, auditPath] with auditPath[i] a digest or null.
VerifyMapEntry(resp, mapHead) ==
    IF resp.treeSize # mapHead.treeSize THEN "throw"
    ELSE IF MapFold(resp.auditPath, ConstructKeyPath(resp.key), resp.leafHash)
              # mapHead.rootHash
         THEN "throw"
         ELSE "ok"

\* getVerifiedValue(key, mapState): getValue for the state's size fails
\* when the X-Verified-Treesize header is missing (None); otherwise the
\* response, built with the requested key and the size the server claims,
\* is verified against the state's map head: success(value) unless it threw.
GetVerifiedValue(key, mapHead, answer) ==
    IF answer.treeSize = None THEN "failure"
    ELSE IF VerifyMapEntry([key |-> key, leafHash |-> answer.leafHash,
                            treeSize |-> answer.treeSize, auditPath |-> answer.auditPath],
                           mapHead) = "ok"
         THEN "success" ELSE "failure"

-----------------------------------------------------------------------------
(***************************************************************************)
(* DrawMapInclusion (src/assets/www/log.js) draws a map inclusion proof    *)
(* from the leaf up, one row per level, except that the first run of       *)
(* levels whose sibling is the default, strictly between the leaf level    *)
(* and the root, is drawn as one note row saying how many levels it hides. *)
(* A first pass counts the rows to size the canvas; a second draws them,   *)
(* folding the path as verify does.  A row is a node [box, hash, treeHash] *)
(* (treeHash: coloured as the tree hash) or a note [box, levels].          *)
(***************************************************************************)

\* Fault variant of DrawSibling: a null sibling drawn with the default of
\* its own level instead of the level below.
DrawSiblingLevelAbove(auditPath, i) ==
    IF auditPath[i] = NoHash THEN DefaultLeafValues[i] ELSE auditPath[i]

\* `p = auditPath[i]`, or `defaultMapVals[i + 1]` when it is null.
DrawSibling(auditPath, i) ==
    IF auditPath[i] = NoHash THEN DefaultLeafValues[i + 1] ELSE auditPath[i]

\* drawNormal is false: no run hidden yet, a default sibling, and neither
\* the leaf level nor the root level.
DrawHides(auditPath, i, haveSkipped) ==
    /\ ~haveSkipped
    /\ DrawSibling(auditPath, i) = DefaultLeafValues[i + 1]
    /\ i # Depth - 1
    /\ i # 0

\* A hidden level ends its run when the next level up is 1, or its sibling
\* is present and not the default.
DrawRunEnds(auditPath, i) ==
    i = 1 \/ (auditPath[i - 1] # NoHash /\ DefaultLeafValues[i] # auditPath[i - 1])

\* Fault variant of MapDrawHeight: the end of a hidden run counted as one
\* row, as if the note and the parent above it shared a row.
MapDrawHeightOneRow(auditPath) ==
    LET RECURSIVE H(_, _, _)
        H(i, rows, skipped) ==
            IF i < 0 THEN rows
            ELSE IF ~DrawHides(auditPath, i, skipped) THEN H(i - 1, rows + 1, skipped)
            ELSE IF DrawRunEnds(auditPath, i) THEN H(i - 1, rows + 1, TRUE)
            ELSE H(i - 1, rows, skipped)
    IN  H(Depth - 1, 0, FALSE)

\* The first pass: heightCount.
MapDrawHeight(auditPath) ==
    LET RECURSIVE H(_, _, _)
        H(i, rows, skipped) ==
            IF i < 0 THEN rows
            ELSE IF ~DrawHides(auditPath, i, skipped) THEN H(i - 1, rows + 1, skipped)
            ELSE IF DrawRunEnds(auditPath, i) THEN H(i - 1, rows + 2, TRUE)
            ELSE H(i - 1, rows, skipped)
    IN  H(Depth - 1, 0, FALSE)

\* The second pass: the rows drawn above the leaf, bottom to top.
DrawMapInclusion(kp, leafHash, treeHash, auditPath) ==
    LET NodeRow(t) == [box |-> "node", hash |-> t, treeHash |-> t = treeHash]
        RECURSIVE D(_, _, _, _, _)
        D(i, t, rows, levels, skipped) ==
            IF i < 0 THEN rows
            ELSE LET p == DrawSibling(auditPath, i)
                     u == IF kp[i] THEN NodeMerkleTreeHash(p, t) ELSE NodeMerkleTreeHash(t, p)
                 IN  IF ~DrawHides(auditPath, i, skipped)
                     THEN D(i - 1, u, Append(rows, NodeRow(u)), levels, skipped)
                     ELSE IF DrawRunEnds(auditPath, i)
                     THEN D(i - 1, u, rows \o <<[box |-> "note", levels |-> levels], NodeRow(u)>>,
                            levels, TRUE)
                     ELSE D(i - 1, u, rows, levels + 1, skipped)
    IN  D(Depth - 1, leafHash, <<>>, 1, FALSE)

=============================================================================
