# TLA+ models of the Continusec verifiable data structures client

This directory holds TLA+ models of the JavaScript client in
`src/assets/static/continusec.js` and of the proof-building audit tool in
`src/assets/www/log.js`. The models are checked with TLC. Each module is
translated from the source. `PROJECT.json` lists, for every definition, the
lines it models (`map`), every TLC run, the mutants that show each property
can fail, the findings and the hazards.

## The system

The client never trusts the server. It is handed tree heads, proofs and
entries, and accepts them only if the hashes reduce to a root it already
trusts. It has these parts:

| Part | Code | What it does |
|---|---|---|
| TreeMath | `leafMerkleTreeHash`, `nodeMerkleTreeHash`, `isPow2`, `generateMapDefaultLeafValues` | The domain-separated SHA-256 hashes of RFC 6962, and the sparse map's defaults. |
| Range algorithms | log.js `ReallyCalcK`, `Path`, `SubProof`, `FakeTree` | They build inclusion and consistency paths from raw entries (the audit tool). |
| LogProofEngine | `LogInclusionProof.verify`, `LogConsistencyProof.verify`, `verifyInclusion`, `verifyConsistency`, `verifyEntries` | Folding audit paths into roots, and replaying a whole log. |
| StateVerifier (log) | `getVerifiedLatestTreeHead`, `getVerifiedTreeHead` | The caller persists a head and refreshes it. A new head is accepted only with a consistency proof. |
| MapProofEngine | `constructKeyPath`, `MapEntryResponse.verify`, `getValue` | Inclusion of a key/value pair in a 256-level sparse Merkle tree. |
| ObjectHash | `objectHashWithRedaction`, `shedRedacted` | A canonical hash of JSON values, with redacted sub-values. |
| StateVerifier (map) | `getVerifiedMapState`, `secondStageMapVerified` | It chains a map root through the mutation log and the tree-head log. |
| Polling | `blockUntilPresent`, `blockUntilSize` | Polling with back-off until the server has sequenced an entry or reached a size. |
| Transport | `makeRequest` and request builders | XMLHttpRequest. Every call ends in `success(data)` or `failure(reason)`. |

**How the parts interact.** Every operation is a chain of callbacks:
1. A request is sent.
2. Its callback runs a verifier from LogProofEngine or MapProofEngine.
3. The callback then calls `success` or `failure`.

JavaScript runs each callback to completion. Between two callbacks, other
callbacks and the server may act. The verifiers are synchronous. Their callers
wrap them in `try/catch` and call `success()` whenever nothing was thrown.

## Abstractions used by every module

- **SHA-256** is a free term constructor. `LeafMerkleTreeHash(b)` is
  `<<"leaf", b>>` and `NodeMerkleTreeHash(l, r)` is `<<"node", l, r>>`. Two
  digests are equal exactly when their inputs are. The 0x00/0x01 prefix of the
  code is the tag. This is the collision resistance that every proof argument
  assumes, and no more.
- **The untrusted server** can send only digests it can compute: the
  sub-terms of the roots involved (`SubTerms` in `MerkleRef`). The honest proof
  is always included among its choices. Without a preimage it can do nothing
  else.
- **Reference definitions** are in `MerkleRef`:
  - `RefMTH` is the RFC 6962 tree hash, the recursive split at the largest
    power of two below n.
  - `LeavesOf` decodes a root back to its entries.
  - `HeadOf` is the head of a log.

  They are not translated from the code. They are what the code is checked
  against.
- **Null.** JavaScript `null` in place of a head is the model value `None`. A
  null root hash, which the server sends for the empty log, is `NoHash`.
- **Verifier outcomes.** A verifier's outcome is one of three values:
  - `"throw"`: it threw `CONTINUSEC_VERIFICATION_ERROR`.
  - `"false"`: the function executed `return false`.
  - `"ok"`: it returned after its final checks.

  `Accepted(o)` is what every caller does with the outcome: success unless it
  threw.

## Modules

| Module | Models | State and actions |
|---|---|---|
| `MerkleLog` | TreeMath, the log.js range algorithms and `FakeTree`, both proof verifiers, `verifyConsistency`'s checks | Pure operators. Loops are RECURSIVE operators over records `[fn, sn, r]` or `[fn, sn, fr, sr, early]` that carry the loop variables. `early` records the `sn === 0` exit. The outcomes are `throw`, `false`, `ok` and `hang`; `hang` is the `while ((fn & 1) == 1) fn >>= 1` loop of `verifyConsistency` (:1016-1019) at `fn = -1`, which `>>` leaves fixed (`Spins`). `IntWidth`, `ToInt32` and `Shr` give `>>` and `&` JavaScript's ToInt32 conversion; at width 32 TLC's integers make it the identity. `DrawTree` models log.js's tree picture (`DrawLeaves`, `DrawJoins`), and `DrawInclusionNodes` and `DrawConsistencyRoots` the nodes log.js computes to draw a proof. |
| `MerkleRef` | Reference definitions (see above) | — |
| `MCMerkleLog` | The harness for the proof algorithms | `call` holds one verifier call with its inputs and outcome. `InclusionCall` and `ConsistencyCall` choose every input with `\E`. `Return` goes back to idle, so each call is one state. `SmallWidth` (4) is the width the `_width` configurations substitute for `IntWidth`, so sizes of 8 and 16 play the part of 2^31 and 2^32. |
| `LogClient` | A caller of `getVerifiedLatestTreeHead` with one or more calls outstanding, and the server it talks to | `log` is the honest server's log. `anchor` is the persisted head. Per call in `Callers`: `pc` is the pending request, `prev` the head the call's callbacks closed over, `cand` the head whose proof is awaited. The actions are listed after this table. |
| `TrustedHead` | What `getVerifiedLatestTreeHead` promises (its doc comment, continusec.js:795-802) | `trusted` is the sequence of entries the persisted head commits to, or `None`. `FirstUse` takes any log; `Extend` moves only to a strict extension. `LogClient` maps `trusted` to the leaves of `anchor`'s root (`Committed`). |
| `LogAudit` | `verifyEntries` and `secondStageVerifyEntries` | Operators. The whole call is `VerifyEntries(prev, head, auditPath, values)` of the server's two answers. It returns the callback reached and the entries handed to `each()`. `Array.pop()` on an empty stack is `Undefined`, hashed as the code hashes the text "undefined". |
| `MCLogAudit` | The harness for `verifyEntries` | `Audit` chooses prev (null or the head of any log), head, the inclusion path and the returned entries. |
| `SuppliedProof` | `verifySuppliedInclusionProof` over `getVerifiedTreeHead(prev, treeSize)` | `prev` is the persisted head, `pf` the supplied proof, `head` the head awaiting its consistency proof, `res` what the call reported. `Call` takes the size shortcut or sends `getTreeHead`; `ReceiveHead`, `ReceiveProof`, `RequestFails` are the callbacks; `Verified` is the final `try { proof.verify(head) }`. The server forks. |
| `MapProof` | `constructKeyPath`, `generateMapDefaultLeafValues`, `MapEntryResponse.verify`, `getVerifiedValue` | Operators. The tree has `Depth` levels instead of 256, and a key's SHA-256 is `KeyHash[key]`, a `Depth`-bit number. `MapFold` is the verify loop, with a null path slot replaced by the default of the level below. log.js's `DrawMapInclusion` is `MapDrawHeight` (its first pass, the rows it reserves) and `DrawMapInclusion` (its second pass: the node rows, each with whether it is coloured as the tree hash, and the note row for the first run of default levels, which `DrawHides` and `DrawRunEnds` decide). |
| `MCMapProof` | The harness for `getVerifiedValue` | `GetValueCall` chooses a map, a key, and the server's answer: any value, tree size 1, 2 or null, and an audit path whose slots are null or sub-terms of the root, besides the honest path. `SubRoot` is the reference sparse root. `DrawCall` draws a map proof on a tree of depth `DrawDepth` = 5 (the instance `Wide`): every key path, every path whose slots are null, the level's default sent explicitly, or another digest, and a tree hash that is or is not the fold. |
| `ObjectHash` | `objectHashWithRedaction`, `objectHash`, `shedRedacted`, `RedactedJsonEntry.getData` | Operators over JSON values as records (`null`, `bool`, `num` as a dyadic p/2^q, `str`, `list`, `dict` as a sequence of members in insertion order). The SHA-256 of a tagged byte string is `OHash(tag, bytes)`. A string starting with `***REDACTED*** Hash: ` is a record `red` whose payload is the sequence of digests `decodeHex` gives. The number branch keeps the code's loops (`Shrink`, `Grow`) and its 1024-bit mantissa loop as bits. |
| `EntryTypes` | The three factories' `createFromLeafData`, and `getLeafHash` and `getData` of `RawDataEntry`, `JsonEntry` and `RedactedJsonEntry` | Operators. An entry's data is a text record: empty, raw bytes, a digest's bytes, or JSON (kept as the value). A missing server field is `Absent`; `atob` of it, and `JSON.parse` of a non-JSON text, is `Throw`. |
| `MCObjectHash` | The harness for ObjectHash and the entry types | One call per state: `HashPair`, `HashRedacted`, `HashForged`, `GetRedactedData`, `EncodeNumbers`, `ReadEntry`, `GetEntryCall`, then `Return`. `Encode` and `RedactKeys` build what the server stores and redacts. `ReadEntry` reads one element of a getEntries answer for a log of `x` through a factory; it is accepted when its `getLeafHash` equals the committed leaf, which is what `verifyEntries`'s root comparison comes to for that entry under a collision-free hash. `GetEntryCall` is `getEntry`: the factory gets the unparsed answer, whose fields `GetEntryElement` reads as absent. |
| `MapClient` | `getVerifiedLatestMapState`, `getVerifiedMapState`, `secondStageMapVerified`, `MapTreeHead.getLeafHash` | `state` is the persisted `MapTreeState`. Per call in `Callers`: `pc` the pending callback; `prev` the state the call's closures captured; `mh`, `thlth`, `thcand` the map head, tree-head-log head and candidate received so far; `size` the tree size asked for (0 for the latest); `got` the state an explicit-size call handed back, for the one state before `Return`. `CallLatest` and `CallFixed` (with the size shortcut) start a call; `Deliver` is the final `success`, which persists only for the latest, choosing between the new state and the call's own `prev`. One action per callback; the server's answer to `getTreeHead(treeSize)` is any map head, since nothing in the callback checks its size. The map head's leaf is the ObjectHash of its JSON form. `MutationTrust` and `TreeHeadTrust` instantiate `TrustedHead` with the leaves of the persisted state's two heads. |
| `Polling` | `blockUntilPresent`/`doBlockRound`, `blockUntilSize`/`doMapBlockRound` | `n` and `pos` are the server log's size and the caller's leaf index; per poller `pc`, `last` (lastHead), `secs` (the sign of secsToSleep), `held` (the head size received) and `why` (the failure reason). `LogHead`, `LogInclusion`, `MapHead` are the callbacks, `Wake` the timer, `NetworkFails` a lost request, `Sequence` the server. |

`LogClient` has one action per callback, each for one call `c`:
- `CallLatest` sends `getTreeHead(0)` and records the persisted head as the
  call's `prev`.
- `ReceiveHead` runs the `getTreeHead` callback, including the whole
  `verifyConsistency` pre-check against the call's `prev`, and either decides
  or sends the proof request. What `success` returns is persisted, over
  whatever another call persisted meanwhile.
- `ReceiveProof` (through `ProofReply`, which enumerates the server's
  answers) runs the proof callback, including the latest-head choice
  (`LatestOf`) of `getVerifiedLatestTreeHead`.
- `RequestFails` is `failure(reason)` from `makeRequest`.
- `Sequence` lets the honest server grow its log between callbacks.

`ServerModel` chooses the server:
- `honest`: one append-only log.
- `forking`: the head of any log, and real proofs of any log.
- `arbitrary`: any path of digests.

## Runs

Every property of a passing run has a mutant in `PROJECT.json`. A mutant is a
plausible bug in the mapped definition that TLC must catch under the same cfg.

| Run | Checks | Result and meaning |
|---|---|---|
| `proofs` | `CalculateMTHMatchesReference`, `DrawTreeSound`, `InclusionComplete`, `InclusionFoldSound`, `ConsistencyComplete`, `ConsistencyFoldSound` | Pass. The audit tool's stack hash equals RFC 6962, every node of log.js's tree picture is the RFC 6962 hash of its range and the picture has the root, and its paths verify for every in-range leaf and every prefix pair (equal heads need none), in either argument order. Whatever path the server sent: if the inclusion fold ends with `sn = 0` at the root, the claimed leaf is in the log at that index; if both consistency roots match, one log is a prefix of the other. |
| `client_forking` | `TypeOK`, `TrustedHeadRefined` | Pass. The client implements `TrustedHead` under the mapping `trusted <- Committed`: a server that shows forks but sends real proofs never moves the persisted head to a head that does not extend it. |
| `client_arbitrary` | `AnchorAppendOnly` | Violation. A crafted proof moves the persisted head from `<<e1>>` to the fork `<<e2,e1>>`, through the `return false` at :1029. |
| `client_honest` | `Converges` | Pass. With an honest server, two refreshes outstanding at once, requests that may fail, and a log that grows to 4, the persisted head eventually covers the whole log: a stale result persisted late is overwritten by a later call. |
| `audit` | `AuditSound`, `AuditComplete` | Pass. If `verifyEntries` succeeds in advancing, the log behind head is prev's log followed by exactly the entries given to `each()`. Honest answers always succeed. |
| `supplied_proof` | `TypeOK`, `SuppliedIncluded`, `SuppliedConsistent` | Pass. Given in-range inclusion proofs of any entry of any log, and a forking server, `verifySuppliedInclusionProof` succeeds only with a head that holds that entry at the stated index and that one log shares with prev. |
| `supplied_proof_anyindex` | `SuppliedIncluded` | Violation. A supplied proof with leaf index -1 is accepted for any entry (`return false` at :1111 again). |
| `map_verify` | `MapVerifyComplete`, `MapVerifySound`, `DrawnMapAccountsLevels`, `DrawnMapRootAgrees` | Pass. The honest answer verifies for every key of every map, set or not; whatever path the server sends, a value returned through `success` is the one the root commits to. log.js's map proof picture reserves exactly the rows it draws, and the levels it draws plus the levels its note says it hides are all the levels; its top node is the root verify folds, coloured as the tree hash exactly when verify would accept, and no lower node is. |
| `objecthash` | `HashCanonical`, `RedactionPreservesHash`, `ShedInverse`, `NumberEncodingInjective`, `EntryReadSound` | Pass. Equal hashes exactly for equal values (dict order ignored); redacting members keeps the hash; `getData` of a redacted document is the document without those members; the number encoding is defined and injective on dyadics. An entry read through `JsonEntry`, or through `RedactedJsonEntry` from a redactable log, whose leaf hash matches, reads as the committed document up to redacted members (`EntryReadSound`). |
| `objecthash_forged` | `RedactionFaithful` | Violation. The redacted-string payload is not length-checked (:1742): `["***REDACTED*** Hash: "]` hashes like `[]`. |
| `map_state` | `TypeOK`, `MapStateSound`, `MapStateConsistentWithPrev`, `MapStateRefined` | Pass. Against a server with forks of both logs that may answer any map head to any request, the persisted map state's head is a leaf of its tree-head log; a state asked for at sizes 1 or 2 holds its map head in its tree-head log and is consistent with the prev passed in; and the client implements `TrustedHead` twice, once for the mutation log and once for the tree-head log: both only ever extend. |
| `polling` | `TypeOK`, `BackOffPositive`, `PollsConverge` | Pass. Both loops never reschedule with zero delay (the first round's lastHead of -1 sees to it), and each ends in success unless the network fails one of its requests. |

The twelve runs above are the project's checks. The configurations below
check, one property each, what the documentation or the spec says where the
code disagrees. Each is kept as the evidence for a hazard in `PROJECT.json`;
the three runs named `client_arbitrary`, `objecthash_forged` and
`supplied_proof_anyindex` are the findings.

| Configuration | Property | What TLC shows |
|---|---|---|
| `MCMerkleLog_inclusion_accept.cfg` | `InclusionAcceptedSound` | `verifyInclusion` succeeds for leaf index -1 with an empty path, through `return false` at continusec.js:1111. |
| `MCMerkleLog_consistency_accept.cfg` | `ConsistencyAcceptedSound` | `verifyConsistency` accepts `<<e2,e1>>` against `<<e1>>` with the path `<<leaf e1, leaf e1>>`, through `return false` at :1029. |
| `LogClient_concurrent.cfg` | `TrustedHeadRefined` | Two calls outstanding at once against an honest server: the one that started from an older `prev` completes last, and the persisted head moves back from `<<e2,e1>>` to `<<e2>>` (continusec.js:803-811 compares with the call's own `prev`, not with what was persisted since). |
| `LogClient_honest_empty.cfg` | `Converges` | A caller that first saw the empty log stays there: `verifyConsistency` rejects size 0 (continusec.js:758). |
| `MCLogAudit_consistent.cfg` | `AuditConsistent` | For `prev.size >= head.size`, `verifyEntries` succeeds without looking, even for two different logs. |
| `MCObjectHash_shed_malformed.cfg` | `ShedFailsWhole` | A malformed dict below the top level does not make `getData` fail: it becomes `null` in an array. |
| `MCObjectHash_getentry.cfg` | `GetEntryAgreesWithGetEntries` | `getEntry` (continusec.js:552) never JSON-parses the answer. The factory reads `leaf_input` and `extra_data` of a string, which are undefined. A raw or JSON entry comes back empty, and a redacted one throws. One step finds this. |
| `MCObjectHash_number_range.cfg` | `NormalizedInSpecRange` | The number loop normalizes into (0.5, 1], not [0.5, 1): -1 gets exponent 0 (:1760). |
| `MCMapClient_concurrent.cfg` | `MapStateRefined` | Two `getVerifiedLatestMapState` calls outstanding at once, against the forking server with one entry value: both start before anything is persisted, each trusts its map head on first use, and the second to finish replaces the first's state with one that does not extend it (9 steps). |
| `MCMapClient_wrongsize.cfg` | `MapStateAtRequestedSize` | `getVerifiedMapState(null, 1)` accepts the server's empty map head. The callback at :470 never compares the answer's size with `treeSize`, and the tree-head log includes that head. So the caller is handed a state of size 0, although the documentation at :452 promises the map head for the given size (4 steps). |
| `MCMapClient_badindex.cfg` | `MapStateSound` | An inclusion answer with index -1 lets `getVerifiedLatestMapState` persist a map head no tree-head log contains. |
| `MCMerkleLog_width.cfg` | `InclusionComplete` | With `IntWidth <- SmallWidth` (sizes 8 and 16 standing for 2^31 and 2^32): `verifyInclusion` throws for leaf 0 of a log of 9 entries, because `>>` wraps the size negative (:1129). At width 32 this is every log of more than 2^31 entries. |
| `MCMerkleLog_width_hang.cfg` | `ConsistencyReturns` | At the same width, `verifyConsistency` with a first size of 16 (2^32 at width 32) never returns: `fn` becomes -1 and `fn >>= 1` leaves it there (:1016-1019). |
| `MCMerkleLog_drawn.cfg` | `DrawnVerdictAgrees` | log.js draws an inclusion proof whose last node is the root while `verifyInclusion` throws (log `<<e1,e1,e1>>`, index 1): the picture and the verdict disagree. |
| `MCMerkleLog_drawn_consistency.cfg` | `DrawnConsistencyAgrees` | log.js draws both consistency roots as matching for `<<e1>>` and `<<e1,e1>>` with the path `<<leaf e1, leaf e1>>`, which `verifyConsistency` rejects. |
| `MCPolling_notfound.cfg` | `PollsConverge` | If the server answers a too-early inclusion request with 404, `blockUntilPresent` fails instead of waiting (:884). |

**Bounds.**
- There are two entry values. Logs reach 5 entries in the `proofs` run. They
  reach 5 in the forking client run, and 4 in the audit run and the honest
  client run.
- The honest client run has two calls outstanding at once (`Callers`), so
  every order of two callback chains and the growing log is explored; with
  5 entries it takes over seven minutes. The forking run has one call: its
  property is about what one refresh may do, and two calls break it even
  against an honest server (`LogClient_concurrent.cfg`).
- The `_width` configurations use width 4 instead of 32. `ToInt32` wraps the
  same way at every width, so a log of 9 entries with width 4 follows the
  branches a log of 2^31 + 1 follows at width 32, and a first size of 16 the
  branches of 2^32. The `proofs` run keeps width 32, and there the conversion
  is the identity on every size it reaches.
- At 5 entries there are trees that are not complete (3, 5), complete trees
  (4), first sizes that are and are not powers of two, and proofs of 1 to 3
  digests. These are all the shapes the bit loops distinguish.
- Server paths reach 3 digests. That is the length of the honest path for
  every pair up to size 5 except (3,5), where the honest path is added
  explicitly.
- The forking client run goes up to 5 entries, with every head of every log
  as a possible answer: forks of equal and unequal sizes, and proofs between
  every pair of sizes the `proofs` run covers.
- `supplied_proof`: logs of up to 4 entries over 2 values, every in-range
  index for every path, prev null or any non-empty head. That covers the size
  shortcut, older and newer heads, and forks at every size.
- `map_verify`: depth 3 and two keys whose hashes 001 and 110 differ in every
  bit, so every level has both a present and an empty sibling. The map proof
  picture is drawn at depth 5: there a run of one, two or three default
  levels can be hidden (not the leaf level, not the root's), and a run can
  end at level 1 or at a present sibling.
- `objecthash`: two keys in both insertion orders, arrays of up to 2 scalars,
  one level of nesting, numbers p/2^q with |p| <= 4 and q <= 3 (both loops of
  the normalisation and exact and inexact binary fractions). Entries: a
  dict of one string and one number member, stored plain or in the
  redactable encoding, with any subset of members redacted in the served
  text; leaf_input absent, other bytes, or the committed digest; extra_data
  absent or any of those texts, read through each of the three factories.
- `map_state`: mutation logs of 2 entries and tree-head logs of 2 map heads;
  3 map heads take over five minutes. The run has one call outstanding; two
  break `MapStateRefined` (`MCMapClient_concurrent.cfg`). Explicit sizes are 1 and 2, so the
  size asked for is equal to prev's (the shortcut), smaller or larger.
- `polling`: a log of 3 entries, target size 2. The leaf can be sequenced
  first, in the middle or last, and the size target is reached before and
  after the leaf.

## Fairness

`client_honest` assumes:
- Weak fairness of `CallLatest` for each call. The caller keeps refreshing,
  which is the documented use.
- Strong fairness of each call's two response actions. The network may fail any
  request, but not the same request forever.

Nothing is assumed of `Sequence` or `RequestFails`. The log may stop growing.
`Converges` is a `<>[]` property: it asks only that the client catches up
once the log has stopped growing.

`polling` assumes weak fairness of the server's `Sequence` (the caller has
added its leaf, and the service sequences what it accepts), of the three
response callbacks (the server answers) and of `Wake` (`setTimeout` fires).
Nothing is assumed of `NetworkFails`, so `PollsConverge` allows ending in a
network failure. The run does not check deadlock: both polls end and the
log stops at its bound.

## Not modelled yet, and the plan

Done so far: the log proof algorithms, the log anchor with concurrent calls
and its refinement of `TrustedHead`, `verifyEntries`,
`verifySuppliedInclusionProof`, the map proof, ObjectHash, the map state at
the latest and at explicit sizes with its refinement of `TrustedHead`, and
polling, and the entry types. The entry types are checked one entry at a
time against the committed leaf; `LogAudit` checks `verifyEntries` over
entry values, and the two are not composed into one state machine, since
the composition multiplies the entry texts by the audit's inputs beyond
what TLC finishes in minutes.

Left out for good:
- The vendored jsSHA, abstracted as the collision-free hash.
- The canvas layout in log.js: pixel positions, the sizing pass of `DrawConsistencyProof` (a copy of the drawing loop's two counters), `isBinary` and the display helpers. The nodes log.js computes for its pictures, and `DrawMapInclusion`'s rows, are modelled.
- URL, base64 and hex formatting.
- The `k << 1` of log.js `ReallyCalcK` is kept exact: the audit tool never
  reaches 2^30 entries. The verifiers' 32-bit `>>` and `&` are modelled
  through `IntWidth` and shown at width 4.
- `Infinity` and `NaN` in `objectHash`: the number loop would not end, and
  the model keeps numbers to small finite values.
