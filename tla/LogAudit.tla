----------------------------- MODULE LogAudit ------------------------------
(***************************************************************************)
(* VerifiableLog.verifyEntries(prev, head, ...), the auditor's replay of   *)
(* a log (src/assets/static/continusec.js).  The call makes at most two    *)
(* requests and its outcome is a function of the two answers:              *)
(*   - getInclusionProofByIndex(prev.size + 1, prev.size), whose audit     *)
(*     path is folded into prev's root and then seeds the replay stack;    *)
(*   - getEntries(prev.size, head.size), whose values are passed to each() *)
(*     one by one, hashed and merged on the stack, and finally folded into *)
(*     a root compared with head's.                                        *)
(* The callbacks run one after another with nothing else touching the      *)
(* stack, so the call is an operator of the two answers.                    *)
(*                                                                         *)
(* Array.pop() on an empty stack yields undefined, and nodeMerkleTreeHash   *)
(* then hashes the text "undefined": Undefined is that value.              *)
(***************************************************************************)
EXTENDS MerkleLog

LOCAL INSTANCE SequencesExt

Undefined == <<"undefined">>

\* `headHash != head.getRootHash()` is a loose comparison: undefined == null.
LooseEq(a, b) == a = b \/ {a, b} = {Undefined, NoHash}

\* stack.pop(): the top element (undefined when empty) and what remains.
Top(stack) == IF stack = <<>> THEN Undefined ELSE stack[Len(stack)]
PopOff(stack) == IF stack = <<>> THEN <<>> ELSE SubSeq(stack, 1, Len(stack) - 1)

\* The first callback's loop: firstHash starts null and absorbs the audit
\* path bottom-up, each element becoming the left child.
FirstHashStep(h, p) == IF h = NoHash THEN p ELSE NodeMerkleTreeHash(p, h)
FirstHash(auditPath) == FoldLeft(FirstHashStep, NoHash, auditPath)

\* Fault variant of SeedStack: the audit path pushed in its own order.
SeedStackForward(auditPath) == auditPath

\* The stack is seeded with the audit path pushed from its last element
\* down, so the largest subtree is at the bottom.
SeedStack(auditPath) == Reverse(auditPath)

\* `for (z = idx; (z & 1) == 1; z >>= 1)`: pop right, pop left, push node.
RECURSIVE MergeRun(_, _)
MergeRun(stack, z) ==
    IF z % 2 = 1
    THEN LET right == Top(stack)
             left  == Top(PopOff(stack))
         IN  MergeRun(Append(PopOff(PopOff(stack)), NodeMerkleTreeHash(left, right)), Shr(z))
    ELSE stack

\* The each-callback of getEntries, for values delivered from index idx.
RECURSIVE Replay(_, _, _)
Replay(stack, idx, values) ==
    IF values = <<>> THEN stack
    ELSE Replay(MergeRun(Append(stack, LeafMerkleTreeHash(Head(values))), idx),
                idx + 1, Tail(values))

\* headHash = stack.pop(); then headHash = node(stack.pop(), headHash)
\* until the stack is empty.
FinalHash(stack) ==
    IF stack = <<>> THEN Undefined
    ELSE FoldRight(NodeMerkleTreeHash, Front(stack), Last(stack))

\* secondStageVerifyEntries: replay the values from parIdx and compare.
SecondStage(stack, prev, head, values) ==
    LET parIdx == IF prev = None THEN 0 ELSE prev.treeSize
    IN  IF parIdx + Len(values) # head.treeSize THEN "not_all_entries_returned"
        ELSE IF ~LooseEq(FinalHash(Replay(stack, parIdx, values)), head.rootHash)
             THEN "verification_error"
             ELSE "success"

\* Fault variant of VerifyEntries: the folded audit path is not compared
\* with prev's root before it seeds the stack.
VerifyEntriesNoSeedCheck(prev, head, auditPath, values) ==
    IF prev # None /\ prev.treeSize >= head.treeSize
    THEN [outcome |-> "success", delivered |-> <<>>]
    ELSE IF prev # None /\ prev.treeSize > 0
         THEN [outcome |-> SecondStage(SeedStack(auditPath), prev, head, values),
               delivered |-> values]
         ELSE [outcome |-> SecondStage(<<>>, prev, head, values), delivered |-> values]

\* verifyEntries(prev, head): auditPath is the inclusion proof's path (used
\* only when prev.size > 0), values the entries getEntries returned.  The
\* result is the callback reached and the entries handed to each().
VerifyEntries(prev, head, auditPath, values) ==
    IF prev # None /\ prev.treeSize >= head.treeSize
    THEN [outcome |-> "success", delivered |-> <<>>]
    ELSE IF prev # None /\ prev.treeSize > 0
         THEN IF FirstHash(auditPath) # prev.rootHash
              THEN [outcome |-> "verification_error", delivered |-> <<>>]
              ELSE [outcome |-> SecondStage(SeedStack(auditPath), prev, head, values),
                    delivered |-> values]
         ELSE [outcome |-> SecondStage(<<>>, prev, head, values), delivered |-> values]

=============================================================================
