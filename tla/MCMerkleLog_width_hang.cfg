\* Consistency proofs from a first size of 2^IntWidth: with 4-bit shifts,
\* first size 16 stands for 2^32.  fn = 15 becomes -1 at the first shift of
\* `while ((fn & 1) == 1)`, and -1 >> 1 is -1: verify never returns
\* (outcome "hang"), so verifyConsistency calls neither callback.
CONSTANTS
    Entries = {e1}
    MaxSize = 17
    MaxPath = 1
    None = None
    IntWidth <- SmallWidth
SPECIFICATION Spec
INVARIANT
    ConsistencyReturns
