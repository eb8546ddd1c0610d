\* The supplied proof may state any leaf index, -1 and past the tree size
\* included.
CONSTANTS
    None = None
    Entries = {e1, e2}
    MaxSize = 3
    ProofModel = "anyindex"
SPECIFICATION Spec
INVARIANT SuppliedIncluded
