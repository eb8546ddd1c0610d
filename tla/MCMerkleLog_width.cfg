\* Inclusion proofs of logs past the sign bit of the shift width: with
\* 4-bit shifts, a log of 9 entries stands for one of 2^31 + 1 entries.
\* The honest proof of leaf 0 is rejected: sn = 8 becomes -8 at the first
\* shift and only reaches -1, never 0.
CONSTANTS
    Entries = {e1}
    MaxSize = 9
    MaxPath = 1
    None = None
    IntWidth <- SmallWidth
SPECIFICATION Spec
INVARIANT
    InclusionComplete
