\* Expected violation: LogInclusionProof.verify returns (without throwing)
\* for a leaf index outside [0, treeSize), and the caller reports success.
CONSTANTS
    Entries = {e1, e2}
    MaxSize = 4
    MaxPath = 3
    None = None
SPECIFICATION SpecInclusion
INVARIANT InclusionAcceptedSound
