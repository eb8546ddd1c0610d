\* Every log of up to five entries over two values: inclusion calls for
\* every leaf index from -1 to 5 and consistency calls for every pair of
\* logs, with every server path of up to three digests and the honest one.
CONSTANTS
    Entries = {e1, e2}
    MaxSize = 5
    MaxPath = 3
    None = None
SPECIFICATION Spec
INVARIANTS
    CalculateMTHMatchesReference
    DrawTreeSound
    InclusionComplete
    InclusionFoldSound
    ConsistencyComplete
    ConsistencyFoldSound
