\* A sparse tree of depth 3 with two keys whose hashes are 001 and 110
\* (each the bitwise mirror of the other, and apart from the root on every
\* level), and one non-empty value besides "".
CONSTANTS
    Depth = 3
    Keys = {k1, k2}
    Values = {v1, v2}
    KeyHash <- MCKeyHash
    None = None
SPECIFICATION Spec
INVARIANTS
    MapVerifyComplete
    MapVerifySound
    DrawnMapAccountsLevels
    DrawnMapRootAgrees
