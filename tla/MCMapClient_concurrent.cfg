\* Expected violation: two getVerifiedLatestMapState calls outstanding at
\* once, the caller persisting each result.  Both close over the same prev;
\* the one that completes last can persist the smaller map state.
CONSTANTS
    Entries = {e1}
    MaxSize = 2
    MaxTH = 2
    ServerModel = "forking"
    None = None
    KeyRank <- MCKeyRank
    Callers = {c1, c2}
SPECIFICATION Spec
PROPERTY MapStateRefined
