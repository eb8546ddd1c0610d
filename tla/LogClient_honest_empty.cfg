\* Expected violation: an honest server whose log is still empty when the
\* caller first asks.  The caller persists the size-0 head, and every later
\* verifyConsistency call rejects it.
CONSTANTS
    Entries = {e1, e2}
    MaxSize = 3
    MaxPath = 3
    InitSize = 0
    ServerModel = "honest"
    None = None
    Callers = {c1}
SPECIFICATION FairSpec
PROPERTY Converges
