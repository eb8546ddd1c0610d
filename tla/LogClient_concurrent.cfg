\* Expected violation: two getVerifiedLatestTreeHead calls outstanding at
\* once against an honest server, the caller persisting each result.  The
\* call that started first can complete last, with a smaller head.
CONSTANTS
    Entries = {e1, e2}
    MaxSize = 3
    MaxPath = 3
    InitSize = 1
    ServerModel = "honest"
    None = None
    Callers = {c1, c2}
SPECIFICATION Spec
PROPERTY TrustedHeadRefined
