\* A server that shows any of the logs of at most 5 entries over two entry
\* values and answers every consistency request with the proof algorithm
\* run on any of them.
CONSTANTS
    Entries = {e1, e2}
    MaxSize = 5
    MaxPath = 3
    InitSize = 0
    ServerModel = "forking"
    None = None
    Callers = {c1}
SPECIFICATION Spec
INVARIANT TypeOK
PROPERTY TrustedHeadRefined
