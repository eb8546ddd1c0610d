\* Expected violation: a server that shows two forks and answers a
\* consistency request with a proof of the wrong length moves the caller
\* from one fork to the other.
CONSTANTS
    Entries = {e1, e2}
    MaxSize = 3
    MaxPath = 3
    InitSize = 0
    ServerModel = "arbitrary"
    None = None
    Callers = {c1}
SPECIFICATION Spec
PROPERTY AnchorAppendOnly
