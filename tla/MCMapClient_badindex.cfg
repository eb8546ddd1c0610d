\* As MCMapClient.cfg, but the server may answer an inclusion request
\* with leaf index -1 and an empty path.
CONSTANTS
    Entries = {e1, e2}
    MaxSize = 2
    MaxTH = 2
    ServerModel = "badindex"
    None = None
    KeyRank <- MCKeyRank
    Callers = {c1}
SPECIFICATION Spec
INVARIANT MapStateSound
