\* A server with forks of mutation logs of up to 2 entries and tree-head
\* logs of up to 2 map heads, answering proofs from any of them.
CONSTANTS
    Entries = {e1, e2}
    MaxSize = 2
    MaxTH = 2
    ServerModel = "forking"
    None = None
    KeyRank <- MCKeyRank
    Callers = {c1}
SPECIFICATION Spec
INVARIANTS
    TypeOK
    MapStateSound
    MapStateConsistentWithPrev
PROPERTY MapStateRefined
