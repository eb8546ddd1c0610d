\* An honest server whose log already holds one entry when the caller
\* first asks, and grows to 4 entries over two entry values, while two
\* refreshes are outstanding at once.
CONSTANTS
    Entries = {e1, e2}
    MaxSize = 4
    MaxPath = 3
    InitSize = 1
    ServerModel = "honest"
    None = None
    Callers = {c1, c2}
SPECIFICATION FairSpec
PROPERTY
    Converges
