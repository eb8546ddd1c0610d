\* getEntry passes the unparsed answer to the factory.
CONSTANTS
    None = None
    Keys = {k1, k2}
    Strings = {s1}
    Nonce = n1
    MaxNum = 4
    MaxQ = 3
    KeyRank <- MCKeyRank
SPECIFICATION Spec

INVARIANT GetEntryAgreesWithGetEntries
