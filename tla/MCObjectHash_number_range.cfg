\* Plain and redactable documents over two keys and one string; numbers
\* -4..4 over 2^0..2^3.
CONSTANTS
    None = None
    Keys = {k1, k2}
    Strings = {s1}
    Nonce = n1
    MaxNum = 4
    MaxQ = 3
    KeyRank <- MCKeyRank
SPECIFICATION Spec
INVARIANT NormalizedInSpecRange
