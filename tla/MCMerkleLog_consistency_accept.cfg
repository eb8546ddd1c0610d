\* Expected violation: LogConsistencyProof.verify returns (without throwing)
\* when the proof is empty for a first size that is not a power of two, or
\* has digests left over once sn reaches 0.
CONSTANTS
    Entries = {e1, e2}
    MaxSize = 4
    MaxPath = 3
    None = None
SPECIFICATION SpecConsistency
INVARIANT ConsistencyAcceptedSound
