\* The inclusion-proof drawing against LogInclusionProof.verify, over every
\* log of up to four entries and every server path of up to three digests.
CONSTANTS
    Entries = {e1, e2}
    MaxSize = 4
    MaxPath = 3
    None = None
SPECIFICATION Spec
INVARIANT
    DrawnVerdictAgrees
