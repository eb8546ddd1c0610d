\* The documented consistency of prev and head, over the same inputs.
CONSTANTS
    Entries = {e1, e2}
    MaxSize = 4
    MaxPath = 3
    None = None
SPECIFICATION Spec
INVARIANT
    AuditConsistent
