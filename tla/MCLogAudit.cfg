\* verifyEntries for every prev (null or the head of a log) and head over
\* logs of at most 4 entries of two values, with every audit path of at
\* most 3 digests and every entry batch of up to one more entry than asked.
CONSTANTS
    Entries = {e1, e2}
    MaxSize = 4
    MaxPath = 3
    None = None
SPECIFICATION Spec
INVARIANTS
    AuditSound
    AuditComplete
