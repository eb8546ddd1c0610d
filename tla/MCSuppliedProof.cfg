\* A caller with a persisted head, or none, checks inclusion proofs of any
\* entry of any log of at most four entries, against a forking server.
CONSTANTS
    None = None
    Entries = {e1, e2}
    MaxSize = 4
    ProofModel = "wellformed"
SPECIFICATION Spec
INVARIANTS TypeOK SuppliedIncluded SuppliedConsistent
