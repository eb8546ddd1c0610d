\* Both polling loops against a log of up to three entries, the caller's
\* leaf among them; the server answers a too-early inclusion request 400.
CONSTANTS
    MaxSize = 3
    Target = 2
    NotYetStatus = 400
SPECIFICATION FairSpec
INVARIANTS TypeOK BackOffPositive
PROPERTIES PollsConverge
\* Both polls end and the server log stops at MaxSize.
CHECK_DEADLOCK FALSE
