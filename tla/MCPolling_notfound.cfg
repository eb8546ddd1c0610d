\* The server answers an inclusion request for a leaf it has not put in the
\* head with 404 (CONTINUSEC_NOT_FOUND_ERROR).
CONSTANTS
    MaxSize = 3
    Target = 2
    NotYetStatus = 404
SPECIFICATION FairSpec
PROPERTY PollsConverge
CHECK_DEADLOCK FALSE
