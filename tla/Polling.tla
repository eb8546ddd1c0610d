------------------------------ MODULE Polling ------------------------------
(***************************************************************************)
(* The two polling loops of src/assets/static/continusec.js, run against   *)
(* one server log that sequences entries while they poll:                  *)
(*   "present": VerifiableLog.blockUntilPresent(leaf) / doBlockRound, which *)
(*              waits for a head that includes the caller's leaf;          *)
(*   "size":    VerifiableMap.blockUntilSize(Target) / doMapBlockRound,     *)
(*              which waits for a head of at least Target entries.         *)
(* Each round is getTreeHead(0), then (log only) verifyInclusion, then a   *)
(* setTimeout that starts the next round.                                  *)
(*                                                                         *)
(* The delay secsToSleep matters only through its sign: it starts at 0,    *)
(* is set to 1 and doubled, so it is "zero" or "pos".  The server log is   *)
(* its size n and the index pos of the caller's leaf (-1 while the leaf    *)
(* is not sequenced yet).  An inclusion request for a leaf not in the      *)
(* head is answered with HTTP status NotYetStatus, which the server        *)
(* chooses (400 or 404); makeRequest turns 400 into                        *)
(* CONTINUSEC_INVALID_RANGE_ERROR and 404 into CONTINUSEC_NOT_FOUND_ERROR. *)
(***************************************************************************)
EXTENDS Naturals, Integers

CONSTANTS
    MaxSize,       \* bound on the server log
    Target,        \* the size blockUntilSize waits for
    NotYetStatus   \* 400 or 404

ASSUME NotYetStatus \in {400, 404} /\ Target \in 1 .. MaxSize

Pollers == {"present", "size"}

VARIABLES
    n,      \* entries the server has sequenced
    pos,    \* index of the caller's leaf, -1 while pending
    pc,     \* poller -> "head" (getTreeHead sent), "incl", "sleep", "done", "failed"
    last,   \* poller -> lastHead
    secs,   \* poller -> sign of secsToSleep
    held,   \* poller -> the size of the last head received
    why     \* poller -> the reason passed to failure, or "none"

vars == <<n, pos, pc, last, secs, held, why>>

\* makeRequest's status switch, for the statuses the model produces.
ErrorOf(status) == IF status = 400 THEN "invalid_range" ELSE "not_found"

\* Fault variant of Init: the first round starts from lastHead 0.
InitFromZero ==
    /\ n = 0 /\ pos = -1
    /\ pc = [p \in Pollers |-> "head"]
    /\ last = [p \in Pollers |-> 0]
    /\ secs = [p \in Pollers |-> "zero"]
    /\ held = [p \in Pollers |-> -1]
    /\ why = [p \in Pollers |-> "none"]

\* blockUntilPresent / blockUntilSize: doBlockRound(log, -1, 0, ...).
Init ==
    /\ n = 0 /\ pos = -1
    /\ pc = [p \in Pollers |-> "head"]
    /\ last = [p \in Pollers |-> -1]
    /\ secs = [p \in Pollers |-> "zero"]
    /\ held = [p \in Pollers |-> -1]
    /\ why = [p \in Pollers |-> "none"]

\* The server sequences an entry: another writer's, or the caller's leaf.
\* Room is kept for the leaf, which the caller has already added.
Sequence ==
    /\ n < MaxSize
    /\ \/ pos = -1 /\ pos' = n
       \/ (pos # -1 \/ n + 1 < MaxSize) /\ UNCHANGED pos
    /\ n' = n + 1
    /\ UNCHANGED <<pc, last, secs, held, why>>

\* Fault variant of LogHead: the head is taken as one entry larger than
\* its tree size.
LogHeadSizePlusOne ==
    /\ pc["present"] = "head"
    /\ held' = [held EXCEPT !["present"] = n + 1]
    /\ pc' = [pc EXCEPT !["present"] = IF n + 1 > last["present"] THEN "incl" ELSE "sleep"]
    /\ UNCHANGED <<n, pos, last, secs, why>>

\* The getTreeHead callback of doBlockRound: a larger head is checked for
\* the leaf; otherwise secsToSleep doubles, which keeps its sign, and the
\* round is rescheduled.
LogHead ==
    /\ pc["present"] = "head"
    /\ held' = [held EXCEPT !["present"] = n]
    /\ pc' = [pc EXCEPT !["present"] = IF n > last["present"] THEN "incl" ELSE "sleep"]
    /\ UNCHANGED <<n, pos, last, secs, why>>

\* Fault variant of LogInclusion: every failure of verifyInclusion ends
\* the wait.
LogInclusionGiveUp ==
    /\ pc["present"] = "incl"
    /\ IF 0 <= pos /\ pos < held["present"]
       THEN pc' = [pc EXCEPT !["present"] = "done"] /\ UNCHANGED why
       ELSE /\ pc' = [pc EXCEPT !["present"] = "failed"]
            /\ why' = [why EXCEPT !["present"] = ErrorOf(NotYetStatus)]
    /\ UNCHANGED <<n, pos, last, secs, held>>

\* The verifyInclusion callbacks: success(lth) if the head includes the
\* leaf; on CONTINUSEC_INVALID_RANGE_ERROR secsToSleep = 1 and the next
\* round starts from this head's size; any other reason ends the wait.
LogInclusion ==
    /\ pc["present"] = "incl"
    /\ IF 0 <= pos /\ pos < held["present"]
       THEN pc' = [pc EXCEPT !["present"] = "done"] /\ UNCHANGED <<last, secs, why>>
       ELSE IF ErrorOf(NotYetStatus) = "invalid_range"
            THEN /\ pc' = [pc EXCEPT !["present"] = "sleep"]
                 /\ secs' = [secs EXCEPT !["present"] = "pos"]
                 /\ last' = [last EXCEPT !["present"] = held["present"]]
                 /\ UNCHANGED why
            ELSE /\ pc' = [pc EXCEPT !["present"] = "failed"]
                 /\ why' = [why EXCEPT !["present"] = ErrorOf(NotYetStatus)]
                 /\ UNCHANGED <<last, secs>>
    /\ UNCHANGED <<n, pos, held>>

\* The getTreeHead callback of doMapBlockRound: a larger head ends the wait
\* if it is big enough, else secsToSleep = 1 from its size; a head that did
\* not grow doubles the delay.
MapHead ==
    /\ pc["size"] = "head"
    /\ held' = [held EXCEPT !["size"] = n]
    /\ IF n > last["size"]
       THEN IF n >= Target
            THEN pc' = [pc EXCEPT !["size"] = "done"] /\ UNCHANGED <<last, secs>>
            ELSE /\ pc' = [pc EXCEPT !["size"] = "sleep"]
                 /\ secs' = [secs EXCEPT !["size"] = "pos"]
                 /\ last' = [last EXCEPT !["size"] = n]
       ELSE pc' = [pc EXCEPT !["size"] = "sleep"] /\ UNCHANGED <<last, secs>>
    /\ UNCHANGED <<n, pos, why>>

\* setTimeout fires: the next round sends getTreeHead(0).
Wake(p) ==
    /\ pc[p] = "sleep"
    /\ pc' = [pc EXCEPT ![p] = "head"]
    /\ UNCHANGED <<n, pos, last, secs, held, why>>

\* A request of the round fails with CONTINUSEC_NETWORK_ERROR (onerror):
\* getTreeHead's failure, or verifyInclusion's, which is not a range error.
NetworkFails(p) ==
    /\ pc[p] \in {"head", "incl"}
    /\ pc' = [pc EXCEPT ![p] = "failed"]
    /\ why' = [why EXCEPT ![p] = "network"]
    /\ UNCHANGED <<n, pos, last, secs, held>>

Next ==
    \/ Sequence
    \/ LogHead \/ LogInclusion \/ MapHead
    \/ \E p \in Pollers : Wake(p) \/ NetworkFails(p)

\* The server keeps sequencing what was added and answers every request it
\* gets; timers fire.  Nothing is assumed of network failures.
Fairness ==
    /\ WF_vars(Sequence)
    /\ WF_vars(LogHead) /\ WF_vars(LogInclusion) /\ WF_vars(MapHead)
    /\ \A p \in Pollers : WF_vars(Wake(p))

Spec == Init /\ [][Next]_vars
FairSpec == Spec /\ Fairness

-----------------------------------------------------------------------------
TypeOK ==
    /\ n \in 0 .. MaxSize /\ pos \in -1 .. MaxSize - 1
    /\ pc \in [Pollers -> {"head", "incl", "sleep", "done", "failed"}]
    /\ last \in [Pollers -> -1 .. MaxSize]
    /\ secs \in [Pollers -> {"zero", "pos"}]
    /\ held \in [Pollers -> -1 .. MaxSize]
    /\ why \in [Pollers -> {"none", "network", "invalid_range", "not_found"}]

\* The doc comment promises exponential back-off: every rescheduled round
\* waits a positive time.  secsToSleep starts at 0 and only doubles when
\* the head has not grown past lastHead; that never happens before a round
\* set it to 1, because lastHead starts at -1 and every head is larger.
BackOffPositive ==
    \A p \in Pollers : pc[p] = "sleep" => secs[p] = "pos"

\* blockUntilPresent and blockUntilSize end in success once the server has
\* sequenced the leaf or grown to the size, unless a request is lost to
\* the network: neither gives up on a head that is merely too small.
PollsConverge ==
    \A p \in Pollers : <>(pc[p] = "done" \/ why[p] = "network")

=============================================================================
