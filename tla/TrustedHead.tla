---------------------------- MODULE TrustedHead ----------------------------
(***************************************************************************)
(* What getVerifiedLatestTreeHead promises a caller that persists what it  *)
(* returns, stated over entries rather than digests: the caller trusts     *)
(* nothing until its first use, then trusts one log, and from then on only *)
(* ever moves its trust to a log that extends the one it holds ("a new     *)
(* LogTreeHead which has been verified to be consistent with the past tree *)
(* head, or if no newer one present, the same value as passed in").        *)
(***************************************************************************)
EXTENDS Naturals, Sequences

LOCAL Seqs == INSTANCE SequencesExt

CONSTANTS Entries, MaxSize, None

VARIABLE trusted   \* the entries the persisted head commits to, or None

Logs == UNION {[1 .. k -> Entries] : k \in 0 .. MaxSize}

Init == trusted = None

\* First use (prev = null): any head the server shows is taken.
FirstUse ==
    /\ trusted = None
    /\ \E d \in Logs : trusted' = d

\* A later refresh moves only to a strict extension of what is trusted.
Extend ==
    /\ trusted # None
    /\ \E d \in Logs : Seqs!IsPrefix(trusted, d) /\ d # trusted /\ trusted' = d

Spec == Init /\ [][FirstUse \/ Extend]_trusted

=============================================================================
