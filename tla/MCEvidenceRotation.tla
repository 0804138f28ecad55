------------------------- MODULE MCEvidenceRotation -------------------------
(***************************************************************************)
(* EvidenceRotation on a small instance: two runs, one of which may be      *)
(* started again, and two rotations.                                        *)
(***************************************************************************)
EXTENDS EvidenceRotation

CONSTANTS r1, r2   \* the workflow runs

MCMaxRunAttempts == [r \in Runs |-> IF r = r1 THEN 2 ELSE 1]
=============================================================================
