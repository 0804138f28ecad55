--------------------------- MODULE MCEvidencePush ---------------------------
(***************************************************************************)
(* EvidencePush on small instances: a few workflow runs, each started once  *)
(* or twice, and two or three attempts instead of five.                     *)
(***************************************************************************)
EXTENDS EvidencePush

CONSTANTS r1, r2, r3   \* the workflow runs
=============================================================================
