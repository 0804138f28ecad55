---------------------------- MODULE MCScanPipeline --------------------------
(***************************************************************************)
(* ScanPipeline on small instances: one push, a leftover task, two scanners *)
(* and repositories with two leaks.                                         *)
(***************************************************************************)
EXTENDS ScanPipeline

CONSTANTS p1, p2, w1, w2
=============================================================================
