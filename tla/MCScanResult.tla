---------------------------- MODULE MCScanResult ----------------------------
(***************************************************************************)
(* ScanResult on small instances: up to four findings, from two files, two  *)
(* rules and two fingerprints.                                              *)
(***************************************************************************)
EXTENDS ScanResult
=============================================================================
