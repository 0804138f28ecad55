----------------------------- MODULE MCFindings -----------------------------
(***************************************************************************)
(* Findings on a small instance: one user, two repositories, two requests   *)
(* and up to two findings.                                                 *)
(***************************************************************************)
EXTENDS Findings, TLC

CONSTANTS u1, a, b, leak1, q1, q2

\* Neither requests nor repositories are told apart; no property is a
\* liveness property.
Symmetry == Permutations(Requests) \cup Permutations(Repos)
=============================================================================
