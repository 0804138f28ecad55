----------------------------- MODULE MCAdmission ----------------------------
(***************************************************************************)
(* Admission on a small instance: one tenant with one payment, two pushes   *)
(* and a request for each.  TLC also evaluates the assumptions of the       *)
(* proofs on it.                                                            *)
(***************************************************************************)
EXTENDS AdmissionProofs, TLC

CONSTANTS t1, pay1, p1, p2, h1, h2

MCPushOf == (h1 :> p1) @@ (h2 :> p2)
MCSenderOf == [p \in Pushes |-> t1]
MCTenantOf == [e \in Events |-> t1]
MCTypeOf == [e \in Events |-> "checkout.session.completed"]
=============================================================================
