------------------------------ MODULE MCBilling -----------------------------
(***************************************************************************)
(* Billing on small instances: two payments of one tenant and a checkout    *)
(* that names no tenant, or one payment and an invoice.                     *)
(***************************************************************************)
EXTENDS Billing

CONSTANTS t1, pay1, pay2, anonymous, invoice

\* Who the events belong to, and what they are.
MCTenantOf ==
    [e \in Events |-> IF e = anonymous THEN NoTenant ELSE t1]
MCTypeOf ==
    [e \in Events |-> IF e = invoice THEN "other"
                                     ELSE "checkout.session.completed"]
=============================================================================
