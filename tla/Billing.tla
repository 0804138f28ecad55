-------------------------------- MODULE Billing -----------------------------
(***************************************************************************)
(* Stripe's webhooks and the subscriptions table (internal/billing).        *)
(*                                                                         *)
(* Stripe delivers an event until it is answered with a 2xx status, and may *)
(* deliver it again after that.  HandleStripeWebhook runs once per delivery *)
(* and deliveries overlap: they may belong to one event or to two events of *)
(* one tenant.  A delivery ends with the status it is answered with, or     *)
(* with a broken connection.                                                *)
(*                                                                         *)
(* Time is counted in units far longer than a request; NOW() is the unit    *)
(* in which the upsert runs.                                                *)
(***************************************************************************)
EXTENDS Naturals, FiniteSets

CONSTANTS
    Tenants,
    Events,         \* events signed by Stripe
    TenantOf,       \* the client_reference_id of each, or NoTenant
    TypeOf,         \* the type of each
    NoTenant,       \* no client_reference_id, or not a number
    NoRow,          \* no row for a tenant
    Period,         \* INTERVAL '30 days'
    MaxTime,        \* bound on the clock
    MaxDeliveries,  \* bound: how often Stripe delivers one event
    MaxFaults       \* bound: how many failures happen

EventTypes == {"checkout.session.completed", "other"}

ASSUME ConstantsAssumption ==
    /\ IsFiniteSet(Events)
    /\ TenantOf \in [Events -> Tenants \cup {NoTenant}]
    /\ TypeOf \in [Events -> EventTypes]
    /\ NoTenant \notin Tenants
    /\ Period \in Nat \ {0}
    /\ MaxTime \in Nat
    /\ MaxDeliveries \in Nat \ {0}
    /\ MaxFaults \in Nat

Delivery == Events \X (1..MaxDeliveries)
Answered == {"200", "400", "500", "503", "broken"}
Row == [status : {"active", "canceled"}, session : Events, end : Nat]

ASSUME NoRowAssumption == NoRow \notin Row

VARIABLES
    clock,    \* the current time
    sub,      \* the subscriptions table: a row per tenant, or NoRow
    granted,  \* tenants with the reader relation on demo_repo
    pc,       \* where the handling of every delivery is
    applied,  \* which deliveries have changed the table, and when
    faults    \* how many failures have happened

vars == <<clock, sub, granted, pc, applied, faults>>

TypeOK ==
    /\ clock \in 0..MaxTime
    /\ sub \in [Tenants -> Row \cup {NoRow}]
    /\ granted \subseteq Tenants
    /\ pc \in [Delivery -> {"idle", "upsert", "grant"} \cup Answered]
    /\ applied \subseteq Delivery \X (0..MaxTime)
    /\ faults \in 0..MaxFaults

Init ==
    /\ clock = 0
    /\ sub = [t \in Tenants |-> NoRow]
    /\ granted = {}
    /\ pc = [d \in Delivery |-> "idle"]
    /\ applied = {}
    /\ faults = 0
-----------------------------------------------------------------------------
Tenant(d) == TenantOf[d[1]]
IsCheckout(d) == TypeOf[d[1]] = "checkout.session.completed"

\* CheckSubscriptionAccess
HasAccess(t) ==
    /\ sub[t] # NoRow
    /\ sub[t].status = "active"
    /\ clock < sub[t].end

Goto(d, label) == pc' = [pc EXCEPT ![d] = label]

Fault ==
    /\ faults < MaxFaults
    /\ faults' = faults + 1

\* Stripe delivers an event for the first time, or again, whatever became of
\* the delivery before.
MayArrive(d) ==
    /\ pc[d] = "idle"
    /\ d[2] > 1 => pc[<<d[1], d[2] - 1>>] # "idle"

(***************************************************************************)
(* The body is read, the signature verified, the type looked at and the     *)
(* session parsed.  An event of another type is answered 200, a session     *)
(* without a numeric client_reference_id 400.                               *)
(***************************************************************************)
Receive(d) ==
    /\ MayArrive(d)
    /\ Goto(d, IF ~IsCheckout(d) THEN "200"
               ELSE IF Tenant(d) = NoTenant THEN "400"
               ELSE "upsert")
    /\ UNCHANGED <<clock, sub, granted, applied, faults>>

ReadFails(d) ==
    /\ MayArrive(d)
    /\ Fault
    /\ Goto(d, "503")
    /\ UNCHANGED <<clock, sub, granted, applied>>
-----------------------------------------------------------------------------
\* Mutant: ON CONFLICT (tenant_id) DO NOTHING.
NewRow_FirstWins(d) ==
    IF sub[Tenant(d)] = NoRow
    THEN [status |-> "active", session |-> d[1], end |-> clock + Period]
    ELSE sub[Tenant(d)]

\* Mutant: the update forgets stripe_session_id = EXCLUDED.stripe_session_id.
NewRow_OldSession(d) ==
    [status |-> "active",
     session |-> IF sub[Tenant(d)] = NoRow THEN d[1] ELSE sub[Tenant(d)].session,
     end |-> clock + Period]

\* Mutant: the arguments of ExecContext in the wrong order.
NewRow_SwappedArguments(d) ==
    [status |-> "active", session |-> Tenant(d), end |-> clock + Period]

\* The row after INSERT ... ON CONFLICT (tenant_id) DO UPDATE.
NewRow(d) == [status |-> "active", session |-> d[1], end |-> clock + Period]

\* Mutant: an error of the connection makes the handler run the upsert again.
Upsert_Retried(d) ==
    /\ pc[d] = "upsert"
    /\ sub' = [sub EXCEPT ![Tenant(d)] = NewRow(d)]
    /\ applied' = applied \cup {<<d, clock>>}
    /\ \/ Goto(d, "grant") /\ UNCHANGED faults
       \/ Fault /\ UNCHANGED pc
    /\ UNCHANGED <<clock, granted>>

(***************************************************************************)
(* The upsert, one statement.  Its error may come from the statement or     *)
(* from the connection after the statement has been committed.              *)
(***************************************************************************)
Upsert(d) ==
    /\ pc[d] = "upsert"
    /\ sub' = [sub EXCEPT ![Tenant(d)] = NewRow(d)]
    /\ applied' = applied \cup {<<d, clock>>}
    /\ \/ Goto(d, "grant") /\ UNCHANGED faults
       \/ Goto(d, "500") /\ Fault
    /\ UNCHANGED <<clock, granted>>

\* Mutant: the error is logged but the event is acknowledged.
UpsertFails_Acked(d) ==
    /\ pc[d] = "upsert"
    /\ Fault
    /\ Goto(d, "200")
    /\ UNCHANGED <<clock, sub, granted, applied>>

\* Mutant: the error is logged and the handler goes on.
UpsertFails_GoesOn(d) ==
    /\ pc[d] = "upsert"
    /\ Fault
    /\ Goto(d, "grant")
    /\ UNCHANGED <<clock, sub, granted, applied>>

UpsertFails(d) ==
    /\ pc[d] = "upsert"
    /\ Fault
    /\ Goto(d, "500")
    /\ UNCHANGED <<clock, sub, granted, applied>>

\* GrantAccess writes the relation with OPERATION_TOUCH; its error is only
\* logged, and the relation may have been written all the same.
Grant(d) ==
    /\ pc[d] = "grant"
    /\ granted' = granted \cup {Tenant(d)}
    /\ Goto(d, "200")
    /\ UNCHANGED <<clock, sub, applied, faults>>

GrantFails(d) ==
    /\ pc[d] = "grant"
    /\ Fault
    /\ granted' \in {granted, granted \cup {Tenant(d)}}
    /\ Goto(d, "200")
    /\ UNCHANGED <<clock, sub, applied>>

\* The API process stops in the middle of a request.
Crash(d) ==
    /\ pc[d] \in {"upsert", "grant"}
    /\ Fault
    /\ Goto(d, "broken")
    /\ UNCHANGED <<clock, sub, granted, applied>>
-----------------------------------------------------------------------------
\* CancelSubscription; nothing in the repository calls it yet.
CancelSubscription(t) ==
    /\ sub[t] # NoRow
    /\ sub[t].status # "canceled"
    /\ sub' = [sub EXCEPT ![t].status = "canceled"]
    /\ UNCHANGED <<clock, granted, pc, applied, faults>>

Tick ==
    /\ clock < MaxTime
    /\ clock' = clock + 1
    /\ UNCHANGED <<sub, granted, pc, applied, faults>>

Handle(d) ==
    \/ Upsert(d) \/ UpsertFails(d)
    \/ Grant(d) \/ GrantFails(d)

Next ==
    \/ \E d \in Delivery : Receive(d) \/ ReadFails(d) \/ Handle(d) \/ Crash(d)
    \/ \E t \in Tenants : CancelSubscription(t)
    \/ Tick

Spec == Init /\ [][Next]_vars

\* Stripe delivers again while an event has not been answered with 200.
Redeliver(d) ==
    /\ \A n \in 1..MaxDeliveries : pc[<<d[1], n>>] # "200"
    /\ Receive(d) \/ ReadFails(d)

(***************************************************************************)
(* Every statement of a handler returns, with success or failure, and       *)
(* Stripe retries an event that was not acknowledged.  Nothing makes it     *)
(* deliver an acknowledged one again.                                       *)
(***************************************************************************)
FairSpec ==
    /\ Spec
    /\ \A d \in Delivery : WF_vars(Handle(d)) /\ WF_vars(d[2] > 1 /\ Redeliver(d))
-----------------------------------------------------------------------------
AppliedBy(d) == {at \in 0..MaxTime : <<d, at>> \in applied}

\* No two deliveries of an event have been applied.
AppliedOnce(e) ==
    \A m, n \in 1..MaxDeliveries :
        AppliedBy(<<e, m>>) # {} /\ AppliedBy(<<e, n>>) # {} => m = n

\* Whoever has access is within one period of the storing of a checkout of his
\* own, and of its first storing unless the event was replayed: no other event,
\* failure, lost answer or cancellation adds time.  A replay does add time, a
\* fresh period without a payment (webhook.go:108), as EventAppliedOnce shows.
OnePeriodPerPayment ==
    \A t \in Tenants : HasAccess(t) => LET e == sub[t].session IN
        /\ TenantOf[e] = t /\ IsCheckout(<<e, 1>>)
        /\ \E d \in Delivery : d[1] = e /\ \E at \in AppliedBy(d) : clock < at + Period
        /\ AppliedOnce(e) =>
               \A d \in Delivery : d[1] = e =>
                   \A from \in AppliedBy(d) : clock < from + Period

\* A checkout that was answered with 200 bought its tenant at least the full
\* period from then on: no later delivery, older event or failure shortens it.
AckedPeriodHolds ==
    \A d \in Delivery : (pc[d] = "200" /\ IsCheckout(d)) =>
        /\ sub[Tenant(d)] # NoRow
        /\ \E at \in AppliedBy(d) : sub[Tenant(d)].end >= at + Period

\* A row is the trace of one delivery: its session and its end never come
\* from two different events.
RowIsOneDelivery ==
    \A t \in Tenants : sub[t] # NoRow =>
        \E d \in Delivery : /\ Tenant(d) = t /\ d[1] = sub[t].session
                            /\ \E at \in AppliedBy(d) : sub[t].end = at + Period

\* Rights in SpiceDB are given only to tenants whose payment is stored, and an
\* acknowledged payment has its right unless a call has failed: the handler
\* writes the row, then grants, then answers, and only logs an error of the
\* grant.
GrantFollowsRow ==
    /\ \A t \in granted : sub[t] # NoRow
    /\ \A d \in Delivery : pc[d] = "200" /\ IsCheckout(d) =>
           Tenant(d) \in granted \/ faults > 0

\* A checkout event of a tenant that Stripe has delivered is stored in the
\* end, if failures stop before Stripe does.
EventuallyStored ==
    \A e \in Events :
        (IsCheckout(<<e, 1>>) /\ TenantOf[e] # NoTenant /\ pc[<<e, 1>>] # "idle")
            ~> \E n \in 1..MaxDeliveries : AppliedBy(<<e, n>>) # {}

\* Every event is processed exactly once
\* (internal/billing/IMPLEMENTATION_GUIDE.md:119, README.md:193).
EventAppliedOnce == \A e \in Events : AppliedOnce(e)
=============================================================================
