---------------------------- MODULE BillingProofs ---------------------------
(***************************************************************************)
(* Proofs about billing, for any tenants, events and bounds.                *)
(***************************************************************************)
EXTENDS Billing, TLAPS

\* The bounds are numbers; a module with an instance of this one cites it.
LEMMA Bounds == Period \in Nat \ {0} /\ MaxTime \in Nat /\ MaxFaults \in Nat
  BY ConstantsAssumption

\* Only a checkout of a tenant gets as far as the upsert.
Busy ==
    \A d \in Delivery : pc[d] \in {"upsert", "grant"} => IsCheckout(d) /\ Tenant(d) \in Tenants

\* A delivery whose grant is tried, or that was acknowledged, has been applied.
Ran ==
    \A d \in Delivery : pc[d] = "grant" \/ (pc[d] = "200" /\ IsCheckout(d)) =>
        \E at \in Nat : <<d, at>> \in applied

\* What was applied is in the table or has been replaced by a later period.
Stored ==
    \A d \in Delivery, at \in Nat : <<d, at>> \in applied =>
        /\ at <= clock
        /\ Tenant(d) \in Tenants
        /\ sub[Tenant(d)] # NoRow
        /\ sub[Tenant(d)].end >= at + Period

\* Every row was written by one delivery, some time ago.
Written ==
    \A t \in Tenants : sub[t] # NoRow =>
        \E d \in Delivery, at \in Nat :
            /\ <<d, at>> \in applied /\ at <= clock
            /\ Tenant(d) = t /\ IsCheckout(d)
            /\ sub[t].session = d[1] /\ sub[t].end = at + Period

\* A delivery is applied once, by the upsert it has then gone past.
OncePerDelivery ==
    /\ \A d \in Delivery, at \in Nat : <<d, at>> \in applied => pc[d] \notin {"idle", "upsert"}
    /\ \A d \in Delivery : \A a, b \in Nat :
           <<d, a>> \in applied /\ <<d, b>> \in applied => a = b

IInv == TypeOK /\ Busy /\ Ran /\ Stored /\ Written /\ OncePerDelivery /\ GrantFollowsRow
-----------------------------------------------------------------------------
\* A row is never removed; without an upsert it keeps its session and its end.
RowsKept ==
    \A t \in Tenants : /\ sub[t] # NoRow <=> sub'[t] # NoRow
                       /\ sub[t] # NoRow => /\ sub'[t].end = sub[t].end
                                            /\ sub'[t].session = sub[t].session

\* A step that applies nothing keeps what is known of the table.
LEMMA TableKept ==
    ASSUME IInv, RowsKept, UNCHANGED applied, clock' \in Nat, clock <= clock'
    PROVE  Stored' /\ Written'
<1>1. Stored'
  <2> SUFFICES ASSUME NEW d \in Delivery, NEW at \in Nat, <<d, at>> \in applied
               PROVE  /\ at <= clock' /\ Tenant(d) \in Tenants
                      /\ sub'[Tenant(d)] # NoRow /\ sub'[Tenant(d)].end >= at + Period
    BY DEF Stored, Tenant
  <2>1. /\ at <= clock /\ Tenant(d) \in Tenants
        /\ sub[Tenant(d)] # NoRow /\ sub[Tenant(d)].end >= at + Period
    BY DEF IInv, Stored
  <2>2. at <= clock'
    BY <2>1 DEF IInv, TypeOK
  <2> QED
    BY <2>1, <2>2 DEF RowsKept
<1>2. Written'
  <2> SUFFICES ASSUME NEW t \in Tenants, sub'[t] # NoRow
               PROVE  \E d \in Delivery, at \in Nat :
                        /\ <<d, at>> \in applied /\ at <= clock'
                        /\ Tenant(d) = t /\ IsCheckout(d)
                        /\ sub'[t].session = d[1] /\ sub'[t].end = at + Period
    BY DEF Written, Tenant, IsCheckout
  <2>1. sub[t] # NoRow
    BY DEF RowsKept
  <2>2. PICK d \in Delivery, at \in Nat :
                        /\ <<d, at>> \in applied /\ at <= clock
                        /\ Tenant(d) = t /\ IsCheckout(d)
                        /\ sub[t].session = d[1] /\ sub[t].end = at + Period
    BY <2>1 DEF IInv, Written
  <2>3. at <= clock'
    BY <2>2 DEF IInv, TypeOK
  <2> QED
    BY <2>1, <2>2, <2>3 DEF RowsKept
<1> QED
  BY <1>1, <1>2

\* A delivery that leaves the upsert unapplied, or has gone past it, changes
\* nothing in what is known of when deliveries were applied.
LEMMA OnceKept ==
    ASSUME IInv, UNCHANGED applied,
           \A d \in Delivery : pc'[d] \in {"idle", "upsert"} => pc[d] \in {"idle", "upsert"}
    PROVE  OncePerDelivery'
  BY DEF IInv, OncePerDelivery

\* Rows and rights stay, and failures are not forgotten: only the answer to a
\* checkout has to be looked at.
LEMMA GrantsKept ==
    ASSUME IInv, RowsKept, granted' = granted, UNCHANGED faults \/ Fault,
           \A d \in Delivery : pc'[d] = "200" /\ IsCheckout(d) => pc[d] = "200"
    PROVE  GrantFollowsRow'
<1>1. granted \subseteq Tenants /\ faults \in Nat
  BY ConstantsAssumption DEF IInv, TypeOK
<1>2. faults > 0 => faults' > 0
  BY <1>1 DEF Fault
<1>3. \A t \in granted' : sub'[t] # NoRow
  BY <1>1 DEF IInv, GrantFollowsRow, RowsKept
<1> QED
  BY <1>2, <1>3 DEF IInv, GrantFollowsRow, IsCheckout, Tenant

\* Type correctness of a step that answers, or moves on, one delivery.
LEMMA MoveKeepsTypes ==
    ASSUME TypeOK, NEW d \in Delivery, UNCHANGED <<clock, sub, applied>>,
           NEW label \in {"upsert", "grant"} \cup Answered, Goto(d, label),
           granted' \subseteq Tenants, UNCHANGED faults \/ Fault
    PROVE  TypeOK'
<1>1. pc' \in [Delivery -> {"idle", "upsert", "grant"} \cup Answered]
  BY DEF TypeOK, Goto
<1>2. faults' \in 0..MaxFaults
  BY ConstantsAssumption DEF TypeOK, Fault
<1> QED
  BY <1>1, <1>2 DEF TypeOK

\* An event arrives; only a checkout of a tenant is handled further.
LEMMA ReceiveKeeps == ASSUME IInv, NEW d \in Delivery, Receive(d) \/ ReadFails(d) PROVE IInv'
<1>1. pc[d] = "idle" /\ UNCHANGED <<clock, sub, granted, applied>>
  BY DEF Receive, ReadFails, MayArrive
<1>2. TypeOK'
  <2>1. PICK label \in {"200", "400", "503", "upsert"} : Goto(d, label)
    BY DEF Receive, ReadFails, Goto
  <2>2. UNCHANGED faults \/ Fault
    BY DEF Receive, ReadFails
  <2> QED
    BY <1>1, <2>1, <2>2, MoveKeepsTypes DEF IInv, TypeOK, Answered
<1>3. /\ pc'[d] \in {"200", "400", "503", "upsert"}
      /\ pc'[d] = "200" => ~IsCheckout(d)
      /\ pc'[d] = "upsert" => IsCheckout(d) /\ Tenant(d) # NoTenant
      /\ \A e \in Delivery : e # d => pc'[e] = pc[e]
  BY DEF IInv, TypeOK, Receive, ReadFails, Goto
<1>4. Tenant(d) # NoTenant => Tenant(d) \in Tenants
  BY ConstantsAssumption DEF Tenant, Delivery
<1>5. Busy'
  BY <1>3, <1>4 DEF IInv, Busy, Tenant, IsCheckout
<1>6. Ran'
  BY <1>1, <1>3 DEF IInv, Ran, IsCheckout
<1>7. RowsKept /\ Stored' /\ Written'
  BY <1>1, TableKept DEF IInv, TypeOK, RowsKept
<1>8. GrantFollowsRow'
  BY <1>1, <1>3, <1>7, GrantsKept DEF Receive, ReadFails
<1>9. OncePerDelivery'
  BY <1>1, <1>3, OnceKept
<1> QED
  BY <1>2, <1>5, <1>6, <1>7, <1>8, <1>9 DEF IInv

\* The upsert fails or the process dies: nothing is applied.
LEMMA FailureKeeps == ASSUME IInv, NEW d \in Delivery, UpsertFails(d) \/ Crash(d) PROVE IInv'
<1>1. UNCHANGED <<clock, sub, granted, applied>>
  BY DEF UpsertFails, Crash
<1>2. TypeOK'
  <2>1. PICK label \in {"500", "broken"} : Goto(d, label)
    BY DEF UpsertFails, Crash
  <2>2. Fault
    BY DEF UpsertFails, Crash
  <2> QED
    BY <1>1, <2>1, <2>2, MoveKeepsTypes DEF IInv, TypeOK, Answered
<1>3. /\ pc'[d] \in {"500", "broken"}
      /\ \A e \in Delivery : e # d => pc'[e] = pc[e]
  BY DEF IInv, TypeOK, UpsertFails, Crash, Goto
<1>5. Busy'
  BY <1>3 DEF IInv, Busy, Tenant, IsCheckout
<1>6. Ran'
  BY <1>1, <1>3 DEF IInv, Ran, IsCheckout
<1>7. RowsKept /\ Stored' /\ Written'
  BY <1>1, TableKept DEF IInv, TypeOK, RowsKept
<1>8. GrantFollowsRow'
  BY <1>1, <1>3, <1>7, GrantsKept DEF UpsertFails, Crash
<1>9. OncePerDelivery'
  BY <1>1, <1>3, OnceKept
<1> QED
  BY <1>2, <1>5, <1>6, <1>7, <1>8, <1>9 DEF IInv

\* The grant comes after the upsert, so there is a row.
LEMMA GrantKeeps == ASSUME IInv, NEW d \in Delivery, Grant(d) \/ GrantFails(d) PROVE IInv'
<1>1. /\ pc[d] = "grant" /\ UNCHANGED <<clock, sub, applied>>
      /\ granted' \subseteq granted \cup {Tenant(d)}
  BY DEF Grant, GrantFails
<1>2. Tenant(d) \in Tenants
  BY <1>1 DEF IInv, Busy
<1>3. TypeOK'
  <2>1. Goto(d, "200") /\ (UNCHANGED faults \/ Fault)
    BY DEF Grant, GrantFails
  <2>2. granted' \subseteq Tenants
    BY <1>1, <1>2 DEF IInv, TypeOK
  <2> QED
    BY <1>1, <2>1, <2>2, MoveKeepsTypes DEF IInv, Answered
<1>4. /\ pc'[d] = "200"
      /\ \A e \in Delivery : e # d => pc'[e] = pc[e]
  BY DEF IInv, TypeOK, Grant, GrantFails, Goto
<1>5. Busy'
  BY <1>4 DEF IInv, Busy, Tenant, IsCheckout
<1>6. Ran'
  BY <1>1, <1>4 DEF IInv, Ran, IsCheckout
<1>7. Stored' /\ Written'
  BY <1>1, TableKept DEF IInv, TypeOK, RowsKept
<1>8. GrantFollowsRow'
  <2>1. sub[Tenant(d)] # NoRow
    BY <1>1 DEF IInv, Ran, Stored
  <2>2. granted \subseteq granted' /\ (Tenant(d) \in granted' \/ faults' > 0)
        /\ (faults > 0 => faults' > 0)
    BY ConstantsAssumption DEF Grant, GrantFails, Fault, IInv, TypeOK
  <2>3. \A t \in granted' : sub'[t] # NoRow
    BY <1>1, <2>1 DEF IInv, GrantFollowsRow
  <2>4. ASSUME NEW e \in Delivery, pc'[e] = "200", IsCheckout(e)
        PROVE  Tenant(e) \in granted' \/ faults' > 0
    BY <1>4, <2>2, <2>4 DEF IInv, GrantFollowsRow
  <2> QED
    BY <2>3, <2>4 DEF GrantFollowsRow, IsCheckout, Tenant
<1>9. OncePerDelivery'
  BY <1>1, <1>4, OnceKept
<1> QED
  BY <1>3, <1>5, <1>6, <1>7, <1>8, <1>9 DEF IInv

\* The upsert writes a row that ends no earlier than any period bought before.
LEMMA UpsertKeeps == ASSUME IInv, NEW d \in Delivery, Upsert(d) PROVE IInv'
<1> DEFINE t == Tenant(d)
<1>1. pc[d] = "upsert" /\ IsCheckout(d) /\ t \in Tenants
  BY DEF IInv, Busy, Upsert
<1>2. /\ clock \in 0..MaxTime /\ clock \in Nat /\ clock + Period \in Nat
      /\ UNCHANGED <<clock, granted>>
  BY ConstantsAssumption DEF IInv, TypeOK, Upsert
<1>3. NewRow(d) \in Row /\ NewRow(d) # NoRow
  <2>1. d[1] \in Events
    BY DEF Delivery
  <2> QED
    BY <1>2, <2>1, NoRowAssumption DEF NewRow, Row
<1>4. /\ sub'[t] = NewRow(d)
      /\ \A u \in Tenants : u # t => sub'[u] = sub[u]
      /\ sub' \in [Tenants -> Row \cup {NoRow}]
  BY <1>1, <1>3 DEF IInv, TypeOK, Upsert
<1>5. NewRow(d).session = d[1] /\ NewRow(d).end = clock + Period
  BY DEF NewRow
<1>6. applied' = applied \cup {<<d, clock>>}
  BY DEF Upsert
<1>7. /\ pc'[d] \in {"grant", "500"}
      /\ \A e \in Delivery : e # d => pc'[e] = pc[e]
      /\ pc' \in [Delivery -> {"idle", "upsert", "grant"} \cup Answered]
      /\ faults' \in 0..MaxFaults
  <2>1. PICK label \in {"grant", "500"} : Goto(d, label)
    BY DEF Upsert
  <2>2. faults' \in 0..MaxFaults
    BY ConstantsAssumption DEF IInv, TypeOK, Upsert, Fault
  <2> QED
    BY <2>1, <2>2 DEF IInv, TypeOK, Goto, Answered
<1> HIDE DEF t
<1>8. TypeOK'
  BY <1>2, <1>4, <1>6, <1>7 DEF IInv, TypeOK
<1>9. Busy'
  BY <1>1, <1>7 DEF IInv, Busy, Tenant, IsCheckout, t
<1>10. Ran'
  BY <1>2, <1>6, <1>7 DEF IInv, Ran, IsCheckout
<1>11. Stored'
  <2> SUFFICES ASSUME NEW e \in Delivery, NEW at \in Nat, <<e, at>> \in applied'
               PROVE  /\ at <= clock /\ Tenant(e) \in Tenants
                      /\ sub'[Tenant(e)] # NoRow /\ sub'[Tenant(e)].end >= at + Period
    BY <1>2 DEF Stored, Tenant
  <2>1. CASE <<e, at>> = <<d, clock>>
    <3>1. e = d /\ at = clock
      BY <2>1
    <3> QED
      BY <3>1, <1>1, <1>2, <1>3, <1>4, <1>5 DEF t
  <2>2. CASE <<e, at>> \in applied
    <3>1. /\ at <= clock /\ Tenant(e) \in Tenants
          /\ sub[Tenant(e)] # NoRow /\ sub[Tenant(e)].end >= at + Period
      BY <2>2 DEF IInv, Stored
    <3>2. clock + Period >= at + Period
      BY <3>1, <1>2, ConstantsAssumption
    <3>3. CASE Tenant(e) = t
      BY <3>1, <3>2, <3>3, <1>3, <1>4, <1>5
    <3>4. CASE Tenant(e) # t
      BY <3>1, <3>4, <1>4
    <3> QED
      BY <3>3, <3>4
  <2> QED
    BY <2>1, <2>2, <1>6
<1>12. Written'
  <2> SUFFICES ASSUME NEW u \in Tenants, sub'[u] # NoRow
               PROVE  \E e \in Delivery, at \in Nat :
                        /\ <<e, at>> \in applied' /\ at <= clock
                        /\ Tenant(e) = u /\ IsCheckout(e)
                        /\ sub'[u].session = e[1] /\ sub'[u].end = at + Period
    BY <1>2 DEF Written, Tenant, IsCheckout
  <2>1. CASE u = t
    BY <2>1, <1>1, <1>2, <1>4, <1>5, <1>6 DEF t
  <2>2. CASE u # t
    BY <2>2, <1>4, <1>6 DEF IInv, Written
  <2> QED
    BY <2>1, <2>2
<1>13. GrantFollowsRow'
  <2>1. \A u \in granted' : sub'[u] # NoRow
    BY <1>2, <1>3, <1>4 DEF IInv, TypeOK, GrantFollowsRow
  <2>2. faults > 0 => faults' > 0
    BY ConstantsAssumption DEF Upsert, Fault, IInv, TypeOK
  <2>3. \A e \in Delivery : pc'[e] = "200" => pc[e] = "200"
    BY <1>7
  <2> QED
    BY <1>2, <2>1, <2>2, <2>3 DEF IInv, GrantFollowsRow, IsCheckout, Tenant
<1>14. OncePerDelivery'
  <2>1. \A at \in Nat : <<d, at>> \notin applied
    BY <1>1 DEF IInv, OncePerDelivery
  <2>2. \A e \in Delivery, at \in Nat :
            <<e, at>> \in applied' <=> <<e, at>> \in applied \/ (e = d /\ at = clock)
    BY <1>6
  <2>3. \A e \in Delivery, at \in Nat : <<e, at>> \in applied' => pc'[e] \notin {"idle", "upsert"}
    BY <1>7, <2>2 DEF IInv, OncePerDelivery
  <2>4. \A e \in Delivery : \A a, b \in Nat :
            <<e, a>> \in applied' /\ <<e, b>> \in applied' => a = b
    BY <2>1, <2>2 DEF IInv, OncePerDelivery
  <2> QED
    BY <2>3, <2>4 DEF OncePerDelivery
<1> QED
  BY <1>8, <1>9, <1>10, <1>11, <1>12, <1>13, <1>14 DEF IInv

\* A cancellation keeps the row's session and end.
LEMMA CancelKeeps == ASSUME IInv, NEW t \in Tenants, CancelSubscription(t) PROVE IInv'
<1>1. sub[t] # NoRow /\ UNCHANGED <<clock, granted, pc, applied, faults>>
  BY DEF CancelSubscription
<1>2. sub[t] \in Row
  BY <1>1 DEF IInv, TypeOK
<1>3. PICK new : new = [sub[t] EXCEPT !.status = "canceled"]
  OBVIOUS
<1>4. new \in Row /\ new.session = sub[t].session /\ new.end = sub[t].end
  BY <1>2, <1>3 DEF Row
<1>5. new # NoRow
  BY <1>4, NoRowAssumption
<1>6. sub' = [sub EXCEPT ![t] = new]
  BY <1>3 DEF CancelSubscription
<1>7. TypeOK'
  BY <1>1, <1>4, <1>6 DEF IInv, TypeOK
<1>8. RowsKept
  BY <1>1, <1>4, <1>5, <1>6 DEF IInv, TypeOK, RowsKept
<1>9. Stored' /\ Written'
  BY <1>1, <1>8, TableKept DEF IInv, TypeOK
<1>10. Busy' /\ Ran'
  BY <1>1 DEF IInv, Busy, Ran, Tenant, IsCheckout
<1>11. GrantFollowsRow' /\ OncePerDelivery'
  BY <1>1, <1>8, GrantsKept, OnceKept
<1> QED
  BY <1>7, <1>9, <1>10, <1>11 DEF IInv

\* Time passes.
LEMMA TickKeeps == ASSUME IInv, Tick PROVE IInv'
<1>1. /\ UNCHANGED <<sub, granted, pc, applied, faults>>
      /\ clock' \in 0..MaxTime /\ clock <= clock'
  BY ConstantsAssumption DEF IInv, TypeOK, Tick
<1>2. TypeOK'
  BY <1>1 DEF IInv, TypeOK
<1>3. Stored' /\ Written'
  BY <1>1, TableKept DEF RowsKept
<1> QED
  BY <1>1, <1>2, <1>3 DEF IInv, Busy, Ran, OncePerDelivery, GrantFollowsRow, Tenant, IsCheckout

\* The tables are empty at first.
LEMMA InitEstablishes == Init => IInv
  BY ConstantsAssumption DEF Init, IInv, TypeOK, Busy, Ran, Stored, Written,
     OncePerDelivery, GrantFollowsRow, Answered

\* Every step keeps the invariant.
LEMMA NextKeeps == IInv /\ [Next]_vars => IInv'
<1> SUFFICES ASSUME IInv, [Next]_vars PROVE IInv'
  OBVIOUS
<1>1. CASE \E d \in Delivery : Receive(d) \/ ReadFails(d) \/ Handle(d) \/ Crash(d)
  BY <1>1, ReceiveKeeps, FailureKeeps, GrantKeeps, UpsertKeeps DEF Handle
<1>2. CASE \E t \in Tenants : CancelSubscription(t)
  BY <1>2, CancelKeeps
<1>3. CASE Tick
  BY <1>3, TickKeeps
<1>4. CASE UNCHANGED vars
  BY <1>4 DEF vars, IInv, TypeOK, Busy, Ran, Stored, Written, OncePerDelivery,
                   GrantFollowsRow, Tenant, IsCheckout
<1> QED
  BY <1>1, <1>2, <1>3, <1>4 DEF Next

\* The invariant holds always.
THEOREM InvariantHolds == Spec => []IInv
  BY InitEstablishes, NextKeeps, PTL DEF Spec
-----------------------------------------------------------------------------
\* Types.
THEOREM TypeCorrect == Spec => []TypeOK
<1>1. IInv => TypeOK
  BY DEF IInv
<1> QED
  BY <1>1, InvariantHolds, PTL

\* Rights in SpiceDB are given only where a payment is stored, and where it was
\* acknowledged they are missing only if a call has failed.
THEOREM GrantFollowsRowHolds == Spec => []GrantFollowsRow
<1>1. IInv => GrantFollowsRow
  BY DEF IInv
<1> QED
  BY <1>1, InvariantHolds, PTL

\* When a delivery was applied lies within the clock's range.
LEMMA AppliedInRange ==
    ASSUME TypeOK, NEW d \in Delivery, NEW at \in Nat, <<d, at>> \in applied
    PROVE  at \in AppliedBy(d)
  BY DEF TypeOK, AppliedBy

\* A row is the trace of one delivery.
THEOREM RowIsOneDeliveryHolds == Spec => []RowIsOneDelivery
<1>1. IInv => RowIsOneDelivery
  BY AppliedInRange DEF IInv, Written, RowIsOneDelivery
<1> QED
  BY <1>1, InvariantHolds, PTL

\* The session of a row with access was stored less than a period ago; if no
\* other delivery of its event was applied, that was when it was first stored.
LEMMA AccessIsPaidFor == IInv => OnePeriodPerPayment
<1> SUFFICES ASSUME IInv, NEW t \in Tenants, HasAccess(t), NEW s, s = sub[t].session
             PROVE  /\ TenantOf[s] = t /\ IsCheckout(<<s, 1>>)
                    /\ \E d \in Delivery : d[1] = s /\ \E at \in AppliedBy(d) : clock < at + Period
                    /\ AppliedOnce(s) =>
                           \A d \in Delivery : d[1] = s =>
                               \A from \in AppliedBy(d) : clock < from + Period
  BY DEF OnePeriodPerPayment
<1>1. sub[t] # NoRow /\ clock < sub[t].end
  BY DEF HasAccess
<1>2. PICK d \in Delivery, at \in Nat :
            /\ <<d, at>> \in applied /\ at <= clock
            /\ Tenant(d) = t /\ IsCheckout(d)
            /\ sub[t].session = d[1] /\ sub[t].end = at + Period
  BY <1>1 DEF IInv, Written
<1>3. d[1] = s /\ at \in AppliedBy(d) /\ clock < at + Period
  BY <1>1, <1>2, AppliedInRange DEF IInv
<1>4. TenantOf[s] = t /\ IsCheckout(<<s, 1>>)
  BY <1>2, <1>3 DEF Tenant, IsCheckout
<1>5. ASSUME AppliedOnce(s), NEW e \in Delivery, e[1] = s, NEW from \in AppliedBy(e)
      PROVE  clock < from + Period
  <2>1. /\ d = <<s, d[2]>> /\ e = <<s, e[2]>>
        /\ d[2] \in 1..MaxDeliveries /\ e[2] \in 1..MaxDeliveries
    BY <1>3, <1>5 DEF Delivery
  <2>2. AppliedBy(<<s, d[2]>>) # {} /\ AppliedBy(<<s, e[2]>>) # {}
    BY <1>3, <1>5, <2>1
  <2>3. d[2] = e[2]
    BY <1>5, <2>1, <2>2 DEF AppliedOnce
  <2>4. <<d, from>> \in applied /\ from \in Nat
    BY <1>5, <2>1, <2>3, Bounds DEF AppliedBy
  <2> QED
    BY <1>2, <1>3, <2>4 DEF IInv, OncePerDelivery
<1> QED
  BY <1>3, <1>4, <1>5

\* One payment gives one period of access, unless its event is replayed.
THEOREM OnePeriodPerPaymentHolds == Spec => []OnePeriodPerPayment
  BY AccessIsPaidFor, InvariantHolds, PTL

\* The end of a row covers every delivery that was acknowledged.
LEMMA AckedIsCovered == IInv => AckedPeriodHolds
<1>1. ASSUME IInv, NEW d \in Delivery, pc[d] = "200", IsCheckout(d)
      PROVE  /\ sub[Tenant(d)] # NoRow
             /\ \E at \in AppliedBy(d) : sub[Tenant(d)].end >= at + Period
  <2>1. PICK at \in Nat : <<d, at>> \in applied
    BY <1>1 DEF IInv, Ran
  <2>2. at \in AppliedBy(d)
    BY <1>1, <2>1, AppliedInRange DEF IInv
  <2> QED
    BY <1>1, <2>1, <2>2 DEF IInv, Stored
<1> QED
  BY <1>1 DEF AckedPeriodHolds

\* An acknowledged payment is never shortened.
THEOREM AckedPeriodHoldsAlways == Spec => []AckedPeriodHolds
  BY AckedIsCovered, InvariantHolds, PTL
=============================================================================
