--------------------------- MODULE AdmissionProofs ---------------------------
(***************************************************************************)
(* Proofs about admission, for any hooks, pushes, tenants and payments.     *)
(* What is proved of Billing on its own is used here by its instance BP.    *)
(***************************************************************************)
EXTENDS Admission, FiniteSetTheorems, TLAPS

BP == INSTANCE BillingProofs WITH pc <- payment

\* The payments are such as Billing deals with.
ASSUME BillingAssumption == BP!ConstantsAssumption /\ BP!NoRowAssumption

\* Who may read while his request is handled is known to have had the right.
Watched == \A h \in Hooks : pc[h] \in Handling /\ Sender(h) \in readers => right[h]

\* Past the first check the sender had the right, past the second he had paid.
Checked ==
    \A h \in Hooks :
        /\ pc[h] \in {"subscription", "publish"} => right[h]
        /\ pc[h] = "publish" => PaidFor(Sender(h), checked[h])

\* A hook is queued at most once, and nothing but its answer is left then.
QueuedOnce ==
    /\ \A i \in 1..Len(tasks) : pc[tasks[i]] \in {"202", "500"}
    /\ \A i, j \in 1..Len(tasks) : tasks[i] = tasks[j] => i = j

\* A request that is handled or queued tells of a push that is on the branch,
\* and so a clone made for it has that push.
Told ==
    /\ \A h \in Hooks : pc[h] \in Handling => Pushed(PushOf[h])
    /\ \A i \in 1..Len(tasks) : Pushed(PushOf[tasks[i]])
Cloned == \A h \in Hooks : cloned[h] > 0 => \E k \in 1..cloned[h] : commits[k] = PushOf[h]

Coverage == Told /\ Cloned /\ AcceptedIsCovered

IInv ==
    BP!IInv /\ TypeOK /\ Watched /\ Checked /\ QueuedOnce /\ TaskWasAdmitted /\ Coverage
-----------------------------------------------------------------------------
\* The constants of Billing are as its assumptions demand.
LEMMA Bounds == Period \in Nat \ {0} /\ MaxTime \in Nat /\ MaxFaults \in Nat
  BY BillingAssumption, BP!Bounds

\* Billing starts as it does on its own.
LEMMA BillingStarts == B!Init => BP!IInv
<1>1. B!Init => BP!Init
  BY DEF B!Init, BP!Init, B!Delivery, BP!Delivery
<1> QED
  BY <1>1, BillingAssumption, BP!InitEstablishes

\* The two instances of Billing are one.
LEMMA BillingTypes == (BP!IInv => B!TypeOK) /\ (BP!IInv' => B!TypeOK')
  BY DEF BP!IInv, B!TypeOK, BP!TypeOK, B!Delivery, BP!Delivery, B!Row, BP!Row,
         B!Answered, BP!Answered, B!EventTypes, BP!EventTypes

\* Both have the same steps.
LEMMA BillingSteps == B!Next => BP!Next
  BY DEF B!Next, BP!Next, B!Delivery, BP!Delivery, B!Receive, BP!Receive, B!ReadFails,
         BP!ReadFails, B!MayArrive, BP!MayArrive, B!Handle, BP!Handle, B!Upsert, BP!Upsert,
         B!UpsertFails, BP!UpsertFails, B!Grant, BP!Grant, B!GrantFails, BP!GrantFails,
         B!Crash, BP!Crash, B!CancelSubscription, BP!CancelSubscription, B!Tick, BP!Tick,
         B!Goto, BP!Goto, B!Fault, BP!Fault, B!NewRow, BP!NewRow, B!Tenant, BP!Tenant,
         B!IsCheckout, BP!IsCheckout

\* A step of Billing keeps what is known of it, and forgets no payment.
LEMMA BillKeeps == ASSUME BP!IInv, B!Next PROVE BP!IInv' /\ applied \subseteq applied'
<1>1. BP!IInv'
  BY BillingAssumption, BillingSteps, BP!NextKeeps
<1>2. applied \subseteq applied'
  BY DEF B!Next, B!Receive, B!ReadFails, B!Handle, B!Upsert, B!UpsertFails, B!Grant,
         B!GrantFails, B!Crash, B!CancelSubscription, B!Tick
<1> QED
  BY <1>1, <1>2

\* Where Billing rests, only the number of failures may change.
LEMMA BillingRests ==
    ASSUME BP!IInv, UNCHANGED billingVars, UNCHANGED faults \/ B!Fault
    PROVE  BP!IInv'
<1>1. /\ clock' = clock /\ sub' = sub /\ granted' = granted /\ payment' = payment
      /\ applied' = applied
  BY DEF billingVars
<1>2. faults' \in 0..MaxFaults
  BY Bounds DEF BP!IInv, BP!TypeOK, B!Fault
<1>3. BP!TypeOK'
  BY <1>1, <1>2 DEF BP!IInv, BP!TypeOK
<1>4. faults > 0 => faults' > 0
  BY Bounds DEF BP!IInv, BP!TypeOK, B!Fault
<1>5. BP!GrantFollowsRow'
  BY <1>1, <1>4 DEF BP!IInv, BP!GrantFollowsRow
<1> QED
  BY <1>1, <1>3, <1>5 DEF BP!IInv, BP!Busy, BP!Ran, BP!Stored, BP!Written, BP!OncePerDelivery

\* A payment that was made stays made.
LEMMA PaidStays ==
    ASSUME applied \subseteq applied'
    PROVE  \A t, at : PaidFor(t, at) => PaidFor(t, at)'
  BY DEF PaidFor, B!AppliedBy, B!Delivery, B!Tenant, B!IsCheckout

\* Access is given to somebody whose paid period is running.
LEMMA AccessIsPaid ==
    ASSUME BP!IInv, NEW t \in Tenants, B!HasAccess(t)
    PROVE  PaidFor(t, clock)
<1>1. sub[t] # NoRow /\ clock < sub[t].end
  BY DEF B!HasAccess
<1>2. PICK d \in B!Delivery, at \in Nat :
          /\ <<d, at>> \in applied /\ at <= clock
          /\ B!Tenant(d) = t /\ B!IsCheckout(d) /\ sub[t].end = at + Period
  BY <1>1 DEF BP!IInv, BP!Written, BP!Delivery, B!Delivery, BP!Tenant, B!Tenant,
              BP!IsCheckout, B!IsCheckout
<1>3. at \in B!AppliedBy(d)
  BY <1>2, Bounds DEF BP!IInv, BP!TypeOK, B!AppliedBy
<1> QED
  BY <1>1, <1>2, <1>3 DEF PaidFor
-----------------------------------------------------------------------------
\* Where a request is, and what is known of it.
RequestTypes ==
    /\ readers \subseteq Tenants
    /\ pc \in [Hooks -> {"idle"} \cup Handling \cup Answered]
    /\ right \in [Hooks -> BOOLEAN]
    /\ checked \in [Hooks -> 0..MaxTime]

\* What the scanners do.
ScanTypes ==
    /\ commits \in Seq(Pushes)
    /\ tasks \in Seq(Hooks) /\ Len(tasks) <= Cardinality(Hooks)
    /\ done \subseteq handled /\ handled \subseteq 1..Len(tasks)
    /\ cloned \in [Hooks -> 0..Len(commits)]
    /\ scanned \subseteq 1..Len(commits)
    /\ failed \subseteq handled

\* The types part by part, in a state and in the next one.
LEMMA TypesByPart ==
    /\ IInv => RequestTypes /\ ScanTypes
    /\ BP!IInv' /\ RequestTypes' /\ ScanTypes' => TypeOK'
  BY BillingTypes DEF IInv, TypeOK, RequestTypes, ScanTypes

\* Nothing scanners look at changes.
LEMMA ScanTypesRest ==
    ASSUME ScanTypes, UNCHANGED <<commits, tasks, scanVars>> PROVE ScanTypes'
<1>1. /\ commits' = commits /\ tasks' = tasks /\ handled' = handled /\ done' = done
      /\ cloned' = cloned /\ scanned' = scanned /\ failed' = failed
  BY DEF scanVars
<1> QED
  BY <1>1 DEF ScanTypes

\* The sender of a request is a tenant.
LEMMA SenderType == ASSUME NEW h \in Hooks PROVE Sender(h) \in Tenants
  BY HooksAssumption DEF Sender

\* A task is a hook.
LEMMA TaskType == ASSUME IInv PROVE \A i \in 1..Len(tasks) : tasks[i] \in Hooks
<1>1. tasks \in Seq(Hooks)
  BY DEF IInv, TypeOK
<1> QED
  BY <1>1

\* The branch only grows: a push that is on it stays, at its place.
Grows ==
    /\ Len(commits) \in Nat /\ Len(commits') \in Nat /\ Len(commits) <= Len(commits')
    /\ \A n \in 1..Len(commits) : commits'[n] = commits[n]

\* What a larger branch and more scans keep.
LEMMA PushesStay ==
    ASSUME Grows, scanned \subseteq scanned', scanned \subseteq 1..Len(commits), NEW p
    PROVE  /\ Pushed(p) => Pushed(p)'
           /\ \A m \in 0..Len(commits) :
                  (\E k \in 1..m : commits[k] = p) => \E k \in 1..m : commits'[k] = p
           /\ Covered(p) => Covered(p)'
<1>1. \A m \in 0..Len(commits) : \A k \in 1..m : k \in 1..Len(commits)
  BY DEF Grows
<1>2. Pushed(p) => Pushed(p)'
  BY DEF Grows, Pushed
<1>3. \A m \in 0..Len(commits) :
          (\E k \in 1..m : commits[k] = p) => \E k \in 1..m : commits'[k] = p
  BY <1>1 DEF Grows
<1>4. 1..Len(commits) \subseteq 0..Len(commits)
  BY DEF Grows
<1>5. Covered(p) => Covered(p)'
  BY <1>3, <1>4 DEF Covered
<1> QED
  BY <1>2, <1>3, <1>5

\* The scanners rest, the branch may grow and requests go on.
LEMMA CoverageRests ==
    ASSUME IInv, UNCHANGED <<tasks, scanVars>>,
           commits' = commits \/ \E p \in Pushes : commits' = Append(commits, p),
           \A h \in Hooks : pc'[h] = "202" => pc[h] = "202",
           \A h \in Hooks : pc'[h] \in Handling => pc[h] \in Handling \/ Pushed(PushOf[h])
    PROVE  Coverage'
<1>1. /\ tasks' = tasks /\ handled' = handled /\ cloned' = cloned /\ scanned' = scanned
      /\ failed' = failed
  BY DEF scanVars
<1>2. /\ commits \in Seq(Pushes) /\ cloned \in [Hooks -> 0..Len(commits)]
      /\ scanned \subseteq 1..Len(commits)
  BY DEF IInv, TypeOK
<1>3. Grows
  BY <1>2 DEF Grows
<1>4. \A p : /\ Pushed(p) => Pushed(p)'
             /\ \A m \in 0..Len(commits) :
                    (\E k \in 1..m : commits[k] = p) => \E k \in 1..m : commits'[k] = p
             /\ Covered(p) => Covered(p)'
  BY <1>1, <1>2, <1>3, PushesStay
<1>5. Told'
  <2>1. \A h \in Hooks : pc'[h] \in Handling => Pushed(PushOf[h])
    BY DEF IInv, Coverage, Told
  <2>2. \A i \in 1..Len(tasks) : Pushed(PushOf[tasks[i]])
    BY DEF IInv, Coverage, Told
  <2>3. \A h \in Hooks : pc'[h] \in Handling => Pushed(PushOf[h])'
    BY <2>1, <1>4
  <2>4. \A i \in 1..Len(tasks) : Pushed(PushOf[tasks[i]])'
    BY <2>2, <1>1, <1>4
  <2> QED
    BY <2>3, <2>4, <1>1 DEF Told, Pushed
<1>6. Cloned'
  <2> SUFFICES ASSUME NEW h \in Hooks, cloned[h] > 0
               PROVE  \E k \in 1..cloned[h] : commits'[k] = PushOf[h]
    BY <1>1 DEF Cloned
  <2>1. \E k \in 1..cloned[h] : commits[k] = PushOf[h]
    BY DEF IInv, Coverage, Cloned
  <2> QED
    BY <2>1, <1>2, <1>4
<1>7. AcceptedIsCovered'
  <2>1. \A h \in Hooks : pc'[h] = "202" => \E i \in 1..Len(tasks) : tasks[i] = h
    BY DEF IInv, Coverage, AcceptedIsCovered
  <2>2. \A i \in handled : i \in failed \/ Covered(PushOf[tasks[i]])
    BY DEF IInv, Coverage, AcceptedIsCovered
  <2>3. \A i \in handled : i \in failed \/ Covered(PushOf[tasks[i]])'
    BY <2>2, <1>1, <1>4
  <2> QED
    BY <2>1, <2>3, <1>1 DEF AcceptedIsCovered, Covered
<1> QED
  BY <1>5, <1>6, <1>7 DEF Coverage

(***************************************************************************)
(* One request goes on without queueing a task: the invariant is kept if    *)
(* what the new place promises about the request is true.                   *)
(***************************************************************************)
LEMMA MoveKeeps ==
    ASSUME IInv, NEW h \in Hooks, NEW label \in Handling \cup Answered,
           pc[h] \in {"idle"} \cup Handling, Goto(h, label),
           label # "202", label \in Handling => pc[h] \in Handling \/ Pushed(PushOf[h]),
           UNCHANGED <<billingVars, readers, commits, tasks, scanVars>>,
           UNCHANGED faults \/ B!Fault,
           right' \in [Hooks -> BOOLEAN], checked' \in [Hooks -> 0..MaxTime],
           \A g \in Hooks : g # h => right'[g] = right[g] /\ checked'[g] = checked[g],
           label \in Handling /\ Sender(h) \in readers => right'[h],
           label \in {"subscription", "publish"} => right'[h],
           label = "publish" => \A at : at = checked'[h] => PaidFor(Sender(h), at)
    PROVE  IInv'
<1>1. /\ readers' = readers /\ tasks' = tasks /\ applied' = applied
      /\ pc' = [pc EXCEPT ![h] = label]
  BY DEF billingVars, Goto
<1>2. /\ pc'[h] = label
      /\ \A g \in Hooks : g # h => pc'[g] = pc[g]
      /\ pc' \in [Hooks -> {"idle"} \cup Handling \cup Answered]
  BY <1>1 DEF IInv, TypeOK
<1>3. BP!IInv'
  BY BillingRests DEF IInv
<1>4. TypeOK'
  <2>1. RequestTypes'
    BY <1>1, <1>2 DEF IInv, TypeOK, RequestTypes
  <2>2. ScanTypes'
    BY TypesByPart, ScanTypesRest
  <2> QED
    BY <1>3, <2>1, <2>2, TypesByPart
<1>5. Watched'
  BY <1>1, <1>2 DEF IInv, Watched, Sender
<1>6. \A t, at : PaidFor(t, at) => PaidFor(t, at)'
  BY <1>1, PaidStays
<1>7. Checked'
  <2>1. ASSUME NEW g \in Hooks, pc'[g] \in {"subscription", "publish"} PROVE right'[g]
    BY <1>2, <2>1 DEF IInv, Checked
  <2>2. ASSUME NEW g \in Hooks, pc'[g] = "publish", NEW at, at = checked'[g]
        PROVE  PaidFor(Sender(g), at)'
    <3>1. PaidFor(Sender(g), at)
      BY <1>2, <2>2 DEF IInv, Checked
    <3> QED
      BY <3>1, <1>6 DEF Sender
  <2> QED
    BY <2>1, <2>2 DEF Checked, PaidFor, B!AppliedBy, Sender
<1>8. \A i \in 1..Len(tasks) : tasks[i] \in Hooks /\ tasks[i] # h
  BY TaskType DEF IInv, QueuedOnce, Handling
<1>9. QueuedOnce'
  BY <1>1, <1>2, <1>8 DEF IInv, QueuedOnce
<1>10. TaskWasAdmitted'
  <2> SUFFICES ASSUME NEW i \in 1..Len(tasks), NEW at, at = checked'[tasks[i]]
               PROVE  right'[tasks[i]] /\ PaidFor(Sender(tasks[i]), at)'
    BY <1>1 DEF TaskWasAdmitted, PaidFor, B!AppliedBy, Sender
  <2>1. PICK g \in Hooks : g = tasks[i] /\ g # h
    BY <1>8
  <2>2. right[g] /\ PaidFor(Sender(g), at)
    BY <2>1 DEF IInv, TaskWasAdmitted
  <2> QED
    BY <2>1, <2>2, <1>1, <1>6
<1>11. Coverage'
  <2>1. \A g \in Hooks : pc'[g] = "202" => pc[g] = "202"
    BY <1>2
  <2>2. \A g \in Hooks : pc'[g] \in Handling => pc[g] \in Handling \/ Pushed(PushOf[g])
    BY <1>2
  <2> QED
    BY <2>1, <2>2, CoverageRests
<1> QED
  BY <1>3, <1>4, <1>5, <1>7, <1>9, <1>10, <1>11 DEF IInv

\* What the handler of a request does before it queues a task.
LEMMA HandlerKeeps ==
    ASSUME IInv, NEW h \in Hooks,
           \/ TurnAway(h) \/ Receive(h) \/ CheckPermission(h) \/ PermissionUnknown(h)
           \/ CheckSubscription(h) \/ SubscriptionUnknown(h) \/ PublishFails(h) \/ Crash(h)
    PROVE  IInv'
<1>0. right \in [Hooks -> BOOLEAN] /\ checked \in [Hooks -> 0..MaxTime]
  BY DEF IInv, TypeOK
<1>1. CASE TurnAway(h)
  <2>1. PICK reason \in DOMAIN TurnedAway : Goto(h, TurnedAway[reason])
    BY <1>1 DEF TurnAway
  <2>2. PICK label : label = TurnedAway[reason]
    OBVIOUS
  <2>3. label \in Answered /\ label \notin Handling /\ label # "202"
    BY <2>1, <2>2 DEF TurnedAway, Answered, Handling
  <2> QED
    BY <1>0, <1>1, <2>1, <2>2, <2>3, MoveKeeps DEF TurnAway, Handling, scanVars
<1>2. CASE Receive(h)
  <2>1. /\ right' \in [Hooks -> BOOLEAN] /\ right'[h] = (Sender(h) \in readers)
        /\ \A g \in Hooks : g # h => right'[g] = right[g]
    BY <1>0, <1>2 DEF Receive
  <2> QED
    BY <1>0, <1>2, <2>1, MoveKeeps DEF Receive, Handling, scanVars
<1>3. CASE CheckPermission(h)
  <2>1. CASE Sender(h) \in readers
    <3>1. right[h]
      BY <1>3, <2>1 DEF IInv, Watched, CheckPermission, Handling
    <3> QED
      BY <1>0, <1>3, <2>1, <3>1, MoveKeeps DEF CheckPermission, Handling
  <2>2. CASE Sender(h) \notin readers
    BY <1>0, <1>3, <2>2, MoveKeeps DEF CheckPermission, Handling, Answered
  <2> QED
    BY <2>1, <2>2
<1>4. CASE CheckSubscription(h)
  <2>1. right[h] /\ pc[h] \in Handling
    BY <1>4 DEF IInv, Checked, CheckSubscription, Handling
  <2>2. CASE HasActiveSubscription(h)
    <3>1. PaidFor(Sender(h), clock)
      BY <2>2, SenderType, AccessIsPaid DEF HasActiveSubscription, IInv
    <3>2. /\ checked'[h] = clock /\ checked' \in [Hooks -> 0..MaxTime]
          /\ \A g \in Hooks : g # h => checked'[g] = checked[g]
      <4>1. clock \in 0..MaxTime
        BY DEF IInv, BP!IInv, BP!TypeOK
      <4>2. checked' = [checked EXCEPT ![h] = clock]
        BY <1>4, <2>2 DEF CheckSubscription
      <4> QED
        BY <1>0, <4>1, <4>2
    <3>3. Goto(h, "publish")
      BY <1>4, <2>2 DEF CheckSubscription
    <3> QED
      BY <1>0, <1>4, <2>1, <3>1, <3>2, <3>3, MoveKeeps DEF CheckSubscription, Handling
  <2>3. CASE ~HasActiveSubscription(h)
    BY <1>0, <1>4, <2>1, <2>3, MoveKeeps DEF CheckSubscription, Handling, Answered
  <2> QED
    BY <2>2, <2>3
<1>5. CASE PermissionUnknown(h)
  BY <1>0, <1>5, MoveKeeps DEF PermissionUnknown, Handling, Answered
<1>6. CASE SubscriptionUnknown(h)
  BY <1>0, <1>6, MoveKeeps DEF SubscriptionUnknown, Handling, Answered
<1>7. CASE PublishFails(h)
  BY <1>0, <1>7, MoveKeeps DEF PublishFails, Untouched, Handling, Answered, scanVars
<1>8. CASE Crash(h)
  BY <1>0, <1>8, MoveKeeps DEF Crash, Untouched, Handling, Answered, scanVars
<1> QED
  BY <1>1, <1>2, <1>3, <1>4, <1>5, <1>6, <1>7, <1>8

\* A queue in which nothing is twice is no longer than there are hooks.
LEMMA QueueBound ==
    ASSUME NEW s \in Seq(Hooks), \A i, j \in 1..Len(s) : s[i] = s[j] => i = j
    PROVE  Len(s) <= Cardinality(Hooks)
<1>1. Len(s) \in Nat /\ s \in [1..Len(s) -> Hooks]
  OBVIOUS
<1>2. s \in Injection(1..Len(s), Hooks)
  BY <1>1 DEF Injection, IsInjective
<1>3. Cardinality(1..Len(s)) <= Cardinality(Hooks)
  BY <1>2, FS_Injection, HooksAssumption
<1>4. Cardinality(1..Len(s)) = Len(s)
  BY <1>1, FS_Interval
<1> QED
  BY <1>3, <1>4

\* The task is queued.
LEMMA PublishKeeps == ASSUME IInv, NEW h \in Hooks, Publish(h) PROVE IInv'
<1>1. /\ readers' = readers /\ applied' = applied /\ right' = right /\ checked' = checked
      /\ commits' = commits /\ cloned' = cloned /\ scanned' = scanned /\ failed' = failed
      /\ handled' = handled /\ done' = done /\ tasks' = Append(tasks, h)
      /\ UNCHANGED billingVars /\ (UNCHANGED faults \/ B!Fault)
  BY DEF Publish, Untouched, Q!Add, billingVars
<1>2. /\ pc[h] = "publish" /\ pc'[h] \in {"202", "500"}
      /\ \A g \in Hooks : g # h => pc'[g] = pc[g]
      /\ pc' \in [Hooks -> {"idle"} \cup Handling \cup Answered]
  <2>1. PICK label \in {"202", "500"} : Goto(h, label)
    BY DEF Publish
  <2> QED
    BY <2>1 DEF Publish, Goto, IInv, TypeOK, Answered
<1>3. right[h] /\ PaidFor(Sender(h), checked[h])
  BY <1>2 DEF IInv, Checked
<1>4. /\ tasks \in Seq(Hooks) /\ tasks' \in Seq(Hooks) /\ Len(tasks) \in Nat
      /\ Len(tasks') = Len(tasks) + 1 /\ tasks'[Len(tasks) + 1] = h
      /\ \A i \in 1..Len(tasks) : tasks'[i] = tasks[i]
  BY <1>1 DEF IInv, TypeOK
<1>5. \A i \in 1..Len(tasks') : i \in 1..Len(tasks) \/ i = Len(tasks) + 1
  BY <1>4
<1>6. \A i \in 1..Len(tasks) : tasks[i] \in Hooks /\ tasks[i] # h
  BY <1>2, TaskType DEF IInv, QueuedOnce
<1>7. QueuedOnce'
  <2>1. \A i \in 1..Len(tasks') : pc'[tasks'[i]] \in {"202", "500"}
    BY <1>2, <1>4, <1>5, <1>6 DEF IInv, QueuedOnce
  <2>2. ASSUME NEW i \in 1..Len(tasks'), NEW j \in 1..Len(tasks'), tasks'[i] = tasks'[j]
        PROVE  i = j
    BY <2>2, <1>4, <1>5, <1>6 DEF IInv, QueuedOnce
  <2> QED
    BY <2>1, <2>2 DEF QueuedOnce
<1>8. BP!IInv'
  BY <1>1, BillingRests DEF IInv
<1>9. TypeOK'
  <2>1. RequestTypes'
    BY <1>1, <1>2 DEF IInv, TypeOK, RequestTypes
  <2>2. Len(tasks') <= Cardinality(Hooks)
    BY <1>4, <1>7, QueueBound DEF QueuedOnce
  <2>3. handled' \subseteq 1..Len(tasks')
    BY <1>1, <1>4 DEF IInv, TypeOK
  <2>4. ScanTypes'
    BY <1>1, <1>4, <2>2, <2>3, TypesByPart DEF ScanTypes
  <2> QED
    BY <1>8, <2>1, <2>4, TypesByPart
<1>10. Watched'
  BY <1>1, <1>2 DEF IInv, Watched, Sender, Handling
<1>11. \A t, at : PaidFor(t, at) => PaidFor(t, at)'
  BY <1>1, PaidStays
<1>12. Checked'
  <2>1. ASSUME NEW g \in Hooks, pc'[g] \in {"subscription", "publish"}
        PROVE  g # h /\ pc[g] = pc'[g] /\ right'[g]
    BY <1>1, <1>2, <2>1 DEF IInv, Checked
  <2>2. ASSUME NEW g \in Hooks, pc'[g] = "publish", NEW at, at = checked'[g]
        PROVE  PaidFor(Sender(g), at)'
    <3>1. PaidFor(Sender(g), at)
      BY <1>1, <2>1, <2>2 DEF IInv, Checked
    <3> QED
      BY <3>1, <1>11 DEF Sender
  <2> QED
    BY <2>1, <2>2 DEF Checked, PaidFor, B!AppliedBy, Sender
<1>13. TaskWasAdmitted'
  <2> SUFFICES ASSUME NEW i \in 1..Len(tasks'), NEW g, g = tasks'[i], NEW at, at = checked'[g]
               PROVE  right'[g] /\ PaidFor(Sender(g), at)'
    BY DEF TaskWasAdmitted, PaidFor, B!AppliedBy, Sender
  <2>1. g \in Hooks
    BY <1>4, <1>5, <1>6
  <2>2. right[g] /\ PaidFor(Sender(g), at)
    <3>1. CASE i \in 1..Len(tasks)
      BY <3>1, <2>1, <1>1, <1>4 DEF IInv, TaskWasAdmitted
    <3>2. CASE i = Len(tasks) + 1
      BY <3>2, <2>1, <1>1, <1>3, <1>4
    <3> QED
      BY <3>1, <3>2, <1>5
  <2> QED
    BY <2>1, <2>2, <1>1, <1>11 DEF Sender
<1>14. Coverage'
  <2>1. /\ Pushed(PushOf[h]) /\ \A i \in 1..Len(tasks) : Pushed(PushOf[tasks[i]])
        /\ \A g \in Hooks : pc[g] \in Handling => Pushed(PushOf[g])
    BY <1>2 DEF IInv, Coverage, Told, Handling
  <2>2. \A i \in 1..Len(tasks') : Pushed(PushOf[tasks'[i]])
    BY <2>1, <1>4, <1>5
  <2>3. \A g \in Hooks : pc'[g] \in Handling => Pushed(PushOf[g])
    BY <2>1, <1>2 DEF Handling
  <2>4. Told'
    BY <2>2, <2>3, <1>1 DEF Told, Pushed
  <2>5. Cloned'
    BY <1>1 DEF IInv, Coverage, Cloned
  <2>6. \A g \in Hooks : pc'[g] = "202" => \E i \in 1..Len(tasks') : tasks'[i] = g
    <3> SUFFICES ASSUME NEW g \in Hooks, pc'[g] = "202"
                 PROVE  \E i \in 1..Len(tasks') : tasks'[i] = g
      OBVIOUS
    <3>1. CASE g = h
      BY <3>1, <1>4
    <3>2. CASE g # h
      <4>1. PICK i \in 1..Len(tasks) : tasks[i] = g
        BY <3>2, <1>2 DEF IInv, Coverage, AcceptedIsCovered
      <4> QED
        BY <4>1, <1>4
    <3> QED
      BY <3>1, <3>2
  <2>7. \A i \in handled : tasks'[i] = tasks[i] /\ (i \in failed \/ Covered(PushOf[tasks[i]]))
    BY <1>4 DEF IInv, TypeOK, Coverage, AcceptedIsCovered
  <2>8. \A i \in handled : i \in failed \/ Covered(PushOf[tasks'[i]])
    BY <2>7
  <2>9. AcceptedIsCovered'
    <3>1. handled' = handled /\ failed' = failed /\ scanned' = scanned /\ commits' = commits
      BY <1>1
    <3> QED
      BY <2>6, <2>8, <3>1 DEF AcceptedIsCovered, Covered
  <2> QED
    BY <2>4, <2>5, <2>9 DEF Coverage
<1> QED
  BY <1>7, <1>8, <1>9, <1>10, <1>12, <1>13, <1>14 DEF IInv

(***************************************************************************)
(* No request moves: what is known of requests and tasks is kept, for       *)
(* rights seen and payments made are not forgotten.                         *)
(***************************************************************************)
LEMMA RequestsRest ==
    ASSUME IInv, UNCHANGED <<pc, checked, tasks>>, applied \subseteq applied',
           \A h \in Hooks : right[h] => right'[h]
    PROVE  Checked' /\ QueuedOnce' /\ TaskWasAdmitted'
<1>1. \A t, at : PaidFor(t, at) => PaidFor(t, at)'
  BY PaidStays
<1>2. Checked'
  <2>1. ASSUME NEW g \in Hooks, pc'[g] = "publish", NEW at, at = checked'[g]
        PROVE  PaidFor(Sender(g), at)'
    <3>1. PaidFor(Sender(g), at)
      BY <2>1 DEF IInv, Checked
    <3> QED
      BY <3>1, <1>1 DEF Sender
  <2>2. \A g \in Hooks : pc'[g] \in {"subscription", "publish"} => right'[g]
    BY DEF IInv, Checked
  <2> QED
    BY <2>1, <2>2 DEF Checked, PaidFor, B!AppliedBy, Sender
<1>3. QueuedOnce'
  BY DEF IInv, QueuedOnce
<1>4. TaskWasAdmitted'
  <2> SUFFICES ASSUME NEW i \in 1..Len(tasks), NEW g, g = tasks[i], NEW at, at = checked'[g]
               PROVE  right'[g] /\ PaidFor(Sender(g), at)'
    BY DEF TaskWasAdmitted, PaidFor, B!AppliedBy, Sender
  <2>1. g \in Hooks
    BY TaskType
  <2>2. right[g] /\ PaidFor(Sender(g), at)
    BY <2>1 DEF IInv, TaskWasAdmitted
  <2> QED
    BY <2>1, <2>2, <1>1 DEF Sender
<1> QED
  BY <1>2, <1>3, <1>4

\* The branch grows.
LEMMA CommitKeeps == ASSUME IInv, NEW p \in Pushes, Commit(p) PROVE IInv'
<1>1. /\ readers' = readers /\ applied' = applied /\ pc' = pc /\ right' = right
      /\ checked' = checked /\ tasks' = tasks /\ handled' = handled /\ done' = done
      /\ cloned' = cloned /\ scanned' = scanned /\ failed' = failed
      /\ UNCHANGED billingVars /\ UNCHANGED faults /\ commits' = Append(commits, p)
  BY DEF Commit, billingVars, requestVars, scanVars
<1>2. BP!IInv'
  BY <1>1, BillingRests DEF IInv
<1>3. RequestTypes'
  BY <1>1, TypesByPart DEF RequestTypes
<1>4. ScanTypes'
  <2>1. /\ commits \in Seq(Pushes) /\ cloned \in [Hooks -> 0..Len(commits)]
        /\ scanned \subseteq 1..Len(commits)
    BY DEF IInv, TypeOK
  <2>2. commits' \in Seq(Pushes) /\ Len(commits') = Len(commits) + 1 /\ Len(commits) \in Nat
    BY <1>1, <2>1
  <2>3. cloned' \in [Hooks -> 0..Len(commits')] /\ scanned' \subseteq 1..Len(commits')
    BY <1>1, <2>1, <2>2
  <2> QED
    BY <1>1, <2>2, <2>3, TypesByPart DEF ScanTypes
<1>5. Watched'
  BY <1>1 DEF IInv, Watched, Sender
<1>6. Coverage'
  BY <1>1, CoverageRests DEF scanVars
<1> QED
  BY <1>1, <1>2, <1>3, <1>4, <1>5, <1>6, TypesByPart, RequestsRest DEF IInv

\* An administrator gives or takes a right.
LEMMA SetReaderKeeps == ASSUME IInv, NEW t \in Tenants, SetReader(t) PROVE IInv'
<1>1. /\ applied' = applied /\ pc' = pc /\ checked' = checked /\ tasks' = tasks
      /\ UNCHANGED billingVars /\ UNCHANGED faults
      /\ UNCHANGED <<commits, tasks, scanVars>>
      /\ right' = [h \in Hooks |-> right[h] \/ (pc[h] \in Handling /\ Sender(h) \in readers')]
  BY DEF SetReader, billingVars
<1>2. \A h \in Hooks :
          /\ right[h] => right'[h]
          /\ pc[h] \in Handling /\ Sender(h) \in readers' => right'[h]
  BY <1>1
<1>3. BP!IInv'
  BY <1>1, BillingRests DEF IInv
<1>4. RequestTypes'
  <2>1. readers' \subseteq Tenants
    BY DEF SetReader, IInv, TypeOK
  <2>2. right' \in [Hooks -> BOOLEAN]
    <3>1. \A h \in Hooks : right[h] \in BOOLEAN
      BY DEF IInv, TypeOK
    <3> QED
      BY <1>1, <3>1, Zenon
  <2> QED
    BY <1>1, <2>1, <2>2, TypesByPart DEF RequestTypes
<1>5. ScanTypes'
  BY <1>1, TypesByPart, ScanTypesRest
<1>6. Watched' /\ Coverage'
  BY <1>1, <1>2, CoverageRests DEF Watched, Sender
<1> QED
  BY <1>1, <1>2, <1>3, <1>4, <1>5, <1>6, TypesByPart, RequestsRest DEF IInv

\* Payments and time go on.
LEMMA BillStepKeeps == ASSUME IInv, Bill PROVE IInv'
<1>1. /\ readers' = readers /\ pc' = pc /\ right' = right /\ checked' = checked
      /\ UNCHANGED <<commits, tasks, scanVars>> /\ tasks' = tasks
  BY DEF Bill, requestVars
<1>2. BP!IInv' /\ applied \subseteq applied'
  BY BillKeeps DEF Bill, IInv
<1>3. RequestTypes' /\ ScanTypes'
  BY <1>1, TypesByPart, ScanTypesRest DEF RequestTypes
<1>4. Watched' /\ Coverage'
  BY <1>1, CoverageRests DEF IInv, Watched, Sender
<1> QED
  BY <1>1, <1>2, <1>3, <1>4, TypesByPart, RequestsRest DEF IInv

\* What the scanners may do to the tasks.
LEMMA ScanTypesKept ==
    ASSUME IInv, NEW i \in Nat, Scan(i) \/ (i \in 1..Len(tasks) /\ Retire(i)) \/ ComesAgain
    PROVE  ScanTypes'
<1>1. /\ commits \in Seq(Pushes) /\ tasks \in Seq(Hooks) /\ Len(tasks) <= Cardinality(Hooks)
      /\ done \subseteq handled /\ handled \subseteq 1..Len(tasks)
      /\ cloned \in [Hooks -> 0..Len(commits)] /\ scanned \subseteq 1..Len(commits)
      /\ failed \subseteq handled /\ Len(commits) \in Nat
  BY DEF IInv, TypeOK
<1>2. commits' = commits /\ tasks' = tasks
  BY DEF Scan, Clone, ScanEnds, ScanFails, Retire, ComesAgain, Q!Handle, Q!Retire, Q!Restart, Api
<1>3. \A k \in 1..Len(tasks) : tasks[k] \in Hooks
  BY TaskType
<1>4. CASE Clone(i)
  <2>1. cloned' \in [Hooks -> 0..Len(commits)]
    BY <1>1, <1>3, <1>4 DEF Clone
  <2> QED
    BY <1>1, <1>2, <1>4, <2>1 DEF Clone, ScanTypes
<1>5. CASE ScanEnds(i)
  <2>1. /\ cloned' = [cloned EXCEPT ![tasks[i]] = 0] /\ scanned' = scanned \cup {cloned[tasks[i]]}
        /\ i \in 1..Len(tasks) /\ cloned[tasks[i]] > 0 /\ handled' = handled \cup {i}
        /\ done' = done /\ failed' = failed
    BY <1>5 DEF ScanEnds, Q!Handle
  <2>2. cloned' \in [Hooks -> 0..Len(commits)]
    BY <1>1, <2>1
  <2>3. cloned[tasks[i]] \in 1..Len(commits)
    BY <1>1, <1>3, <2>1
  <2> QED
    BY <1>1, <1>2, <2>1, <2>2, <2>3 DEF ScanTypes
<1>6. CASE ScanFails(i)
  <2>1. /\ cloned' = [cloned EXCEPT ![tasks[i]] = 0] /\ scanned' = scanned
        /\ i \in 1..Len(tasks) /\ handled' = handled \cup {i}
        /\ done' = done /\ failed' = failed \cup {i}
    BY <1>6 DEF ScanFails, Q!Handle
  <2>2. cloned' \in [Hooks -> 0..Len(commits)]
    BY <1>1, <2>1
  <2> QED
    BY <1>1, <1>2, <2>1, <2>2 DEF ScanTypes
<1>7. CASE Retire(i)
  BY <1>1, <1>2, <1>7 DEF Retire, Q!Retire, ScanTypes
<1>8. CASE ComesAgain
  BY <1>1, <1>2, <1>8 DEF ComesAgain, Q!Restart, ScanTypes
<1> QED
  BY <1>4, <1>5, <1>6, <1>7, <1>8 DEF Scan

\* A clone of the head has every push that is on the branch, and a scan of it
\* covers them; a task that is retired or comes again has been handled before.
LEMMA ScanCovers ==
    ASSUME IInv, NEW i \in Nat, Scan(i) \/ (i \in 1..Len(tasks) /\ Retire(i)) \/ ComesAgain
    PROVE  Coverage'
<1>1. /\ commits \in Seq(Pushes) /\ cloned \in [Hooks -> 0..Len(commits)]
      /\ scanned \subseteq 1..Len(commits) /\ Len(commits) \in Nat
  BY DEF IInv, TypeOK
<1>2. commits' = commits /\ tasks' = tasks /\ pc' = pc
  BY DEF Scan, Clone, ScanEnds, ScanFails, Retire, ComesAgain, Q!Handle, Q!Retire, Q!Restart,
         Api, requestVars
<1>3. \A k \in 1..Len(tasks) : tasks[k] \in Hooks
  BY TaskType
<1>4. Told'
  BY <1>2 DEF IInv, Coverage, Told, Pushed
<1>5. \A h \in Hooks : pc'[h] = "202" => \E k \in 1..Len(tasks) : tasks[k] = h
  BY <1>2 DEF IInv, Coverage, AcceptedIsCovered
<1>6. \A k \in handled : k \in failed \/ Covered(PushOf[tasks[k]])
  BY DEF IInv, Coverage, AcceptedIsCovered
<1>7. \A h \in Hooks : cloned[h] > 0 => \E k \in 1..cloned[h] : commits[k] = PushOf[h]
  BY DEF IInv, Coverage, Cloned
<1>8. CASE Clone(i)
  <2>1. /\ i \in 1..Len(tasks) /\ handled' = handled /\ scanned' = scanned
        /\ failed' = failed
    BY <1>8 DEF Clone
  <2>2. /\ cloned'[tasks[i]] = Len(commits)
        /\ \A h \in Hooks : h # tasks[i] => cloned'[h] = cloned[h]
    BY <1>1, <1>3, <1>8 DEF Clone
  <2>3. \E k \in 1..Len(commits) : commits[k] = PushOf[tasks[i]]
    BY <2>1 DEF IInv, Coverage, Told, Pushed
  <2>4. Cloned'
    BY <1>2, <1>7, <2>2, <2>3 DEF Cloned
  <2> QED
    BY <1>2, <1>4, <1>5, <1>6, <2>1, <2>4 DEF Coverage, AcceptedIsCovered, Covered
<1>9. CASE ScanEnds(i)
  <2>1. /\ i \in 1..Len(tasks) /\ cloned[tasks[i]] > 0 /\ handled' = handled \cup {i}
        /\ scanned' = scanned \cup {cloned[tasks[i]]} /\ failed' = failed
    BY <1>9 DEF ScanEnds, Q!Handle
  <2>2. \A h \in Hooks : cloned'[h] = cloned[h] \/ cloned'[h] = 0
    BY <1>1, <1>9 DEF ScanEnds
  <2>3. Cloned'
    BY <1>2, <1>7, <2>2 DEF Cloned
  <2>4. \E k \in 1..cloned[tasks[i]] : commits[k] = PushOf[tasks[i]]
    BY <1>3, <1>7, <2>1
  <2>5. \A k \in handled' : k \in failed' \/ Covered(PushOf[tasks[k]])'
    <3> SUFFICES ASSUME NEW k \in handled' PROVE k \in failed' \/ Covered(PushOf[tasks[k]])'
      OBVIOUS
    <3>1. CASE k = i
      BY <3>1, <1>2, <2>1, <2>4 DEF Covered
    <3>2. CASE k \in handled
      BY <3>2, <1>2, <1>6, <2>1 DEF Covered
    <3> QED
      BY <3>1, <3>2, <2>1
  <2> QED
    BY <1>2, <1>4, <1>5, <2>3, <2>5 DEF Coverage, AcceptedIsCovered, Covered
<1>10. CASE ScanFails(i)
  <2>1. /\ handled' = handled \cup {i} /\ failed' = failed \cup {i} /\ scanned' = scanned
    BY <1>10 DEF ScanFails, Q!Handle
  <2>2. \A h \in Hooks : cloned'[h] = cloned[h] \/ cloned'[h] = 0
    BY <1>1, <1>10 DEF ScanFails
  <2>3. Cloned'
    BY <1>2, <1>7, <2>2 DEF Cloned
  <2>4. \A k \in handled' : k \in failed' \/ Covered(PushOf[tasks[k]])
    BY <1>6, <2>1
  <2> QED
    BY <1>2, <1>4, <1>5, <2>1, <2>3, <2>4 DEF Coverage, AcceptedIsCovered, Covered
<1>11. CASE Retire(i) \/ ComesAgain
  <2>1. handled' = handled /\ scanned' = scanned /\ failed' = failed /\ cloned' = cloned
    BY <1>11 DEF Retire, ComesAgain, Q!Retire, Q!Restart
  <2>2. Cloned'
    BY <1>2, <1>7, <2>1 DEF Cloned
  <2> QED
    BY <1>2, <1>4, <1>5, <1>6, <2>1, <2>2 DEF Coverage, AcceptedIsCovered, Covered
<1> QED
  BY <1>8, <1>9, <1>10, <1>11 DEF Scan

\* A scanner, or the broker, does something.
LEMMA ScanKeeps ==
    ASSUME IInv, NEW i \in Nat, Scan(i) \/ (i \in 1..Len(tasks) /\ Retire(i)) \/ ComesAgain
    PROVE  IInv'
<1>1. UNCHANGED Api /\ tasks' = tasks /\ (UNCHANGED faults \/ B!Fault)
  BY DEF Scan, Clone, ScanEnds, ScanFails, Retire, ComesAgain, Q!Handle, Q!Retire, Q!Restart
<1>2. /\ readers' = readers /\ applied' = applied /\ pc' = pc /\ right' = right
      /\ checked' = checked /\ UNCHANGED billingVars
  BY <1>1 DEF Api, billingVars, requestVars
<1>3. BP!IInv'
  BY <1>1, <1>2, BillingRests DEF IInv
<1>4. RequestTypes'
  BY <1>2, TypesByPart DEF RequestTypes
<1>5. Watched'
  BY <1>2 DEF IInv, Watched, Sender
<1> QED
  BY <1>1, <1>2, <1>3, <1>4, <1>5, ScanTypesKept, ScanCovers, TypesByPart, RequestsRest DEF IInv

\* Nothing has been asked for at first.
LEMMA InitEstablishes == Init => IInv
<1> SUFFICES ASSUME Init PROVE IInv
  OBVIOUS
<1>1. BP!IInv
  BY BillingStarts DEF Init
<1>2. commits = <<>> /\ tasks = <<>> /\ handled = {} /\ done = {} /\ Len(tasks) = 0
  BY DEF Init, Q!Init
<1>3. Cardinality(Hooks) \in Nat
  BY HooksAssumption, FS_CardinalityType
<1>4. RequestTypes
  BY Bounds DEF Init, RequestTypes
<1>5. ScanTypes
  <2>1. <<>> \in Seq(Hooks) /\ <<>> \in Seq(Pushes) /\ Len(<<>>) = 0
    OBVIOUS
  <2> QED
    BY <1>2, <1>3, <2>1 DEF Init, ScanTypes
<1>6. Watched /\ Checked
  BY DEF Init, Watched, Checked, Handling
<1>7. QueuedOnce /\ TaskWasAdmitted
  BY <1>2 DEF QueuedOnce, TaskWasAdmitted
<1>8. Coverage
  <2>1. \A h \in Hooks : pc[h] = "idle" /\ cloned[h] = 0
    BY DEF Init
  <2> QED
    BY <1>2, <2>1 DEF Coverage, Told, Cloned, AcceptedIsCovered, Handling
<1> QED
  BY <1>1, <1>4, <1>5, <1>6, <1>7, <1>8, BillingTypes DEF IInv, TypeOK, RequestTypes, ScanTypes

\* Every step keeps the invariant.
LEMMA NextKeeps == IInv /\ [Next]_vars => IInv'
<1> SUFFICES ASSUME IInv, [Next]_vars PROVE IInv'
  OBVIOUS
<1>1. CASE \E p \in Pushes : Commit(p)
  BY <1>1, CommitKeeps
<1>2. CASE \E t \in Tenants : SetReader(t)
  BY <1>2, SetReaderKeeps
<1>3. CASE Bill
  BY <1>3, BillStepKeeps
<1>4. CASE \E h \in Hooks : TurnAway(h) \/ Receive(h) \/ Handle(h) \/ Crash(h)
  BY <1>4, HandlerKeeps, PublishKeeps DEF Handle
<1>5. CASE \E i \in 1..Len(tasks) : Scan(i) \/ Retire(i)
  <2>1. Len(tasks) \in Nat
    BY DEF IInv, TypeOK
  <2>2. PICK i \in 1..Len(tasks) : Scan(i) \/ Retire(i)
    BY <1>5
  <2>3. i \in Nat
    BY <2>1
  <2> QED
    BY <2>2, <2>3, ScanKeeps
<1>6. CASE ComesAgain
  <2>1. 0 \in Nat
    OBVIOUS
  <2> QED
    BY <1>6, <2>1, ScanKeeps
<1>7. CASE UNCHANGED vars
  <2>1. /\ UNCHANGED <<billingVars, faults, readers, pc, right, checked>>
        /\ UNCHANGED <<commits, tasks, scanVars>> /\ applied' = applied
    BY <1>7 DEF vars, billingVars, requestVars
  <2>2. BP!IInv' /\ ScanTypes'
    BY <2>1, BillingRests, ScanTypesRest, TypesByPart DEF IInv
  <2>3. RequestTypes' /\ Watched' /\ Coverage'
    BY <2>1, TypesByPart, CoverageRests DEF IInv, RequestTypes, Watched, Sender
  <2> QED
    BY <2>1, <2>2, <2>3, TypesByPart, RequestsRest DEF IInv
<1> QED
  BY <1>1, <1>2, <1>3, <1>4, <1>5, <1>6, <1>7 DEF Next

\* The invariant holds always.
THEOREM InvariantHolds == Spec => []IInv
  BY InitEstablishes, NextKeeps, PTL DEF Spec
-----------------------------------------------------------------------------
\* Types; no hook is queued twice, so the queue never outgrows the hooks.
THEOREM TypeCorrect == Spec => []TypeOK
<1>1. IInv => TypeOK
  BY DEF IInv
<1> QED
  BY <1>1, InvariantHolds, PTL

\* Every queued task is of a push whose sender held the right and had paid, at
\* moments of the request that queued it.
THEOREM TaskWasAdmittedHolds == Spec => []TaskWasAdmitted
<1>1. IInv => TaskWasAdmitted
  BY DEF IInv
<1> QED
  BY <1>1, InvariantHolds, PTL

\* An accepted push is queued, and a queued push that was handled without a
\* failure is covered by a scan.
THEOREM AcceptedIsCoveredHolds == Spec => []AcceptedIsCovered
<1>1. IInv => AcceptedIsCovered
  BY DEF IInv, Coverage
<1> QED
  BY <1>1, InvariantHolds, PTL

\* A stored payment whose period is running gives access unless it was cancelled.
LEMMA AcknowledgedHasAccess ==
    ASSUME BP!IInv, NEW t \in Tenants, Acknowledged(t)
    PROVE  B!HasAccess(t) \/ Cancelled(t)
<1>1. PICK d \in B!Delivery :
          B!Tenant(d) = t /\ \E from \in B!AppliedBy(d) : clock < from + Period
  BY DEF Acknowledged
<1>2. PICK from \in Nat : <<d, from>> \in applied /\ clock < from + Period
  BY <1>1, Bounds DEF B!AppliedBy
<1>3. sub[t] # NoRow /\ sub[t].end >= from + Period
  BY <1>1, <1>2 DEF BP!IInv, BP!Stored, BP!Delivery, B!Delivery, BP!Tenant, B!Tenant
<1>4. sub[t].status \in {"active", "canceled"} /\ sub[t].end \in Nat /\ clock \in Nat
  BY <1>3, Bounds DEF BP!IInv, BP!TypeOK, BP!Row
<1>5. clock < sub[t].end
  BY <1>2, <1>3, <1>4, Bounds
<1> QED
  BY <1>3, <1>4, <1>5 DEF B!HasAccess, Cancelled

\* 402 is answered only where the subscription was asked for and is missing,
\* whatever failed or is on its way.
THEOREM PaidIsNotRefusedHolds == Spec => PaidIsNotRefused
<1>1. ASSUME IInv, [Next]_vars, NEW h \in Hooks, pc[h] # "402", pc'[h] = "402"
      PROVE  ~Acknowledged(Sender(h)) \/ Cancelled(Sender(h))
  <2>1. PICK g \in Hooks : TurnAway(g) \/ Receive(g) \/ Handle(g) \/ Crash(g)
    <3>1. pc' # pc
      BY <1>1
    <3> QED
      BY <1>1, <3>1 DEF Next, vars, requestVars, Commit, SetReader, Bill, Scan, Clone, ScanEnds,
                        ScanFails, Retire, ComesAgain, Api
  <2>2. PICK label : Goto(g, label)
    BY <2>1 DEF TurnAway, Receive, Handle, CheckPermission, PermissionUnknown, CheckSubscription,
                SubscriptionUnknown, Publish, PublishFails, Crash
  <2>3. pc \in [Hooks -> {"idle"} \cup Handling \cup Answered]
    BY <1>1 DEF IInv, TypeOK
  <2>4. g = h
    BY <1>1, <2>2, <2>3 DEF Goto
  <2>5. ASSUME NEW other, other # "402", Goto(h, other) PROVE FALSE
    BY <1>1, <2>3, <2>5 DEF Goto
  <2>6. ~TurnAway(h)
    <3> SUFFICES ASSUME TurnAway(h) PROVE FALSE
      OBVIOUS
    <3>1. PICK reason \in DOMAIN TurnedAway : Goto(h, TurnedAway[reason])
      BY DEF TurnAway
    <3>2. TurnedAway[reason] # "402"
      BY <3>1 DEF TurnedAway
    <3> QED
      BY <2>5, <3>1, <3>2
  <2>7. CheckSubscription(h) /\ ~HasActiveSubscription(h)
    BY <2>1, <2>4, <2>5, <2>6 DEF Receive, Handle, CheckPermission, PermissionUnknown,
       CheckSubscription, SubscriptionUnknown, Publish, PublishFails, Crash
  <2> QED
    BY <1>1, <2>7, SenderType, AcknowledgedHasAccess DEF IInv, HasActiveSubscription
<1>2. IInv /\ [Next]_vars =>
          [\A h \in Hooks : pc[h] # "402" /\ pc'[h] = "402"
               => ~Acknowledged(Sender(h)) \/ Cancelled(Sender(h))]_vars
  BY <1>1
<1> QED
  BY <1>2, InvariantHolds, PTL DEF Spec, PaidIsNotRefused
-----------------------------------------------------------------------------
\* What Billing promises on its own it keeps here, where requests to the API
\* read its rows and their failures count together with its own.
THEOREM BillingKept == Spec => [](B!OnePeriodPerPayment /\ B!AckedPeriodHolds)
<1>1. BP!IInv => BP!OnePeriodPerPayment /\ BP!AckedPeriodHolds
  BY BillingAssumption, BP!AccessIsPaidFor, BP!AckedIsCovered
<1>2. BP!OnePeriodPerPayment /\ BP!AckedPeriodHolds => B!OnePeriodPerPayment /\ B!AckedPeriodHolds
  BY DEF B!OnePeriodPerPayment, BP!OnePeriodPerPayment, B!AckedPeriodHolds, BP!AckedPeriodHolds,
         B!HasAccess, BP!HasAccess, B!AppliedBy, BP!AppliedBy, B!Delivery, BP!Delivery,
         B!Tenant, BP!Tenant, B!IsCheckout, BP!IsCheckout,
         B!AppliedOnce, BP!AppliedOnce
<1>3. IInv => B!OnePeriodPerPayment /\ B!AckedPeriodHolds
  BY <1>1, <1>2 DEF IInv
<1> QED
  BY <1>3, InvariantHolds, PTL

\* The handlers of HandleWebhook and of the scanners use the queue as TaskQueue
\* allows, and ScanPipeline implements just that: what the API publishes is
\* never lost, and nothing is retired before a handler came to an end with it.
THEOREM QueueIsUsed == Spec => Q!Spec
<1>1. Init => Q!Init
  BY DEF Init
<1>2. ASSUME Next PROVE [Q!Next]_(Q!vars)
  <2>1. ASSUME NEW h \in Hooks, Publish(h) PROVE Q!Next
    BY <2>1 DEF Publish, Q!Next
  <2>2. ASSUME NEW i \in 1..Len(tasks), ScanEnds(i) \/ ScanFails(i) PROVE Q!Next
    BY <2>2 DEF ScanEnds, ScanFails, Q!Next
  <2>3. ASSUME NEW i \in 1..Len(tasks), Retire(i) PROVE Q!Next
    BY <2>3 DEF Retire, Q!Next
  <2>4. ASSUME ComesAgain PROVE Q!Next
    BY <2>4 DEF ComesAgain, Q!Next
  <2>5. ASSUME \/ \E p \in Pushes : Commit(p)
               \/ \E t \in Tenants : SetReader(t)
               \/ Bill
               \/ \E h \in Hooks : \/ TurnAway(h) \/ Receive(h) \/ Crash(h)
                                   \/ CheckPermission(h) \/ PermissionUnknown(h)
                                   \/ CheckSubscription(h) \/ SubscriptionUnknown(h)
                                   \/ PublishFails(h)
               \/ \E i \in 1..Len(tasks) : Clone(i)
        PROVE  UNCHANGED <<tasks, handled, done>>
    BY <2>5 DEF Commit, SetReader, Bill, TurnAway, Receive, Crash, CheckPermission,
                PermissionUnknown, CheckSubscription, SubscriptionUnknown, PublishFails, Clone,
                scanVars
  <2> QED
    BY <1>2, <2>1, <2>2, <2>3, <2>4, <2>5 DEF Next, Handle, Scan, Q!vars
<1>3. ASSUME UNCHANGED vars PROVE UNCHANGED Q!vars
  BY <1>3 DEF vars, scanVars, Q!vars
<1>4. [Next]_vars => [Q!Next]_(Q!vars)
  BY <1>2, <1>3
<1> QED
  BY <1>1, <1>4, PTL DEF Spec, Q!Spec
=============================================================================
