------------------------------ MODULE Admission -----------------------------
(***************************************************************************)
(* From a push to a scan of the repository: HandleWebhook of cmd/api admits *)
(* a push if its sender may read the repository and has paid, and queues a  *)
(* task, for which a scanner clones the head of the default branch.         *)
(*                                                                         *)
(* Each of these steps reads something that somebody else changes: an       *)
(* administrator the relations in SpiceDB, Stripe and the clock the         *)
(* subscription (module Billing), further pushes the head.  The queue is    *)
(* the abstract one of module TaskQueue, which ScanPipeline implements.     *)
(*                                                                         *)
(* A hook is one request of GitHub to /webhook.  GitHub sends one for a     *)
(* push, and another when somebody asks for it in its delivery log.         *)
(***************************************************************************)
EXTENDS Naturals, Sequences, FiniteSets

CONSTANTS
    Pushes,         \* pushes to the default branch of one repository
    Hooks,          \* requests to /webhook
    PushOf,         \* the push each of them tells of
    SenderOf,       \* the tenant who made each push
    Tenants, Events, TenantOf, TypeOf, NoTenant, NoRow, Period,   \* of Billing
    MaxTime,        \* bound on the clock
    MaxDeliveries,  \* bound: how often Stripe delivers one event
    MaxFaults       \* bound: how many failures happen

ASSUME HooksAssumption ==
    /\ IsFiniteSet(Hooks)
    /\ PushOf \in [Hooks -> Pushes]
    /\ SenderOf \in [Pushes -> Tenants]

VARIABLES
    clock, sub, granted, payment, applied, faults,   \* of Billing
    readers,   \* tenants with the relation reader on the repository's ID
    commits,   \* the default branch
    pc,        \* where the handling of each hook is
    right,     \* did the sender hold the relation while it was handled
    checked,   \* when the subscription was found active
    tasks, handled, done,   \* of TaskQueue; a task is named by its hook
    cloned,    \* the commits in the clone of each task being scanned
    scanned,   \* numbers of commits up to which the repository was scanned
    failed     \* tasks whose handler ended without a scan

billingVars == <<clock, sub, granted, payment, applied>>
requestVars == <<pc, right, checked>>
scanVars == <<handled, done, cloned, scanned, failed>>
vars == <<billingVars, faults, readers, commits, requestVars, tasks, scanVars>>

B == INSTANCE Billing WITH pc <- payment
Q == INSTANCE TaskQueue WITH Tasks <- Hooks, Leftovers <- {<<>>}

Handling == {"permission", "subscription", "publish"}
Answered == {"200", "202", "400", "402", "403", "405", "500", "broken"}

TypeOK ==
    /\ B!TypeOK
    /\ readers \subseteq Tenants
    /\ commits \in Seq(Pushes)
    /\ pc \in [Hooks -> {"idle"} \cup Handling \cup Answered]
    /\ right \in [Hooks -> BOOLEAN]
    /\ checked \in [Hooks -> 0..MaxTime]
    /\ tasks \in Seq(Hooks) /\ Len(tasks) <= Cardinality(Hooks)
    /\ done \subseteq handled /\ handled \subseteq 1..Len(tasks)
    /\ cloned \in [Hooks -> 0..Len(commits)]
    /\ scanned \subseteq 1..Len(commits)
    /\ failed \subseteq handled

Init ==
    /\ B!Init
    /\ readers \in SUBSET Tenants
    /\ commits = <<>>
    /\ pc = [h \in Hooks |-> "idle"]
    /\ right = [h \in Hooks |-> FALSE]
    /\ checked = [h \in Hooks |-> 0]
    /\ Q!Init
    /\ cloned = [h \in Hooks |-> 0]
    /\ scanned = {} /\ failed = {}

Sender(h) == SenderOf[PushOf[h]]
Pushed(p) == \E n \in 1..Len(commits) : commits[n] = p
Goto(h, label) == pc' = [pc EXCEPT ![h] = label]
-----------------------------------------------------------------------------
(***************************************************************************)
(* The environment: pushes, administrators, payments and time.              *)
(***************************************************************************)
Commit(p) ==
    /\ ~Pushed(p)
    /\ commits' = Append(commits, p)
    /\ UNCHANGED <<billingVars, faults, readers, requestVars, tasks, scanVars>>

\* An administrator writes or deletes the relation of a tenant.  GrantAccess
\* of a payment does not: it writes one on "demo_repo", and HandleWebhook asks
\* for the repository's number.
SetReader(t) ==
    /\ \/ readers' = readers \cup {t} \/ readers' = readers \ {t}
    /\ right' = [h \in Hooks |->
                    right[h] \/ (pc[h] \in Handling /\ Sender(h) \in readers')]
    /\ UNCHANGED <<billingVars, faults, commits, pc, checked, tasks, scanVars>>

Bill ==
    /\ B!Next
    /\ UNCHANGED <<readers, commits, requestVars, tasks, scanVars>>
-----------------------------------------------------------------------------
(***************************************************************************)
(* HandleWebhook.  Whatever is not a signed push with installation,         *)
(* repository and sender is turned away before anything is looked up.       *)
(***************************************************************************)
\* Mutant: a bad signature is answered as internal/middleware does.
TurnedAway_Unauthorized ==
    [method |-> "405", secret |-> "500", signature |-> "401", ping |-> "200",
     event |-> "403", payload |-> "400", ids |-> "400", name |-> "400"]

TurnedAway ==
    [method |-> "405", secret |-> "500", signature |-> "403", ping |-> "200",
     event |-> "403", payload |-> "400", ids |-> "400", name |-> "400"]

TurnAway(h) ==
    /\ pc[h] = "idle"
    /\ \E reason \in DOMAIN TurnedAway : Goto(h, TurnedAway[reason])
    /\ UNCHANGED <<billingVars, faults, readers, commits, right, checked, tasks, scanVars>>

Receive(h) ==
    /\ pc[h] = "idle"
    /\ Pushed(PushOf[h])
    /\ Goto(h, "permission")
    /\ right' = [right EXCEPT ![h] = Sender(h) \in readers]
    /\ UNCHANGED <<billingVars, faults, readers, commits, checked, tasks, scanVars>>

CheckPermission(h) ==
    /\ pc[h] = "permission"
    /\ Goto(h, IF Sender(h) \in readers THEN "subscription" ELSE "403")
    /\ UNCHANGED <<billingVars, faults, readers, commits, right, checked, tasks, scanVars>>

\* Mutant: an error of CheckPermission is logged and the handler goes on.
PermissionUnknown_GoesOn(h) ==
    /\ pc[h] = "permission"
    /\ B!Fault
    /\ Goto(h, "subscription")
    /\ UNCHANGED <<billingVars, readers, commits, right, checked, tasks, scanVars>>

\* SpiceDB cannot be asked, or GitHub has closed the connection.
PermissionUnknown(h) ==
    /\ pc[h] = "permission"
    /\ B!Fault
    /\ Goto(h, "403")
    /\ UNCHANGED <<billingVars, readers, commits, right, checked, tasks, scanVars>>

\* Mutant: only the status is looked at; nothing ever sets it to "expired".
HasActiveSubscription_StatusOnly(h) ==
    sub[Sender(h)] # NoRow /\ sub[Sender(h)].status = "active"

HasActiveSubscription(h) == B!HasAccess(Sender(h))

CheckSubscription(h) ==
    /\ pc[h] = "subscription"
    /\ \/ /\ HasActiveSubscription(h)
          /\ Goto(h, "publish")
          /\ checked' = [checked EXCEPT ![h] = clock]
       \/ /\ ~HasActiveSubscription(h)
          /\ Goto(h, "402")
          /\ UNCHANGED checked
    /\ UNCHANGED <<billingVars, faults, readers, commits, right, tasks, scanVars>>

\* Mutant: an error of the query is taken for a missing subscription.
SubscriptionUnknown_Refused(h) ==
    /\ pc[h] = "subscription"
    /\ B!Fault
    /\ Goto(h, "402")
    /\ UNCHANGED <<billingVars, readers, commits, right, checked, tasks, scanVars>>

SubscriptionUnknown(h) ==
    /\ pc[h] = "subscription"
    /\ B!Fault
    /\ Goto(h, "500")
    /\ UNCHANGED <<billingVars, readers, commits, right, checked, tasks, scanVars>>

Untouched == UNCHANGED <<billingVars, readers, commits, right, checked,
                         cloned, scanned, failed>>

\* The task is queued; the answer of the broker arrives, or is lost.
Publish(h) ==
    /\ pc[h] = "publish"
    /\ Q!Add(h)
    /\ \/ Goto(h, "202") /\ UNCHANGED faults
       \/ Goto(h, "500") /\ B!Fault
    /\ Untouched

PublishFails(h) ==
    /\ pc[h] = "publish"
    /\ B!Fault
    /\ Goto(h, "500")
    /\ UNCHANGED <<tasks, handled, done>> /\ Untouched

\* The API process stops in the middle of a request.
Crash(h) ==
    /\ pc[h] \in Handling
    /\ B!Fault
    /\ Goto(h, "broken")
    /\ UNCHANGED <<tasks, handled, done>> /\ Untouched

Handle(h) ==
    \/ CheckPermission(h) \/ PermissionUnknown(h)
    \/ CheckSubscription(h) \/ SubscriptionUnknown(h)
    \/ Publish(h) \/ PublishFails(h)
-----------------------------------------------------------------------------
(***************************************************************************)
(* The scanners, as far as the queue and the head of the branch go: the     *)
(* task names the repository only (HandleWebhook leaves its field Commit     *)
(* empty), and git clone --depth 1 takes the head as it is then.            *)
(***************************************************************************)
Api == <<billingVars, readers, commits, requestVars>>

\* Mutant: a clone of an earlier scan is used again.
Clone_Cached(i) ==
    /\ i \in 1..Len(tasks) \ done
    /\ cloned[tasks[i]] = 0
    /\ \E n \in IF scanned = {} THEN {Len(commits)} ELSE scanned :
           cloned' = [cloned EXCEPT ![tasks[i]] = n]
    /\ UNCHANGED <<Api, faults, tasks, handled, done, scanned, failed>>

Clone(i) ==
    /\ i \in 1..Len(tasks) \ done
    /\ cloned[tasks[i]] = 0
    /\ cloned' = [cloned EXCEPT ![tasks[i]] = Len(commits)]
    /\ UNCHANGED <<Api, faults, tasks, handled, done, scanned, failed>>

ScanEnds(i) ==
    /\ i \in 1..Len(tasks) /\ cloned[tasks[i]] > 0
    /\ scanned' = scanned \cup {cloned[tasks[i]]}
    /\ cloned' = [cloned EXCEPT ![tasks[i]] = 0]
    /\ Q!Handle(i)
    /\ UNCHANGED <<Api, faults, failed>>

\* The clone, gitleaks, or reading its report fails: the task is given up.
ScanFails(i) ==
    /\ i \in 1..Len(tasks) \ done
    /\ B!Fault
    /\ failed' = failed \cup {i}
    /\ cloned' = [cloned EXCEPT ![tasks[i]] = 0]
    /\ Q!Handle(i)
    /\ UNCHANGED <<Api, scanned>>

Retire(i) ==
    /\ i \notin done
    /\ Q!Retire(i)
    /\ UNCHANGED <<Api, faults, cloned, scanned, failed>>

\* The consumer is deleted and made again (ScanPipeline), tasks come again.
ComesAgain ==
    /\ done # {}
    /\ B!Fault
    /\ Q!Restart
    /\ UNCHANGED <<Api, cloned, scanned, failed>>

Scan(i) == Clone(i) \/ ScanEnds(i) \/ ScanFails(i)

Next ==
    \/ \E p \in Pushes : Commit(p)
    \/ \E t \in Tenants : SetReader(t)
    \/ Bill
    \/ \E h \in Hooks : TurnAway(h) \/ Receive(h) \/ Handle(h) \/ Crash(h)
    \/ \E i \in 1..Len(tasks) : Scan(i) \/ Retire(i)
    \/ ComesAgain

Spec == Init /\ [][Next]_vars
-----------------------------------------------------------------------------
\* Time at falls into a period that a checkout of tenant t has started.  Each
\* delivery of a checkout that is applied starts one (Billing).
PaidFor(t, at) ==
    \E d \in B!Delivery : /\ B!Tenant(d) = t /\ B!IsCheckout(d)
                          /\ \E from \in B!AppliedBy(d) : from <= at /\ at < from + Period

\* Only a push of somebody who held the right and had paid starts a scan, at
\* some moment of the very request that queued it, however relations, events
\* and time moved meanwhile (comments at cmd/api/main.go:269 and 379).
TaskWasAdmitted ==
    \A i \in 1..Len(tasks) : LET h == tasks[i] IN
        right[h] /\ PaidFor(Sender(h), checked[h])

\* Nobody whose payment Stripe was told is stored, whose period still runs and
\* who has not cancelled is answered 402: neither an event on its way nor a
\* failing query is taken for a missing payment.
Acknowledged(t) ==
    \E d \in B!Delivery : /\ payment[d] = "200" /\ B!Tenant(d) = t /\ B!IsCheckout(d)
                          /\ \E from \in B!AppliedBy(d) : clock < from + Period

Cancelled(t) == sub[t] # NoRow /\ sub[t].status = "canceled"

PaidIsNotRefused ==
    [][\A h \in Hooks : pc[h] # "402" /\ pc'[h] = "402"
            => ~Acknowledged(Sender(h)) \/ Cancelled(Sender(h))]_vars

\* A push that was accepted is queued, and the handling of a queued push, one
\* answered 500 included, scans the repository at its commit or a later one
\* unless it fails: the task does not name the commit, is scanned at any time,
\* in any order and again, while the branch moves on.
Covered(p) == \E n \in scanned : \E k \in 1..n : commits[k] = p

AcceptedIsCovered ==
    /\ \A h \in Hooks : pc[h] = "202" => \E i \in 1..Len(tasks) : tasks[i] = h
    /\ \A i \in handled : i \in failed \/ Covered(PushOf[tasks[i]])
=============================================================================
