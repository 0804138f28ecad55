------------------------------ MODULE Findings ------------------------------
(***************************************************************************)
(* The findings API of cmd/api: HandleGetFindings and HandleUpdateStatus on *)
(* the table scan_findings, to which scanners go on adding rows.            *)
(*                                                                         *)
(* Both handlers ask SpiceDB first and touch the table afterwards; between  *)
(* the two an administrator may take the right away, another request may    *)
(* change the row, and a scan that is repeated stores its findings again.   *)
(* In the table, in SpiceDB and in the request a repository is known by its *)
(* bare name here.                                                          *)
(***************************************************************************)
EXTENDS Naturals, Sequences, FiniteSets, Functions

CONSTANTS
    Users,      \* logins
    Repos,      \* repository names
    Leaks,      \* what a scan can find in a repository
    Statuses,   \* statuses users ask for
    TooLong,    \* those of more than 20 characters
    Requests,   \* requests to the two handlers
    MaxRows,    \* bound: the ids the sequence gives out
    MaxFaults   \* bound: how many failures happen

ASSUME ConstantsAssumption ==
    /\ IsFiniteSet(Users) /\ IsFiniteSet(Requests)
    /\ TooLong \subseteq Statuses
    /\ MaxRows \in Nat /\ MaxFaults \in Nat

Id == 1..MaxRows   \* SERIAL

\* Mutant: the column is TEXT.
Fits_Text(status) == TRUE

\* status VARCHAR(20)
Fits(status) == status \notin TooLong

Row == [repo : Repos, leak : Leaks, status : {"OPEN"} \cup (Statuses \ TooLong)]
List == [kind : {"list"}, user : Users, repo : Repos]
Update == [kind : {"update"}, user : Users, id : Id, status : Statuses]
NoRequest == [kind |-> "none"]

VARIABLES
    rows,      \* the table scan_findings: the stored row of an id
    writers,   \* who has the relation writer on which repository
    pc,        \* where the handling of each request is
    request,   \* what it asks for
    repoName,  \* the repository its right is checked for
    listed,    \* the ids it was answered with, in order
    held,      \* did its user hold the right at some moment of it
    lacked,    \* did its user lack the right at some moment of it
    since,     \* the ids that were stored when it arrived
    hit,       \* has a failure happened to it
    faults     \* how many failures have happened

table == <<rows, writers>>
handler == <<request, repoName, listed, since>>
vars == <<table, pc, handler, held, lacked, hit, faults>>

Handling == {"read", "check", "query", "change"}
Answered == {"200", "400", "401", "403", "404", "405", "500", "broken"}

TypeOK ==
    /\ DOMAIN rows \subseteq Id /\ Range(rows) \subseteq Row
    /\ writers \subseteq Users \X Repos
    /\ pc \in [Requests -> {"idle"} \cup Handling \cup Answered]
    /\ request \in [Requests -> List \cup Update \cup {NoRequest}]
    /\ \A q \in Requests : pc[q] \in {"check", "query", "change"} => repoName[q] \in Repos
    /\ listed \in [Requests -> Seq(Id)]
    /\ held \in [Requests -> BOOLEAN] /\ lacked \in [Requests -> BOOLEAN]
    /\ since \in [Requests -> SUBSET Id]
    /\ hit \subseteq Requests
    /\ faults \in 0..MaxFaults

Init ==
    /\ rows = <<>>
    /\ writers \in SUBSET (Users \X Repos)
    /\ pc = [q \in Requests |-> "idle"]
    /\ request = [q \in Requests |-> NoRequest]
    /\ repoName = [q \in Requests |-> "none"]
    /\ listed = [q \in Requests |-> <<>>]
    /\ held = [q \in Requests |-> FALSE]
    /\ lacked = [q \in Requests |-> FALSE]
    /\ since = [q \in Requests |-> {}]
    /\ hit = {}
    /\ faults = 0

Goto(q, label) == pc' = [pc EXCEPT ![q] = label]

Fault(q) ==
    /\ faults < MaxFaults
    /\ faults' = faults + 1
    /\ hit' = hit \cup {q}

NoFault == UNCHANGED <<hit, faults>>

\* CheckPermission with "writer": the relation itself, fully consistent.
HasAccess(q, repo) == <<request[q].user, repo>> \in writers

\* What the request is about, whether or not the handler knows it yet.
MayAct(q) ==
    \/ request[q].kind = "list" /\ HasAccess(q, request[q].repo)
    \/ /\ request[q].kind = "update"
       /\ request[q].id \in DOMAIN rows
       /\ HasAccess(q, rows[request[q].id].repo)

\* What every request has seen while it was handled; part of every action.
Watch ==
    /\ held' = [q \in Requests |-> held[q] \/ (pc'[q] \in Handling /\ MayAct(q)')]
    /\ lacked' = [q \in Requests |-> lacked[q] \/ (pc'[q] \in Handling /\ ~MayAct(q)')]
-----------------------------------------------------------------------------
(***************************************************************************)
(* Scanners and administrators.                                             *)
(***************************************************************************)

\* Mutant: INSERT ... ON CONFLICT (repo_name, rule_id, file_path) DO UPDATE.
SaveFinding_Upsert(i, r, leak) ==
    LET same == {k \in DOMAIN rows : rows[k].repo = r /\ rows[k].leak = leak}
        row == [repo |-> r, leak |-> leak, status |-> "OPEN"]
        new == IF same = {} THEN {i} ELSE same
    IN /\ rows' = [k \in DOMAIN rows \cup new |-> IF k \in new THEN row ELSE rows[k]]
       /\ UNCHANGED <<writers, pc, handler>> /\ NoFault /\ Watch

\* A scanner stores a finding; a repeated scan stores it in a row of its own.
\* Inserts take their ids from a sequence and are stored in any order, and an
\* insert that fails leaves a gap.
SaveFinding(i, r, leak) ==
    /\ i \notin DOMAIN rows
    /\ rows' = [k \in DOMAIN rows \cup {i} |->
                   IF k = i THEN [repo |-> r, leak |-> leak, status |-> "OPEN"] ELSE rows[k]]
    /\ UNCHANGED <<writers, pc, handler>> /\ NoFault /\ Watch

SetWriter(u, r) ==
    /\ writers' = IF <<u, r>> \in writers THEN writers \ {<<u, r>>}
                                          ELSE writers \cup {<<u, r>>}
    /\ UNCHANGED <<rows, pc, handler>> /\ NoFault /\ Watch
-----------------------------------------------------------------------------
(***************************************************************************)
(* A request arrives: it is turned away for its method, its user, its       *)
(* repository name or its JSON, or it starts.                               *)
(***************************************************************************)
TurnAway(q) ==
    /\ pc[q] = "idle"
    /\ \E status \in {"405", "400", "401"} : Goto(q, status)
    /\ UNCHANGED <<table, handler>> /\ NoFault /\ Watch

ReceiveList(q) ==
    /\ pc[q] = "idle"
    /\ \E r \in List : /\ request' = [request EXCEPT ![q] = r]
                       /\ repoName' = [repoName EXCEPT ![q] = r.repo]
    /\ since' = [since EXCEPT ![q] = DOMAIN rows]
    /\ Goto(q, "check")
    /\ UNCHANGED <<table, listed>> /\ NoFault /\ Watch

ReceiveUpdate(q) ==
    /\ pc[q] = "idle"
    /\ \E u \in Update : request' = [request EXCEPT ![q] = u]
    /\ since' = [since EXCEPT ![q] = DOMAIN rows]
    /\ Goto(q, "read")
    /\ UNCHANGED <<table, repoName, listed>> /\ NoFault /\ Watch

\* HandleUpdateStatus looks up the repository of the finding.
ReadRow(q) ==
    /\ pc[q] = "read"
    /\ \/ /\ request[q].id \in DOMAIN rows
          /\ repoName' = [repoName EXCEPT ![q] = rows[request[q].id].repo]
          /\ Goto(q, "check")
       \/ /\ request[q].id \notin DOMAIN rows
          /\ Goto(q, "404")
          /\ UNCHANGED repoName
    /\ UNCHANGED <<table, request, listed, since>> /\ NoFault /\ Watch

\* Mutant: every error of the lookup is taken for sql.ErrNoRows.
ReadRowFails_NotFound(q) ==
    /\ pc[q] = "read"
    /\ Fault(q)
    /\ Goto(q, "404")
    /\ UNCHANGED <<table, handler>> /\ Watch

ReadRowFails(q) ==
    /\ pc[q] = "read"
    /\ Fault(q)
    /\ Goto(q, "500")
    /\ UNCHANGED <<table, handler>> /\ Watch

Act(q) == IF request[q].kind = "list" THEN "query" ELSE "change"

Check(q) ==
    /\ pc[q] = "check"
    /\ Goto(q, IF HasAccess(q, repoName[q]) THEN Act(q) ELSE "403")
    /\ UNCHANGED <<table, handler>> /\ NoFault /\ Watch

\* SpiceDB cannot be asked: the two handlers answer differently.
CheckFails(q) ==
    /\ pc[q] = "check"
    /\ Fault(q)
    /\ Goto(q, IF request[q].kind = "list" THEN "500" ELSE "403")
    /\ UNCHANGED <<table, handler>> /\ Watch
-----------------------------------------------------------------------------
(***************************************************************************)
(* HandleGetFindings: one statement, ORDER BY id DESC.  The rows come over  *)
(* the connection one by one; the loop does not ask rows.Err() why it       *)
(* ended, so a broken connection shortens the list.                         *)
(***************************************************************************)

Of(repo) == {i \in DOMAIN rows : rows[i].repo = repo}

\* Mutant: ORDER BY id.
Newest_Ascending(ids) ==
    CHOOSE list \in [1..Cardinality(ids) -> ids] : \A j, k \in DOMAIN list : j < k => list[j] < list[k]

Newest(ids) ==
    CHOOSE list \in [1..Cardinality(ids) -> ids] : \A j, k \in DOMAIN list : j < k => list[j] > list[k]

Query(q) ==
    /\ pc[q] = "query"
    /\ listed' = [listed EXCEPT ![q] = Newest(Of(repoName[q]))]
    /\ Goto(q, "200")
    /\ UNCHANGED <<table, request, repoName, since>> /\ NoFault /\ Watch

QueryBreaks(q) ==
    /\ pc[q] = "query"
    /\ Fault(q)
    /\ LET all == Newest(Of(repoName[q]))
       IN \E k \in 0..Len(all) : listed' = [listed EXCEPT ![q] = SubSeq(all, 1, k)]
    /\ Goto(q, "200")
    /\ UNCHANGED <<table, request, repoName, since>> /\ Watch

QueryFails(q) ==
    /\ pc[q] = "query"
    /\ Fault(q)
    /\ Goto(q, "500")
    /\ UNCHANGED <<table, handler>> /\ Watch
-----------------------------------------------------------------------------
(***************************************************************************)
(* HandleUpdateStatus: any status that fits is taken.  The statement fails, *)
(* or it is executed and its answer is lost.                                *)
(***************************************************************************)
Change(q) ==
    /\ pc[q] = "change"
    /\ Fits(request[q].status)
    /\ rows' = [rows EXCEPT ![request[q].id].status = request[q].status]
    /\ \/ Goto(q, "200") /\ NoFault
       \/ Goto(q, "500") /\ Fault(q)
    /\ UNCHANGED <<writers, handler>> /\ Watch

ChangeRefused(q) ==
    /\ pc[q] = "change"
    /\ ~Fits(request[q].status)
    /\ Goto(q, "500")
    /\ UNCHANGED <<table, handler>> /\ NoFault /\ Watch

ChangeFails(q) ==
    /\ pc[q] = "change"
    /\ Fault(q)
    /\ Goto(q, "500")
    /\ UNCHANGED <<table, handler>> /\ Watch

\* The API process stops in the middle of a request.
Crash(q) ==
    /\ pc[q] \in Handling
    /\ Fault(q)
    /\ Goto(q, "broken")
    /\ UNCHANGED <<table, handler>> /\ Watch

Handle(q) ==
    \/ ReadRow(q) \/ ReadRowFails(q) \/ Check(q) \/ CheckFails(q)
    \/ Query(q) \/ QueryBreaks(q) \/ QueryFails(q)
    \/ Change(q) \/ ChangeRefused(q) \/ ChangeFails(q)

Next ==
    \/ \E i \in Id, r \in Repos, leak \in Leaks : SaveFinding(i, r, leak)
    \/ \E u \in Users, r \in Repos : SetWriter(u, r)
    \/ \E q \in Requests :
           TurnAway(q) \/ ReceiveList(q) \/ ReceiveUpdate(q) \/ Handle(q) \/ Crash(q)

Spec == Init /\ [][Next]_vars
-----------------------------------------------------------------------------
\* A stored row only changes to what a user asked for who held the right on
\* that very row's repository at some moment of the request: no check that went
\* stale before it was made, no other row's repository, and no repeated scan
\* changes what somebody has decided about a finding.
ChangeWasAllowed ==
    [][\A i \in DOMAIN rows : rows'[i] # rows[i] =>
           \E q \in Requests :
               /\ pc[q] = "change" /\ request[q].id = i /\ held[q]
               /\ rows'[i] = [rows[i] EXCEPT !.status = request[q].status]]_vars

\* A list is answered to somebody who held the right and shows findings of that
\* repository only, newest first, and all that were stored when the request
\* came; only a failure leaves out the oldest, although the answer is 200.
ListIsCurrent ==
    \A q \in Requests : (pc[q] = "200" /\ request[q].kind = "list") =>
        /\ held[q]
        /\ Range(listed[q]) \subseteq Of(request[q].repo)
        /\ \A k \in 2..Len(listed[q]) : listed[q][k] < listed[q][k - 1]
        /\ \A i \in since[q] \cap Of(request[q].repo) :
               \/ i \in Range(listed[q])
               \/ q \in hit /\ \A j \in Range(listed[q]) : i < j

\* Nobody is refused or sent away without a cause in force while the request
\* ran: 403 for a right that was missing or could not be checked, 404 for a
\* finding that was not stored when the request came.
RefusalHasCause ==
    \A q \in Requests :
        /\ pc[q] = "403" => lacked[q] \/ q \in hit
        /\ pc[q] = "404" => request[q].id \notin since[q]
=============================================================================
