--------------------------- MODULE FindingsProofs ---------------------------
(***************************************************************************)
(* Proofs about the findings API, for any sets of users, repositories and   *)
(* requests and any bounds.                                                 *)
(***************************************************************************)
EXTENDS Findings, FiniteSetTheorems, TLAPS

TypeInv ==
    /\ DOMAIN rows \subseteq Id
    /\ \A i \in DOMAIN rows : rows[i] \in Row
    /\ pc \in [Requests -> {"idle"} \cup Handling \cup Answered]
    /\ request \in [Requests -> List \cup Update \cup {NoRequest}]
    /\ repoName \in [Requests -> Repos \cup {"none"}]
    /\ since \in [Requests -> SUBSET Id]

\* While a request is handled it has seen whether its user may act now.
Watched(q) ==
    pc[q] \in Handling => /\ MayAct(q) => held[q]
                          /\ ~MayAct(q) => lacked[q]

\* What the handler knows of the row it is about is still true.
KnowsRow(q) ==
    /\ request[q] \in Update
    /\ request[q].id \in DOMAIN rows
    /\ repoName[q] = rows[request[q].id].repo

Phase(q) ==
    /\ pc[q] = "read" => request[q] \in Update /\ since[q] \subseteq DOMAIN rows
    /\ pc[q] = "check" =>
           \/ request[q] \in List /\ repoName[q] = request[q].repo
           \/ KnowsRow(q)
    /\ pc[q] = "change" => KnowsRow(q) /\ held[q]
    /\ pc[q] = "403" => lacked[q] \/ q \in hit
    /\ pc[q] = "404" => request[q].id \notin since[q]

IInv ==
    /\ TypeInv
    /\ \A q \in Requests : Watched(q) /\ Phase(q)

-----------------------------------------------------------------------------
\* Rows are never removed and stay with their repository.
RowsKept ==
    \A i \in DOMAIN rows : i \in DOMAIN rows' /\ rows'[i].repo = rows[i].repo

\* A step that does not touch request q.
Quiet(q) ==
    /\ pc'[q] = pc[q] /\ request'[q] = request[q]
    /\ repoName'[q] = repoName[q] /\ since'[q] = since[q]
    /\ q \in hit => q \in hit'

\* Watch does what its name says, and what was seen stays seen.
LEMMA WatchWatches ==
    ASSUME Watch, NEW q \in Requests
    PROVE  /\ Watched(q)'
           /\ held[q] => held'[q]
           /\ lacked[q] => lacked'[q]
<1>1. held'[q] = (held[q] \/ (pc'[q] \in Handling /\ MayAct(q)'))
  BY Zenon DEF Watch
<1>2. lacked'[q] = (lacked[q] \/ (pc'[q] \in Handling /\ ~MayAct(q)'))
  BY Zenon DEF Watch
<1> QED
  BY <1>1, <1>2, Zenon DEF Watched, Handling

\* A request that no step touches keeps its phase.
LEMMA QuietKeepsPhase ==
    ASSUME Watch, RowsKept, NEW q \in Requests, Quiet(q), Phase(q)
    PROVE  Phase(q)'
<1> USE DEF Quiet
<1>1. (held[q] => held'[q]) /\ (lacked[q] => lacked'[q])
  BY WatchWatches
<1>2. KnowsRow(q) => KnowsRow(q)'
  BY DEF KnowsRow, RowsKept
<1>3. pc[q] = "read" => request'[q] \in Update /\ since'[q] \subseteq DOMAIN rows'
  BY DEF Phase, RowsKept
<1> QED
  BY <1>1, <1>2, <1>3, Zenon DEF Phase
-----------------------------------------------------------------------------
\* What a step of request p does to the others, and that it keeps the rows.
OnlyOf(p) == RowsKept /\ \A q \in Requests \ {p} : Quiet(q)

\* A step of one request keeps the invariant if it keeps that request's phase.
LEMMA OneRequestSteps ==
    ASSUME IInv, Watch, TypeInv', NEW p \in Requests, OnlyOf(p), Phase(p)'
    PROVE  IInv'
<1>1. ASSUME NEW q \in Requests PROVE Watched(q)' /\ Phase(q)'
  <2>1. Watched(q)'
    BY WatchWatches
  <2>2. CASE q = p
    BY <2>1, <2>2
  <2>3. CASE q # p
    <3>1. Phase(q) /\ Quiet(q) /\ RowsKept
      BY <2>3 DEF IInv, OnlyOf
    <3> QED
      BY <2>1, <3>1, QuietKeepsPhase
  <2> QED
    BY <2>2, <2>3
<1> QED
  BY <1>1 DEF IInv

\* So does a step of a scanner or an administrator.
LEMMA NoRequestSteps ==
    ASSUME IInv, Watch, TypeInv', RowsKept, \A q \in Requests : Quiet(q)
    PROVE  IInv'
<1>1. ASSUME NEW q \in Requests PROVE Watched(q)' /\ Phase(q)'
  <2>1. Phase(q) /\ Quiet(q)
    BY DEF IInv
  <2> QED
    BY <2>1, WatchWatches, QuietKeepsPhase
<1> QED
  BY <1>1 DEF IInv
\* The steps of a request, one lemma each.  A request that is turned away has not started.
LEMMA TurnAwayKeeps ==
    ASSUME IInv, NEW p \in Requests, TurnAway(p)
    PROVE  TypeInv' /\ OnlyOf(p) /\ Phase(p)'
<1> USE DEF TurnAway, Goto, table, handler, Fault, NoFault
<1>1. TypeInv /\ Phase(p)
  BY DEF IInv
<1>2. TypeInv'
  BY <1>1 DEF TypeInv, Handling, Answered
<1>3. OnlyOf(p)
  BY <1>1 DEF OnlyOf, RowsKept, Quiet, TypeInv
<1>4. Phase(p)'
  BY <1>1, WatchWatches DEF Phase, KnowsRow, TypeInv, List, Update, NoRequest, Handling, Answered
<1> QED
  BY <1>2, <1>3, <1>4

\* A list knows its repository from the request.
LEMMA ReceiveListKeeps ==
    ASSUME IInv, NEW p \in Requests, ReceiveList(p)
    PROVE  TypeInv' /\ OnlyOf(p) /\ Phase(p)'
<1> USE DEF ReceiveList, Goto, table, handler, Fault, NoFault
<1>1. TypeInv /\ Phase(p)
  BY DEF IInv
<1>2. TypeInv'
  <2>1. PICK r \in List : /\ request' = [request EXCEPT ![p] = r]
                         /\ repoName' = [repoName EXCEPT ![p] = r.repo]
    OBVIOUS
  <2>2. r.repo \in Repos
    BY DEF List
  <2> QED
    BY <1>1, <2>1, <2>2 DEF TypeInv, Handling, Answered
<1>3. OnlyOf(p)
  BY <1>1 DEF OnlyOf, RowsKept, Quiet, TypeInv
<1>4. Phase(p)'
  BY <1>1, WatchWatches DEF Phase, KnowsRow, TypeInv, List, Update, NoRequest, Handling, Answered
<1> QED
  BY <1>2, <1>3, <1>4

\* An update knows the id only.
LEMMA ReceiveUpdateKeeps ==
    ASSUME IInv, NEW p \in Requests, ReceiveUpdate(p)
    PROVE  TypeInv' /\ OnlyOf(p) /\ Phase(p)'
<1> USE DEF ReceiveUpdate, Goto, table, handler, Fault, NoFault
<1>1. TypeInv /\ Phase(p)
  BY DEF IInv
<1>2. TypeInv'
  BY <1>1 DEF TypeInv, Handling, Answered
<1>3. OnlyOf(p)
  BY <1>1 DEF OnlyOf, RowsKept, Quiet, TypeInv
<1>4. Phase(p)'
  BY <1>1, WatchWatches DEF Phase, KnowsRow, TypeInv, List, Update, NoRequest, Handling, Answered
<1> QED
  BY <1>2, <1>3, <1>4

\* The row tells the repository, or it is not stored and was not before.
LEMMA ReadRowKeeps ==
    ASSUME IInv, NEW p \in Requests, ReadRow(p)
    PROVE  TypeInv' /\ OnlyOf(p) /\ Phase(p)'
<1> USE DEF ReadRow, Goto, table, handler, Fault, NoFault
<1>1. TypeInv /\ Phase(p)
  BY DEF IInv
<1>2. TypeInv'
  <2>1. request[p].id \in DOMAIN rows => rows[request[p].id].repo \in Repos
    BY <1>1 DEF TypeInv, Row
  <2> QED
    BY <1>1, <2>1 DEF TypeInv, Handling, Answered
<1>3. OnlyOf(p)
  BY <1>1 DEF OnlyOf, RowsKept, Quiet, TypeInv
<1>4. Phase(p)'
  BY <1>1, WatchWatches DEF Phase, KnowsRow, TypeInv, List, Update, NoRequest, Handling, Answered
<1> QED
  BY <1>2, <1>3, <1>4

\* A failing lookup is answered with 500.
LEMMA ReadRowFailsKeeps ==
    ASSUME IInv, NEW p \in Requests, ReadRowFails(p)
    PROVE  TypeInv' /\ OnlyOf(p) /\ Phase(p)'
<1> USE DEF ReadRowFails, Goto, table, handler, Fault, NoFault
<1>1. TypeInv /\ Phase(p)
  BY DEF IInv
<1>2. TypeInv'
  BY <1>1 DEF TypeInv, Handling, Answered
<1>3. OnlyOf(p)
  BY <1>1 DEF OnlyOf, RowsKept, Quiet, TypeInv
<1>4. Phase(p)'
  BY <1>1, WatchWatches DEF Phase, KnowsRow, TypeInv, List, Update, NoRequest, Handling, Answered
<1> QED
  BY <1>2, <1>3, <1>4

\* The answer of CheckPermission is what the request has seen at this moment.
LEMMA CheckKeeps ==
    ASSUME IInv, NEW p \in Requests, Check(p)
    PROVE  TypeInv' /\ OnlyOf(p) /\ Phase(p)'
<1> USE DEF Check, Goto, table, handler, Fault, NoFault
<1>1. TypeInv /\ Phase(p)
  BY DEF IInv
<1>2. TypeInv'
  <2>1. pc' = [pc EXCEPT ![p] = pc'[p]] /\ pc'[p] \in {"query", "change", "403"}
    BY <1>1 DEF TypeInv, Act
  <2> QED
    BY <1>1, <2>1 DEF TypeInv, Handling, Answered
<1>3. OnlyOf(p)
  BY <1>1 DEF OnlyOf, RowsKept, Quiet, TypeInv
<1>4. Phase(p)'
  <2>1. Watched(p) /\ pc[p] = "check" /\ pc[p] \in Handling
    BY DEF IInv, Handling
  <2>2. (held[p] => held'[p]) /\ (lacked[p] => lacked'[p])
    BY WatchWatches DEF Check
  <2>3. request[p] \in List => request[p].kind = "list"
    BY DEF List
  <2>4. request[p] \in Update => request[p].kind = "update"
    BY DEF Update
  <2>5. CASE request[p] \in List /\ repoName[p] = request[p].repo
    <3>1. MayAct(p) <=> HasAccess(p, repoName[p])
      BY <2>3, <2>5 DEF MayAct
    <3>2. pc'[p] = IF HasAccess(p, repoName[p]) THEN "query" ELSE "403"
      BY <1>1, <2>3, <2>5 DEF TypeInv, Act
    <3>3. ~HasAccess(p, repoName[p]) => lacked'[p]
      BY <2>1, <2>2, <3>1, Zenon DEF Watched
    <3> QED
      BY <3>2, <3>3 DEF Phase
  <2>6. CASE KnowsRow(p)
    <3>1. MayAct(p) <=> HasAccess(p, repoName[p])
      BY <2>4, <2>6 DEF MayAct, KnowsRow
    <3>2. pc'[p] = IF HasAccess(p, repoName[p]) THEN "change" ELSE "403"
      BY <1>1, <2>4, <2>6 DEF TypeInv, Act, KnowsRow
    <3>3. /\ HasAccess(p, repoName[p]) => held'[p]
          /\ ~HasAccess(p, repoName[p]) => lacked'[p]
      BY <2>1, <2>2, <3>1, Zenon DEF Watched
    <3>4. KnowsRow(p)'
      BY <2>6 DEF KnowsRow
    <3> QED
      BY <3>2, <3>3, <3>4 DEF Phase
  <2> QED
    BY <1>1, <2>1, <2>5, <2>6 DEF Phase
<1> QED
  BY <1>2, <1>3, <1>4

\* A failing check has hit the request.
LEMMA CheckFailsKeeps ==
    ASSUME IInv, NEW p \in Requests, CheckFails(p)
    PROVE  TypeInv' /\ OnlyOf(p) /\ Phase(p)'
<1> USE DEF CheckFails, Goto, table, handler, Fault, NoFault
<1>1. TypeInv /\ Phase(p)
  BY DEF IInv
<1>2. TypeInv'
  BY <1>1 DEF TypeInv, Handling, Answered
<1>3. OnlyOf(p)
  BY <1>1 DEF OnlyOf, RowsKept, Quiet, TypeInv
<1>4. Phase(p)'
  BY <1>1, WatchWatches DEF Phase, KnowsRow, TypeInv, List, Update, NoRequest, Handling, Answered
<1> QED
  BY <1>2, <1>3, <1>4

\* A failing query.
LEMMA QueryFailsKeeps ==
    ASSUME IInv, NEW p \in Requests, QueryFails(p)
    PROVE  TypeInv' /\ OnlyOf(p) /\ Phase(p)'
<1> USE DEF QueryFails, Goto, table, handler, Fault, NoFault
<1>1. TypeInv /\ Phase(p)
  BY DEF IInv
<1>2. TypeInv'
  BY <1>1 DEF TypeInv, Handling, Answered
<1>3. OnlyOf(p)
  BY <1>1 DEF OnlyOf, RowsKept, Quiet, TypeInv
<1>4. Phase(p)'
  BY <1>1, WatchWatches DEF Phase, KnowsRow, TypeInv, List, Update, NoRequest, Handling, Answered
<1> QED
  BY <1>2, <1>3, <1>4

\* A status that does not fit.
LEMMA ChangeRefusedKeeps ==
    ASSUME IInv, NEW p \in Requests, ChangeRefused(p)
    PROVE  TypeInv' /\ OnlyOf(p) /\ Phase(p)'
<1> USE DEF ChangeRefused, Goto, table, handler, Fault, NoFault
<1>1. TypeInv /\ Phase(p)
  BY DEF IInv
<1>2. TypeInv'
  BY <1>1 DEF TypeInv, Handling, Answered
<1>3. OnlyOf(p)
  BY <1>1 DEF OnlyOf, RowsKept, Quiet, TypeInv
<1>4. Phase(p)'
  BY <1>1, WatchWatches DEF Phase, KnowsRow, TypeInv, List, Update, NoRequest, Handling, Answered
<1> QED
  BY <1>2, <1>3, <1>4

\* A failing update.
LEMMA ChangeFailsKeeps ==
    ASSUME IInv, NEW p \in Requests, ChangeFails(p)
    PROVE  TypeInv' /\ OnlyOf(p) /\ Phase(p)'
<1> USE DEF ChangeFails, Goto, table, handler, Fault, NoFault
<1>1. TypeInv /\ Phase(p)
  BY DEF IInv
<1>2. TypeInv'
  BY <1>1 DEF TypeInv, Handling, Answered
<1>3. OnlyOf(p)
  BY <1>1 DEF OnlyOf, RowsKept, Quiet, TypeInv
<1>4. Phase(p)'
  BY <1>1, WatchWatches DEF Phase, KnowsRow, TypeInv, List, Update, NoRequest, Handling, Answered
<1> QED
  BY <1>2, <1>3, <1>4

\* A crash.
LEMMA CrashKeeps ==
    ASSUME IInv, NEW p \in Requests, Crash(p)
    PROVE  TypeInv' /\ OnlyOf(p) /\ Phase(p)'
<1> USE DEF Crash, Goto, table, handler, Fault, NoFault
<1>1. TypeInv /\ Phase(p)
  BY DEF IInv
<1>2. TypeInv'
  BY <1>1 DEF TypeInv, Handling, Answered
<1>3. OnlyOf(p)
  BY <1>1 DEF OnlyOf, RowsKept, Quiet, TypeInv
<1>4. Phase(p)'
  BY <1>1, WatchWatches DEF Phase, KnowsRow, TypeInv, List, Update, NoRequest, Handling, Answered
<1> QED
  BY <1>2, <1>3, <1>4

\* The list is read.
LEMMA QueryKeeps ==
    ASSUME IInv, NEW p \in Requests, Query(p)
    PROVE  TypeInv' /\ OnlyOf(p) /\ Phase(p)'
<1> USE DEF Query, Goto, table, handler, Fault, NoFault
<1>1. TypeInv /\ Phase(p)
  BY DEF IInv
<1>2. TypeInv'
  BY <1>1 DEF TypeInv, Handling, Answered
<1>3. OnlyOf(p)
  BY <1>1 DEF OnlyOf, RowsKept, Quiet, TypeInv
<1>4. Phase(p)'
  BY <1>1, WatchWatches DEF Phase, KnowsRow, TypeInv, List, Update, NoRequest, Handling, Answered
<1> QED
  BY <1>2, <1>3, <1>4

\* The list is cut short.
LEMMA QueryBreaksKeeps ==
    ASSUME IInv, NEW p \in Requests, QueryBreaks(p)
    PROVE  TypeInv' /\ OnlyOf(p) /\ Phase(p)'
<1> USE DEF QueryBreaks, Goto, table, handler, Fault, NoFault
<1>1. TypeInv /\ Phase(p)
  BY DEF IInv
<1>2. TypeInv'
  BY <1>1 DEF TypeInv, Handling, Answered
<1>3. OnlyOf(p)
  BY <1>1 DEF OnlyOf, RowsKept, Quiet, TypeInv
<1>4. Phase(p)'
  BY <1>1, WatchWatches DEF Phase, KnowsRow, TypeInv, List, Update, NoRequest, Handling, Answered
<1> QED
  BY <1>2, <1>3, <1>4

\* The update changes a status to one that fits.
LEMMA ChangeKeeps ==
    ASSUME IInv, NEW p \in Requests, Change(p)
    PROVE  TypeInv' /\ OnlyOf(p) /\ Phase(p)'
<1> USE DEF Change, Goto, table, handler, Fault, NoFault
<1>1. TypeInv /\ Phase(p)
  BY DEF IInv
<1>2. TypeInv'
  <2>1. request[p].status \in Statuses \ TooLong
    BY <1>1 DEF Phase, KnowsRow, Update, Fits
  <2>2. \A i \in DOMAIN rows : [rows[i] EXCEPT !.status = request[p].status] \in Row
    BY <1>1, <2>1 DEF TypeInv, Row
  <2>3. /\ DOMAIN rows' = DOMAIN rows
        /\ \A i \in DOMAIN rows : rows'[i] \in Row
    BY <1>1, <2>2 DEF TypeInv
  <2> QED
    BY <1>1, <2>3 DEF TypeInv, Handling, Answered
<1>3. OnlyOf(p)
  BY <1>1 DEF OnlyOf, RowsKept, Quiet, TypeInv
<1>4. Phase(p)'
  BY <1>1, WatchWatches DEF Phase, KnowsRow, TypeInv, List, Update, NoRequest, Handling, Answered
<1> QED
  BY <1>2, <1>3, <1>4

\* An insert adds a row under an id of its own.
LEMMA SaveFindingKeeps ==
    ASSUME IInv, NEW i \in Id, NEW r \in Repos, NEW leak \in Leaks, SaveFinding(i, r, leak)
    PROVE  TypeInv' /\ RowsKept /\ \A q \in Requests : Quiet(q)
<1> DEFINE new == [repo |-> r, leak |-> leak, status |-> "OPEN"]
<1>1. TypeInv
  BY DEF IInv
<1>2. rows' = [k \in DOMAIN rows \cup {i} |-> IF k = i THEN new ELSE rows[k]]
  BY DEF SaveFinding
<1>3. new \in Row
  BY DEF Row
<1>4. /\ DOMAIN rows' = DOMAIN rows \cup {i}
      /\ \A k \in DOMAIN rows' : rows'[k] = IF k = i THEN new ELSE rows[k]
  <2> HIDE DEF new
  <2> QED
    BY <1>2
<1>5. i \notin DOMAIN rows
  BY DEF SaveFinding
<1> HIDE DEF new
<1>6. TypeInv'
  BY <1>1, <1>3, <1>4 DEF TypeInv, SaveFinding, handler
<1>7. RowsKept
  BY <1>4, <1>5 DEF RowsKept
<1>8. \A q \in Requests : Quiet(q)
  BY DEF Quiet, SaveFinding, handler, NoFault
<1> QED
  BY <1>6, <1>7, <1>8

\* Rights change and rows do not.
LEMMA SetWriterKeeps ==
    ASSUME IInv, NEW u \in Users, NEW r \in Repos, SetWriter(u, r)
    PROVE  TypeInv' /\ RowsKept /\ \A q \in Requests : Quiet(q)
  BY DEF IInv, SetWriter, handler, NoFault, TypeInv, RowsKept, Quiet
-----------------------------------------------------------------------------
\* No request has started at first.
LEMMA InitEstablishes == Init => IInv
<1> SUFFICES ASSUME Init PROVE IInv
  OBVIOUS
<1>1. TypeInv
  BY DEF Init, TypeInv, Handling, Answered
<1>2. \A q \in Requests : pc[q] = "idle"
  BY DEF Init
<1>3. \A q \in Requests : Watched(q) /\ Phase(q)
  BY <1>2 DEF Watched, Phase, Handling
<1> QED
  BY <1>1, <1>3 DEF IInv

\* What Next amounts to: a scanner or an administrator steps, or one request.
RequestSteps(q) == TurnAway(q) \/ ReceiveList(q) \/ ReceiveUpdate(q) \/ Handle(q) \/ Crash(q)

\* What a step of one request does to it, to the others and to the rows.
LEMMA RequestEffects ==
    ASSUME IInv, NEW p \in Requests, RequestSteps(p)
    PROVE  TypeInv' /\ OnlyOf(p) /\ Phase(p)'
  BY TurnAwayKeeps, ReceiveListKeeps, ReceiveUpdateKeeps, ReadRowKeeps, ReadRowFailsKeeps,
     CheckKeeps, CheckFailsKeeps, QueryKeeps, QueryBreaksKeeps, QueryFailsKeeps, ChangeKeeps,
     ChangeRefusedKeeps, ChangeFailsKeeps, CrashKeeps, Zenon DEF RequestSteps, Handle

\* Every step of a request keeps the invariant.
LEMMA RequestKeeps ==
    ASSUME IInv, NEW p \in Requests, RequestSteps(p)
    PROVE  IInv'
<1>1. Watch
  BY DEF RequestSteps, Handle, TurnAway, ReceiveList, ReceiveUpdate, ReadRow, ReadRowFails,
         Check, CheckFails, Query, QueryBreaks, QueryFails, Change, ChangeRefused,
         ChangeFails, Crash
<1> QED
  BY <1>1, RequestEffects, OneRequestSteps

\* Every step keeps the invariant.
LEMMA NextKeeps == IInv /\ [Next]_vars => IInv'
<1> SUFFICES ASSUME IInv, [Next]_vars PROVE IInv'
  OBVIOUS
<1>1. CASE \E i \in Id, r \in Repos, leak \in Leaks : SaveFinding(i, r, leak)
  <2>1. PICK i \in Id, r \in Repos, leak \in Leaks : SaveFinding(i, r, leak)
    BY <1>1
  <2>2. Watch
    BY <2>1 DEF SaveFinding
  <2> QED
    BY <2>1, <2>2, SaveFindingKeeps, NoRequestSteps
<1>2. CASE \E u \in Users, r \in Repos : SetWriter(u, r)
  <2>1. PICK u \in Users, r \in Repos : SetWriter(u, r)
    BY <1>2
  <2>2. Watch
    BY <2>1 DEF SetWriter
  <2> QED
    BY <2>1, <2>2, SetWriterKeeps, NoRequestSteps
<1>3. CASE \E q \in Requests : RequestSteps(q)
  BY <1>3, RequestKeeps
<1>4. CASE UNCHANGED vars
  BY <1>4 DEF vars, table, handler, IInv, TypeInv, Watched, Phase, KnowsRow, MayAct, HasAccess
<1> QED
  BY <1>1, <1>2, <1>3, <1>4 DEF Next, RequestSteps

\* The invariant holds always.
THEOREM InvariantHolds == Spec => []IInv
  BY InitEstablishes, NextKeeps, PTL DEF Spec
-----------------------------------------------------------------------------
\* Nobody is refused or sent away without a cause.
THEOREM RefusalHasCauseHolds == Spec => []RefusalHasCause
<1>1. IInv => RefusalHasCause
  BY DEF IInv, Phase, RefusalHasCause
<1> QED
  BY <1>1, InvariantHolds, PTL

\* Rows change only by Change, whose user held the right.
LEMMA RowsChangeAsAsked ==
    ASSUME IInv, [Next]_vars, NEW i \in DOMAIN rows, rows'[i] # rows[i]
    PROVE  \E q \in Requests :
               /\ pc[q] = "change" /\ request[q].id = i /\ held[q]
               /\ rows'[i] = [rows[i] EXCEPT !.status = request[q].status]
<1>1. PICK q \in Requests : Change(q)
  BY DEF Next, vars, table, SaveFinding, SetWriter, Handle, TurnAway, ReceiveList,
         ReceiveUpdate, ReadRow, ReadRowFails, Check, CheckFails, Query, QueryBreaks,
         QueryFails, ChangeRefused, ChangeFails, Crash
<1>2. pc[q] = "change" /\ KnowsRow(q) /\ held[q]
  BY <1>1 DEF Change, IInv, Phase
<1>3. rows' = [rows EXCEPT ![request[q].id].status = request[q].status]
  BY <1>1 DEF Change
<1>4. request[q].id = i
  BY <1>3
<1>5. rows'[i] = [rows[i] EXCEPT !.status = request[q].status]
  BY <1>3, <1>4
<1> QED
  BY <1>2, <1>4, <1>5

\* A stored row changes only to what a user with the right on it asked for.
THEOREM ChangeWasAllowedHolds == Spec => ChangeWasAllowed
<1>1. IInv /\ [Next]_vars =>
        [\A i \in DOMAIN rows : rows'[i] # rows[i] =>
           \E q \in Requests :
               /\ pc[q] = "change" /\ request[q].id = i /\ held[q]
               /\ rows'[i] = [rows[i] EXCEPT !.status = request[q].status]]_vars
  BY RowsChangeAsAsked
<1> QED
  BY <1>1, InvariantHolds, PTL DEF Spec, ChangeWasAllowed
-----------------------------------------------------------------------------
\* The types that no cause of a refusal depends on.
RestTypes ==
    /\ writers \subseteq Users \X Repos
    /\ listed \in [Requests -> Seq(Id)]
    /\ held \in [Requests -> BOOLEAN] /\ lacked \in [Requests -> BOOLEAN]
    /\ hit \subseteq Requests
    /\ faults \in 0..MaxFaults

\* What a list is, the moment it is answered and from then on.
IsCurrentList(q) ==
    /\ held[q]
    /\ Range(listed[q]) \subseteq Of(request[q].repo)
    /\ \A j, k \in DOMAIN listed[q] : j < k => listed[q][j] > listed[q][k]
    /\ \A i \in since[q] \cap Of(request[q].repo) :
           \/ i \in Range(listed[q])
           \/ q \in hit /\ \A j \in Range(listed[q]) : i < j

\* How a list gets there: its query is only made with the right seen, for the
\* repository asked for, and no row is lost that was stored when it came.
Listing(q) ==
    /\ since[q] \subseteq DOMAIN rows
    /\ pc[q] = "query" => held[q] /\ request[q] \in List /\ repoName[q] = request[q].repo
    /\ pc[q] = "200" /\ request[q].kind = "list" => IsCurrentList(q)

ListInv == IInv /\ RestTypes /\ \A q \in Requests : Listing(q)
-----------------------------------------------------------------------------
\* A set of numbers that is not empty has a least element.
LEMMA LeastElement ==
    ASSUME NEW S, S \subseteq Nat, S # {}
    PROVE  \E m \in S : \A k \in S : ~(k < m)
<1> DEFINE R == {ss \in Nat \X Nat : ss[1] < ss[2]}
<1>1. IsWellFoundedOn(R, Nat)
  BY NatLessThanWellFounded, Zenon DEF OpToRel
<1>2. \E m \in S : \A k \in S : ~(<<k, m>> \in R)
  <2> HIDE DEF R
  <2> QED
    BY <1>1, WFMin
<1> QED
  BY <1>2

\* The lists of a set of ids from the newest to the oldest.
Descending(ids) ==
    {list \in [1..Cardinality(ids) -> ids] :
        \A j, k \in DOMAIN list : j < k => list[j] > list[k]}

\* Such a list of all but the least id is continued by the least id.
LEMMA LeastComesLast ==
    ASSUME NEW ids, ids \subseteq Nat, IsFiniteSet(ids),
           NEW m \in ids, \A i \in ids : ~(i < m), NEW l \in Descending(ids \ {m})
    PROVE  Descending(ids) # {}
<1> DEFINE n == Cardinality(ids)
           list == [k \in 1..n |-> IF k = n THEN m ELSE l[k]]
<1>1. n \in Nat /\ n > 0 /\ Cardinality(ids \ {m}) = n - 1
  <2>1. n \in Nat
    BY FS_CardinalityType
  <2>2. n # 0
    BY FS_EmptySet
  <2>3. Cardinality(ids \ {m}) = n - 1
    BY FS_RemoveElement
  <2> QED
    BY <2>1, <2>2, <2>3
<1>2. /\ l \in [1..(n - 1) -> ids \ {m}]
      /\ \A j, k \in 1..(n - 1) : j < k => l[j] > l[k]
  BY <1>1 DEF Descending
<1> HIDE DEF n
<1>3. \A k \in 1..n : k \in 1..(n - 1) \/ k = n
  BY <1>1
<1>4. ASSUME NEW k \in 1..(n - 1) PROVE l[k] \in ids /\ l[k] > m
  <2>1. l[k] \in ids /\ l[k] # m
    BY <1>2
  <2>2. l[k] \in Nat /\ m \in Nat /\ ~(l[k] < m)
    BY <2>1
  <2> QED
    BY <2>1, <2>2
<1>5. list \in [1..n -> ids]
  BY <1>3, <1>4
<1>6. ASSUME NEW j \in 1..n, NEW k \in 1..n, j < k PROVE list[j] > list[k]
  <2>1. j \in 1..(n - 1) /\ list[j] = l[j]
    BY <1>1, <1>6
  <2>2. CASE k = n
    BY <2>1, <2>2, <1>4
  <2>3. CASE k \in 1..(n - 1)
    BY <2>1, <2>3, <1>1, <1>2, <1>6
  <2> QED
    BY <2>2, <2>3, <1>3
<1>7. list \in Descending(ids)
  BY <1>5, <1>6 DEF Descending, n
<1> QED
  BY <1>7

\* Every finite set of ids can be listed.
LEMMA ListExists ==
    ASSUME NEW ids, ids \subseteq Nat, IsFiniteSet(ids) PROVE Descending(ids) # {}
<1> DEFINE Unlisted(T) == T \subseteq Nat /\ IsFiniteSet(T) /\ Descending(T) = {}
           sizes == {n \in Nat : \E T \in SUBSET Nat : Unlisted(T) /\ Cardinality(T) = n}
<1> SUFFICES ASSUME Unlisted(ids) PROVE FALSE
  OBVIOUS
<1>1. Cardinality(ids) \in sizes
  BY FS_CardinalityType
<1>2. PICK n \in sizes : \A k \in sizes : ~(k < n)
  <2>1. sizes \subseteq Nat /\ sizes # {}
    BY <1>1
  <2> HIDE DEF sizes
  <2> QED
    BY <2>1, LeastElement
<1>3. PICK T \in SUBSET Nat : Unlisted(T) /\ Cardinality(T) = n
  BY <1>2
<1>4. T # {}
  <2>1. Cardinality({}) = 0
    BY FS_EmptySet
  <2>2. [k \in 1..0 |-> 0] \in Descending({})
    BY <2>1 DEF Descending
  <2> QED
    BY <1>3, <2>2
<1>5. PICK m \in T : \A i \in T : ~(i < m)
  BY <1>3, <1>4, LeastElement
<1>6. /\ IsFiniteSet(T \ {m}) /\ Cardinality(T \ {m}) = n - 1
      /\ n \in Nat /\ n > 0
  BY <1>3, <1>4, <1>5, FS_CardinalityType, FS_EmptySet, FS_RemoveElement
<1>7. ~Unlisted(T \ {m})
  <2>1. n - 1 \notin sizes
    <3> HIDE DEF sizes
    <3> QED
      BY <1>2, <1>6
  <2> QED
    BY <2>1, <1>3, <1>6
<1>8. Descending(T \ {m}) # {}
  BY <1>3, <1>6, <1>7
<1> QED
  BY <1>3, <1>5, <1>8, LeastComesLast

\* The answer of the query: all the ids and no other, from the newest on.
LEMMA NewestLists ==
    ASSUME NEW ids, ids \subseteq Nat, IsFiniteSet(ids)
    PROVE  /\ Newest(ids) \in Seq(ids)
           /\ Range(Newest(ids)) = ids
           /\ \A j, k \in DOMAIN Newest(ids) : j < k => Newest(ids)[j] > Newest(ids)[k]
<1> DEFINE list == Newest(ids)
           n == Cardinality(ids)
<1>1. n \in Nat
  BY FS_CardinalityType
<1>2. /\ list \in [1..n -> ids]
      /\ \A j, k \in DOMAIN list : j < k => list[j] > list[k]
  BY ListExists DEF Newest, Descending
<1> HIDE DEF list
<1>3. list \in Seq(ids)
  BY <1>1, <1>2
<1>4. list \in Injection(1..n, ids)
  <2>1. ASSUME NEW j \in 1..n, NEW k \in 1..n, list[j] = list[k] PROVE j = k
    <3>1. PICK i \in Nat : i = list[j] /\ i = list[k]
      <4>1. list[j] \in ids
        BY <1>2
      <4> QED
        BY <2>1, <4>1
    <3>2. /\ j < k => list[j] > list[k]
          /\ k < j => list[k] > list[j]
      BY <1>2
    <3>3. ~(j < k) /\ ~(k < j)
      BY <3>1, <3>2
    <3> QED
      BY <1>1, <3>3
  <2> QED
    BY <1>2, <2>1 DEF Injection, IsInjective
<1>5. Cardinality(1..n) = Cardinality(ids)
  BY <1>1, FS_Interval DEF n
<1>6. list \in Surjection(1..n, ids)
  BY <1>4, <1>5, FS_Injection
<1>7. Range(list) = ids
  BY <1>2, <1>6 DEF Surjection, Range
<1> QED
  BY <1>2, <1>3, <1>7 DEF list
-----------------------------------------------------------------------------
\* The rows of a repository have finitely many ids, which are numbers.
LEMMA OfIsFinite ==
    ASSUME TypeInv, NEW repo
    PROVE  Of(repo) \subseteq Id /\ Of(repo) \subseteq Nat /\ IsFiniteSet(Of(repo))
<1>1. Of(repo) \subseteq Id /\ IsFiniteSet(Id) /\ Id \subseteq Nat
  BY ConstantsAssumption, FS_Interval DEF TypeInv, Of, Id
<1> QED
  BY <1>1, FS_Subset

\* A list from the highest number to the lowest.
Falls(list) == \A j, k \in DOMAIN list : j < k => list[j] > list[k]

\* The list's highest numbers: what is missing is below all that is there.
HeadOf(list, all) ==
    /\ Range(list) \subseteq Range(all)
    /\ Falls(list)
    /\ \A i \in Range(all) : i \in Range(list) \/ \A j \in Range(list) : j > i

\* A list whose end is missing.
LEMMA CutList ==
    ASSUME NEW ids, NEW all, all \in Seq(ids), Falls(all),
           NEW n, n \in 0..Len(all), NEW list, list = SubSeq(all, 1, n)
    PROVE  list \in Seq(ids) /\ HeadOf(list, all)
<1> USE DEF Falls
<1>1. /\ Len(all) \in Nat /\ DOMAIN all = 1..Len(all)
      /\ list \in Seq(ids) /\ DOMAIN list = 1..n /\ 1..n \subseteq 1..Len(all)
      /\ \A k \in 1..n : list[k] = all[k]
  OBVIOUS
<1>2. Range(list) \subseteq Range(all)
  BY <1>1 DEF Range
<1>3. \A j, k \in DOMAIN list : j < k => list[j] > list[k]
  BY <1>1
<1>4. ASSUME NEW k \in 1..Len(all), all[k] \notin Range(list), NEW j \in 1..n
      PROVE  list[j] > all[k]
  <2>1. k \notin 1..n
    BY <1>1, <1>4 DEF Range
  <2>2. j < k
    BY <1>1, <2>1
  <2> QED
    BY <1>1, <2>2
<1>5. \A i \in Range(all) : i \in Range(list) \/ \A j \in Range(list) : j > i
  BY <1>1, <1>4 DEF Range
<1> QED
  BY <1>1, <1>2, <1>3, <1>5 DEF HeadOf

\* An answered list: the newest of the repository's findings, all of them
\* unless a failure hit the request.
Answers(q) ==
    LET ids == Of(repoName[q])
    IN  \E list \in Seq(ids) :
            /\ listed' = [listed EXCEPT ![q] = list]
            /\ \A j, k \in DOMAIN list : j < k => list[j] > list[k]
            /\ \A i \in ids : \/ i \in Range(list)
                              \/ q \in hit' /\ \A j \in Range(list) : j > i

\* What the two ways to end a query have in common.
LEMMA QueriesAnswer ==
    ASSUME IInv, NEW q \in Requests, Query(q) \/ QueryBreaks(q)
    PROVE  Answers(q)
<1> DEFINE ids == Of(repoName[q])
           all == Newest(ids)
<1>1. /\ all \in Seq(ids) /\ Range(all) = ids
      /\ \A j, k \in DOMAIN all : j < k => all[j] > all[k]
  BY OfIsFinite, NewestLists DEF IInv
<1>2. CASE Query(q)
  <2>1. listed' = [listed EXCEPT ![q] = all]
    BY <1>2 DEF Query
  <2> HIDE DEF all
  <2> QED
    BY <1>1, <2>1 DEF Answers
<1>3. CASE QueryBreaks(q)
  <2>1. q \in hit'
    BY <1>3 DEF QueryBreaks, Fault
  <2>2. PICK n \in 0..Len(all) : listed' = [listed EXCEPT ![q] = SubSeq(all, 1, n)]
    BY <1>3 DEF QueryBreaks
  <2>3. PICK list : list = SubSeq(all, 1, n)
    OBVIOUS
  <2> HIDE DEF all, ids
  <2>4. all \in Seq(ids) /\ Falls(all) /\ Range(all) = ids
    BY <1>1 DEF Falls
  <2>5. list \in Seq(ids) /\ HeadOf(list, all)
    BY <2>2, <2>3, <2>4, CutList, Zenon
  <2>6. /\ \A j, k \in DOMAIN list : j < k => list[j] > list[k]
        /\ \A i \in ids : i \in Range(list) \/ \A j \in Range(list) : j > i
    BY <2>4, <2>5 DEF HeadOf, Falls
  <2> QED
    BY <2>1, <2>2, <2>3, <2>5, <2>6 DEF Answers, ids
<1> QED
  BY <1>2, <1>3

\* What a step of a request does to the other variables.
LEMMA RequestFrame ==
    ASSUME NEW p \in Requests, RequestSteps(p)
    PROVE  /\ Watch
           /\ writers' = writers
           /\ NoFault \/ Fault(p)
           /\ Query(p) \/ QueryBreaks(p) \/ UNCHANGED listed
<1> USE DEF table, handler
<1>1. CASE TurnAway(p) \/ ReceiveList(p) \/ ReceiveUpdate(p) \/ Crash(p)
  BY <1>1 DEF TurnAway, ReceiveList, ReceiveUpdate, Crash
<1>2. CASE ReadRow(p) \/ ReadRowFails(p) \/ Check(p) \/ CheckFails(p)
  BY <1>2 DEF ReadRow, ReadRowFails, Check, CheckFails
<1>3. CASE Query(p) \/ QueryBreaks(p) \/ QueryFails(p)
  BY <1>3 DEF Query, QueryBreaks, QueryFails
<1>4. CASE Change(p) \/ ChangeRefused(p) \/ ChangeFails(p)
  BY <1>4 DEF Change, ChangeRefused, ChangeFails
<1> QED
  BY <1>1, <1>2, <1>3, <1>4, Zenon DEF RequestSteps, Handle

\* What was seen is a Boolean.
LEMMA WatchTypes ==
    ASSUME RestTypes, Watch PROVE held' \in [Requests -> BOOLEAN] /\ lacked' \in [Requests -> BOOLEAN]
<1>1. \A q \in Requests : held[q] \in BOOLEAN /\ lacked[q] \in BOOLEAN
  BY DEF RestTypes
<1>2. held' \in [Requests -> BOOLEAN]
  BY <1>1, Zenon DEF Watch
<1>3. lacked' \in [Requests -> BOOLEAN]
  BY <1>1, Zenon DEF Watch
<1> QED
  BY <1>2, <1>3

\* A step of a request keeps the types.
LEMMA RequestKeepsTypes ==
    ASSUME IInv, RestTypes, NEW p \in Requests, RequestSteps(p) PROVE RestTypes'
<1>1. held' \in [Requests -> BOOLEAN] /\ lacked' \in [Requests -> BOOLEAN]
  BY RequestFrame, WatchTypes
<1>2. hit' \subseteq Requests /\ faults' \in 0..MaxFaults
  BY RequestFrame, ConstantsAssumption DEF RestTypes, Fault, NoFault
<1>3. listed' \in [Requests -> Seq(Id)]
  <2>1. CASE UNCHANGED listed
    BY <2>1 DEF RestTypes
  <2>2. CASE Query(p) \/ QueryBreaks(p)
    <3>1. PICK list \in Seq(Of(repoName[p])) : listed' = [listed EXCEPT ![p] = list]
      BY <2>2, QueriesAnswer DEF Answers
    <3>2. Of(repoName[p]) \subseteq Id
      BY OfIsFinite DEF IInv
    <3>3. list \in Seq(Id)
      BY <3>1, <3>2
    <3> QED
      BY <3>1, <3>3 DEF RestTypes
  <2> QED
    BY <2>1, <2>2, RequestFrame
<1>4. writers' \subseteq Users \X Repos
  BY RequestFrame DEF RestTypes
<1> QED
  BY <1>1, <1>2, <1>3, <1>4 DEF RestTypes

\* So does a step of a scanner or an administrator, which no list is made by.
LEMMA OthersKeepTypes ==
    ASSUME RestTypes,
           \/ \E i \in Id, r \in Repos, leak \in Leaks : SaveFinding(i, r, leak)
           \/ \E u \in Users, r \in Repos : SetWriter(u, r)
    PROVE  RestTypes' /\ listed' = listed /\ Watch
<1>1. Watch /\ listed' = listed /\ NoFault /\ writers' \subseteq Users \X Repos
  <2>1. CASE \E i \in Id, r \in Repos, leak \in Leaks : SaveFinding(i, r, leak)
    BY <2>1 DEF SaveFinding, handler, RestTypes
  <2>2. ASSUME NEW u \in Users, NEW r \in Repos, SetWriter(u, r)
        PROVE  Watch /\ listed' = listed /\ NoFault /\ writers' \subseteq Users \X Repos
    <3>1. <<u, r>> \in Users \X Repos
      OBVIOUS
    <3> QED
      BY <2>2, <3>1 DEF SetWriter, handler, RestTypes
  <2> QED
    BY <2>1, <2>2
<1>2. held' \in [Requests -> BOOLEAN] /\ lacked' \in [Requests -> BOOLEAN]
  BY <1>1, WatchTypes
<1> QED
  BY <1>1, <1>2 DEF RestTypes, NoFault

\* A request that did not move keeps what it was answered.
LEMMA QuietKeepsListing ==
    ASSUME ListInv, NEW q \in Requests, Quiet(q), listed'[q] = listed[q], Watch, RowsKept,
           TypeInv'
    PROVE  Listing(q)'
<1>1. Listing(q) /\ (held[q] => held'[q])
  BY WatchWatches DEF ListInv
<1>2. since'[q] \subseteq DOMAIN rows'
  BY <1>1 DEF Listing, Quiet, RowsKept
<1>3. pc'[q] = "query" => held'[q] /\ request'[q] \in List /\ repoName'[q] = request'[q].repo
  BY <1>1 DEF Listing, Quiet
<1>4. ASSUME pc'[q] = "200", request'[q].kind = "list"
      PROVE  IsCurrentList(q)'
  <2>1. IsCurrentList(q)
    BY <1>1, <1>4 DEF Listing, Quiet
  <2>2. \A repo : Of(repo) \subseteq Of(repo)' /\ since[q] \cap Of(repo)' \subseteq Of(repo)
    BY <1>1 DEF Of, RowsKept, Listing
  <2> QED
    BY <1>1, <2>1, <2>2, Zenon DEF IsCurrentList, Quiet
<1> QED
  BY <1>2, <1>3, <1>4 DEF Listing

\* The answer of a query is a list as it should be.
LEMMA QueryListing ==
    ASSUME ListInv, NEW p \in Requests, Query(p) \/ QueryBreaks(p) PROVE Listing(p)'
<1>1. /\ pc[p] = "query" /\ request' = request /\ since' = since /\ rows' = rows /\ Watch
      /\ pc' = [pc EXCEPT ![p] = "200"] /\ pc \in [Requests -> {"idle"} \cup Handling \cup Answered]
  BY DEF Query, QueryBreaks, table, Goto, ListInv, IInv, TypeInv
<1>2. held'[p] /\ since'[p] \subseteq DOMAIN rows' /\ repoName[p] = request[p].repo /\ pc'[p] = "200"
  BY <1>1, WatchWatches DEF ListInv, Listing
<1>3. PICK list \in Seq(Of(repoName[p])) :
          /\ listed' = [listed EXCEPT ![p] = list]
          /\ \A j, k \in DOMAIN list : j < k => list[j] > list[k]
          /\ \A i \in Of(repoName[p]) : \/ i \in Range(list)
                                        \/ p \in hit' /\ \A j \in Range(list) : j > i
  BY QueriesAnswer DEF Answers, ListInv
<1>4. listed'[p] = list
  BY <1>3 DEF ListInv, RestTypes
<1>5. Range(list) \subseteq Of(repoName[p])
  BY <1>3 DEF Range
<1>6. ASSUME NEW i \in Of(repoName[p])
      PROVE  \/ i \in Range(list)
             \/ p \in hit' /\ \A j \in Range(list) : i < j
  <2>1. \A j \in Range(list) : j > i => i < j
    BY <1>5, OfIsFinite DEF ListInv, IInv
  <2> QED
    BY <1>3, <2>1
<1>7. \A repo : Of(repo)' = Of(repo)
  BY <1>1 DEF Of
<1>8. IsCurrentList(p)'
  BY <1>1, <1>2, <1>3, <1>4, <1>5, <1>6, <1>7 DEF IsCurrentList
<1> QED
  BY <1>2, <1>8 DEF Listing

\* No other step of a request makes or answers a list; only the check, which
\* has seen the right, lets it go on to the query.
LEMMA OtherListing ==
    ASSUME ListInv, NEW p \in Requests, RequestSteps(p), ~Query(p), ~QueryBreaks(p)
    PROVE  Listing(p)'
<1>1. /\ pc \in [Requests -> {"idle"} \cup Handling \cup Answered] /\ RowsKept /\ Watch
      /\ Listing(p) /\ since[p] \subseteq DOMAIN rows
      /\ since \in [Requests -> SUBSET Id] /\ IInv /\ (held[p] => held'[p])
  BY RequestEffects, RequestFrame, WatchWatches DEF ListInv, OnlyOf, IInv, TypeInv, Listing
<1>2. since'[p] \subseteq DOMAIN rows'
  <2>1. CASE UNCHANGED since
    BY <1>1, <2>1 DEF RowsKept
  <2>2. CASE ReceiveList(p) \/ ReceiveUpdate(p)
    BY <1>1, <2>2 DEF ReceiveList, ReceiveUpdate, table
  <2>3. UNCHANGED since \/ ReceiveList(p) \/ ReceiveUpdate(p)
    BY DEF RequestSteps, Handle, handler, TurnAway, ReadRow, ReadRowFails, Check, CheckFails,
           Query, QueryBreaks, QueryFails, Change, ChangeRefused, ChangeFails, Crash
  <2> QED
    BY <2>1, <2>2, <2>3
<1>3. CASE Check(p)
  <2>1. /\ pc[p] = "check" /\ request' = request /\ repoName' = repoName
        /\ pc'[p] = IF HasAccess(p, repoName[p]) THEN Act(p) ELSE "403"
    BY <1>1, <1>3 DEF Check, handler, Goto
  <2>2. pc'[p] # "200"
    BY <2>1 DEF Act
  <2>3. ASSUME pc'[p] = "query"
        PROVE  held'[p] /\ request'[p] \in List /\ repoName'[p] = request'[p].repo
    <3>1. HasAccess(p, repoName[p]) /\ request[p].kind = "list"
      BY <2>1, <2>3 DEF Act
    <3>2. ~KnowsRow(p)
      BY <3>1 DEF KnowsRow, Update
    <3>3. request[p] \in List /\ repoName[p] = request[p].repo
      BY <1>1, <2>1, <3>2 DEF IInv, Phase
    <3>4. MayAct(p)
      BY <3>1, <3>3 DEF MayAct
    <3>5. pc[p] \in Handling
      BY <2>1 DEF Handling
    <3>6. held[p]
      BY <1>1, <3>4, <3>5 DEF IInv, Watched
    <3> QED
      BY <1>1, <2>1, <3>3, <3>6
  <2> QED
    BY <1>2, <2>2, <2>3 DEF Listing
<1>4. CASE Change(p)
  <2>1. pc'[p] \in {"200", "500"} /\ request' = request /\ pc[p] = "change"
    BY <1>1, <1>4 DEF Change, handler, Goto
  <2>2. request[p].kind # "list"
    BY <1>1, <2>1 DEF IInv, Phase, KnowsRow, Update
  <2> QED
    BY <1>2, <2>1, <2>2 DEF Listing
<1>5. CASE TurnAway(p) \/ ReceiveList(p) \/ ReceiveUpdate(p) \/ ReadRow(p) \/ ReadRowFails(p)
  <2>1. pc'[p] \notin {"query", "200"}
    BY <1>1, <1>5 DEF TurnAway, ReceiveList, ReceiveUpdate, ReadRow, ReadRowFails, Goto
  <2> QED
    BY <1>2, <2>1 DEF Listing
<1>6. CASE CheckFails(p) \/ QueryFails(p) \/ ChangeRefused(p) \/ ChangeFails(p) \/ Crash(p)
  <2>1. pc'[p] \notin {"query", "200"}
    BY <1>1, <1>6 DEF CheckFails, QueryFails, ChangeRefused, ChangeFails, Crash, Goto
  <2> QED
    BY <1>2, <2>1 DEF Listing
<1> QED
  BY <1>3, <1>4, <1>5, <1>6 DEF RequestSteps, Handle

\* The list of a request is not touched by the others.
LEMMA ListedApart ==
    ASSUME ListInv, NEW p \in Requests, RequestSteps(p), NEW q \in Requests, q # p
    PROVE  listed'[q] = listed[q]
<1>1. CASE UNCHANGED listed
  BY <1>1
<1>2. CASE Query(p) \/ QueryBreaks(p)
  <2>1. PICK list : listed' = [listed EXCEPT ![p] = list]
    BY <1>2, QueriesAnswer DEF Answers, ListInv
  <2> QED
    BY <2>1 DEF ListInv, RestTypes
<1> QED
  BY <1>1, <1>2, RequestFrame

\* Nothing is listed at first.
LEMMA ListInit == Init => ListInv
<1> SUFFICES ASSUME Init PROVE ListInv
  OBVIOUS
<1>1. RestTypes
  <2>1. <<>> \in Seq(Id)
    OBVIOUS
  <2> QED
    BY <2>1, ConstantsAssumption DEF Init, RestTypes
<1>2. \A q \in Requests : Listing(q)
  BY DEF Init, Listing
<1> QED
  BY <1>1, <1>2, InitEstablishes DEF ListInv

\* Every step keeps the lists current.
LEMMA ListNext == ListInv /\ [Next]_vars => ListInv'
<1> SUFFICES ASSUME ListInv, [Next]_vars PROVE ListInv'
  OBVIOUS
<1>1. IInv' /\ IInv /\ RestTypes /\ TypeInv'
  BY NextKeeps DEF ListInv, IInv
<1>2. CASE \E i \in Id, r \in Repos, leak \in Leaks : SaveFinding(i, r, leak)
  <2>1. RestTypes' /\ listed' = listed /\ Watch
    BY <1>1, <1>2, OthersKeepTypes
  <2>2. RowsKept /\ \A q \in Requests : Quiet(q)
    BY <1>1, <1>2, SaveFindingKeeps
  <2> QED
    BY <1>1, <2>1, <2>2, QuietKeepsListing DEF ListInv
<1>3. CASE \E u \in Users, r \in Repos : SetWriter(u, r)
  <2>1. RestTypes' /\ listed' = listed /\ Watch
    BY <1>1, <1>3, OthersKeepTypes
  <2>2. RowsKept /\ \A q \in Requests : Quiet(q)
    BY <1>1, <1>3, SetWriterKeeps
  <2> QED
    BY <1>1, <2>1, <2>2, QuietKeepsListing DEF ListInv
<1>4. CASE \E p \in Requests : RequestSteps(p)
  <2>1. PICK p \in Requests : RequestSteps(p)
    BY <1>4
  <2>2. RestTypes'
    BY <1>1, <2>1, RequestKeepsTypes
  <2>3. Listing(p)'
    BY <2>1, QueryListing, OtherListing
  <2>4. ASSUME NEW q \in Requests, q # p PROVE Listing(q)'
    <3>1. Quiet(q) /\ RowsKept /\ Watch
      BY <1>1, <2>1, <2>4, RequestEffects, RequestFrame DEF OnlyOf
    <3>2. listed'[q] = listed[q]
      BY <2>1, <2>4, ListedApart
    <3> QED
      BY <1>1, <3>1, <3>2, QuietKeepsListing
  <2>5. \A q \in Requests : Listing(q)'
    BY <2>3, <2>4
  <2> QED
    BY <1>1, <2>2, <2>5 DEF ListInv
<1>5. CASE UNCHANGED vars
  BY <1>1, <1>5 DEF vars, table, handler, ListInv, RestTypes, Listing, IsCurrentList, Of
<1> QED
  BY <1>2, <1>3, <1>4, <1>5 DEF Next, RequestSteps

\* The lists are always current.
THEOREM ListInvHolds == Spec => []ListInv
  BY ListInit, ListNext, PTL DEF Spec

\* Types, the lists included.
THEOREM TypeCorrect == Spec => []TypeOK
<1>1. ASSUME ListInv PROVE TypeOK
  <2>1. TypeInv /\ RestTypes
    BY <1>1 DEF ListInv, IInv
  <2>2. Range(rows) \subseteq Row
    BY <2>1 DEF TypeInv, Range
  <2>3. ASSUME NEW q \in Requests, pc[q] \in {"check", "query", "change"}
        PROVE  repoName[q] \in Repos
    <3>1. CASE pc[q] = "query" \/ (pc[q] = "check" /\ ~KnowsRow(q))
      <4>1. request[q] \in List /\ repoName[q] = request[q].repo
        BY <1>1, <3>1 DEF ListInv, IInv, Phase, Listing
      <4> QED
        BY <4>1 DEF List
    <3>2. CASE KnowsRow(q)
      BY <2>1, <3>2 DEF KnowsRow, TypeInv, Row
    <3> QED
      BY <1>1, <2>3, <3>1, <3>2 DEF ListInv, IInv, Phase
  <2> QED
    BY <2>1, <2>2, <2>3 DEF TypeOK, TypeInv, RestTypes
<1> QED
  BY <1>1, ListInvHolds, PTL

\* A list is answered to somebody who held the right, shows findings of that
\* repository only, newest first, and all there were, unless a failure hit it.
THEOREM ListIsCurrentHolds == Spec => []ListIsCurrent
<1>1. ASSUME ListInv, NEW q \in Requests, pc[q] = "200", request[q].kind = "list"
      PROVE  /\ held[q]
             /\ Range(listed[q]) \subseteq Of(request[q].repo)
             /\ \A k \in 2..Len(listed[q]) : listed[q][k] < listed[q][k - 1]
             /\ \A i \in since[q] \cap Of(request[q].repo) :
                    \/ i \in Range(listed[q])
                    \/ q \in hit /\ \A j \in Range(listed[q]) : i < j
  <2>1. IsCurrentList(q)
    BY <1>1 DEF ListInv, Listing
  <2>2. \A k \in 2..Len(listed[q]) : listed[q][k] < listed[q][k - 1]
    <3>1. PICK list \in Seq(Id) : list = listed[q]
      BY <1>1 DEF ListInv, RestTypes
    <3>2. Id \subseteq Nat
      BY ConstantsAssumption DEF Id
    <3>3. ASSUME NEW k \in 2..Len(list) PROVE list[k] < list[k - 1]
      <4>1. k - 1 \in DOMAIN list /\ k \in DOMAIN list /\ k - 1 < k
        BY <3>1
      <4>2. list[k - 1] > list[k]
        BY <2>1, <3>1, <4>1 DEF IsCurrentList
      <4>3. list[k - 1] \in Id /\ list[k] \in Id
        BY <3>1, <4>1
      <4> QED
        BY <3>2, <4>2, <4>3
    <3> QED
      BY <3>1, <3>3
  <2> QED
    BY <2>1, <2>2 DEF IsCurrentList
<1>2. ListInv => ListIsCurrent
  BY <1>1 DEF ListIsCurrent
<1> QED
  BY <1>2, ListInvHolds, PTL
=============================================================================
