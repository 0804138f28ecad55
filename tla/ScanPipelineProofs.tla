------------------------- MODULE ScanPipelineProofs -------------------------
(***************************************************************************)
(* Proofs about the scan pipeline, for any pushes, scanners, leaks, faults  *)
(* and bounds.                                                              *)
(***************************************************************************)
EXTENDS ScanPipeline, FiniteSetTheorems, TLAPS

-----------------------------------------------------------------------------
(***************************************************************************)
(* The inductive invariant.                                                 *)
(***************************************************************************)
\* The row of a finding is there, or its insert has returned an error.
Tried(f) == rows[f] > 0 \/ f \in unsaved

\* A scanner has a task while its handler runs; parseReport has tried every
\* finding before the next one; and the handler reaches m.Ack() with an end
\* noted for its task.
Sane(w) ==
    /\ pc[w] \in Working => held[w] # <<>>
    /\ saved[w] < next[w]
    /\ pc[w] \notin {"report", "issue", "ack"} => next[w] = 1
    /\ pc[w] = "report" => \A k \in 1..Leaks : k < next[w] => Tried(<<Current(w), k>>)
    /\ pc[w] \in {"issue", "ack"} => outcome[Current(w)] # {}

IInv ==
    /\ TypeOK
    /\ ReportIsComplete
    /\ \A w \in Workers : Sane(w)
-----------------------------------------------------------------------------
(***************************************************************************)
(* Types, by the parts of the state.                                        *)
(***************************************************************************)
QueueTypes ==
    /\ stream \in Seq(Pushes \cup {Poison}) /\ Len(stream) <= MaxTasks
    /\ accepted \subseteq Pushes

BrokerTypes ==
    /\ consumer \in Workers \cup {Kept, NoConsumer}
    /\ attached \subseteq Workers
    /\ sent \subseteq Queued
    /\ due \subseteq sent
    /\ acked \subseteq sent \ due
    /\ deliveries \in [Task -> 0..MaxDeliveries]

ScannerTypes ==
    /\ held \in [Workers -> Seq(Queued)]
    /\ pc \in [Workers -> {"down", "idle"} \cup Working]
    /\ next \in [Workers -> 1..(Leaks + 1)]
    /\ saved \in [Workers -> 0..Leaks]

ResultTypes ==
    /\ rows \in [Finding -> Nat]
    /\ issues \in [Task -> Nat]
    /\ outcome \in [Task -> SUBSET Ends]
    /\ unsaved \subseteq Finding

LEMMA TypesByPart ==
    ASSUME QueueTypes', BrokerTypes', ScannerTypes', ResultTypes', faults' \in 0..MaxFaults
    PROVE  TypeOK'
BY DEF TypeOK, QueueTypes, BrokerTypes, ScannerTypes, ResultTypes

LEMMA FaultTypes ==
    ASSUME TypeOK, UNCHANGED faults \/ \E kind \in FaultKinds : Fault(kind)
    PROVE  faults' \in 0..MaxFaults
BY ConstantsAssumption DEF TypeOK, Fault

\* The task in a scanner's hands is one of the stream.
LEMMA CurrentQueued ==
    ASSUME TypeOK, NEW w \in Workers, held[w] # <<>>
    PROVE  Current(w) \in Queued /\ Current(w) \in Task
<1>1. held[w] \in Seq(Queued)
  BY DEF TypeOK
<1>2. Current(w) \in Queued
  BY <1>1 DEF Current
<1>3. Len(stream) \in Nat /\ Len(stream) <= MaxTasks /\ MaxTasks \in Nat
  BY ConstantsAssumption DEF TypeOK
<1>4. QED
  BY <1>2, <1>3 DEF Queued, Task

\* A part of the state that rests keeps its types.
LEMMA QueueRests == TypeOK /\ UNCHANGED queue => QueueTypes'
BY DEF TypeOK, QueueTypes, queue

LEMMA BrokerRests == TypeOK /\ UNCHANGED <<queue, broker>> => BrokerTypes'
BY DEF TypeOK, BrokerTypes, queue, broker, Queued

LEMMA ScannerRests == TypeOK /\ UNCHANGED <<queue, scanner>> => ScannerTypes'
BY DEF TypeOK, ScannerTypes, queue, scanner, Queued

LEMMA ResultsRest == TypeOK /\ UNCHANGED results => ResultTypes'
BY DEF TypeOK, ResultTypes, results

\* Publishing extends the stream; positions stay positions.
LEMMA PublishTypes == ASSUME TypeOK, NEW p \in Pushes, Publish(p) \/ PublishFails(p) PROVE TypeOK'
<1>0. "publish" \in FaultKinds
  BY DEF FaultKinds
<1>1. faults' \in 0..MaxFaults
  BY <1>0, FaultTypes DEF Publish, PublishFails
<1>2. ASSUME PublishFails(p) PROVE TypeOK'
  BY <1>1, <1>2, QueueRests, BrokerRests, ScannerRests, ResultsRest, TypesByPart DEF PublishFails
<1>3. ASSUME Publish(p) PROVE TypeOK'
  <2>1. /\ stream' = Append(stream, p) /\ Len(stream) < MaxTasks
        /\ accepted' \subseteq Pushes
        /\ UNCHANGED <<broker, scanner, results>>
    BY <1>3 DEF Publish, TypeOK
  <2>2. stream \in Seq(Pushes \cup {Poison}) /\ MaxTasks \in Nat
    BY ConstantsAssumption DEF TypeOK
  <2>3. stream' \in Seq(Pushes \cup {Poison}) /\ Len(stream') = Len(stream) + 1
    BY <2>1, <2>2
  <2>4. QueueTypes'
    BY <2>1, <2>2, <2>3 DEF QueueTypes
  <2>5. Queued \subseteq Queued'
    BY <2>2, <2>3 DEF Queued
  <2>6. BrokerTypes'
    BY <2>1, <2>5 DEF TypeOK, BrokerTypes, broker
  <2>7. \A s \in Seq(Queued) : s \in Seq(Queued')
    BY <2>5
  <2>8. ScannerTypes'
    BY <2>1, <2>7 DEF TypeOK, ScannerTypes, scanner
  <2>9. QED
    BY <1>1, <2>1, <2>4, <2>6, <2>8, ResultsRest, TypesByPart
<1>4. QED
  BY <1>2, <1>3

LEMMA ScannerLifeTypes ==
    ASSUME TypeOK, NEW w \in Workers, Start(w) \/ Crash(w) \/ Stop(w)
    PROVE  TypeOK'
<1>0. "crash" \in FaultKinds /\ "stop" \in FaultKinds
  BY DEF FaultKinds
<1>1. faults' \in 0..MaxFaults
  BY <1>0, FaultTypes DEF Start, Crash, Stop
<1>2. UNCHANGED queue /\ UNCHANGED results
  BY DEF Start, Crash, Stop, ProcessEnds
<1>3. BrokerTypes'
  <2>1. UNCHANGED Queued
    BY <1>2 DEF queue, Queued
  <2>2. QED
    BY <2>1 DEF TypeOK, BrokerTypes, Start, Attach, CreateConsumer, Crash, Stop, ProcessEnds
<1>4. ScannerTypes'
  <2>1. UNCHANGED Queued
    BY <1>2 DEF queue, Queued
  <2>2. CASE Start(w)
    BY <2>1, <2>2 DEF TypeOK, ScannerTypes, Start, Goto
  <2>3. CASE ProcessEnds(w)
    <3>1. <<>> \in Seq(Queued) /\ 1 \in 1..(Leaks + 1) /\ 0 \in 0..Leaks
      BY ConstantsAssumption
    <3>2. QED
      BY <2>1, <2>3, <3>1 DEF TypeOK, ScannerTypes, ProcessEnds, Goto
  <2>4. QED
    BY <2>2, <2>3 DEF Crash, Stop
<1>5. QED
  BY <1>1, <1>2, <1>3, <1>4, QueueRests, ResultsRest, TypesByPart

LEMMA ConsumerTypes ==
    ASSUME TypeOK, NEW i \in Task,
           \/ \E w \in Workers : Deliver(i, w)
           \/ AckWaitOver(i) \/ AckWaitTooShort(i)
    PROVE  TypeOK'
<1>0. "slow" \in FaultKinds
  BY DEF FaultKinds
<1>1. faults' \in 0..MaxFaults
  BY <1>0, FaultTypes DEF Deliver, AckWaitOver, AckWaitTooShort
<1>2. UNCHANGED queue /\ UNCHANGED results /\ UNCHANGED Queued
  BY DEF Deliver, AckWaitOver, AckWaitTooShort, Redeliver, queue, Queued
<1>3. CASE Redeliver(i)
  <2>1. BrokerTypes'
    BY <1>2, <1>3 DEF TypeOK, BrokerTypes, Redeliver
  <2>2. QED
    BY <1>1, <1>2, <1>3, <2>1, QueueRests, ScannerRests, ResultsRest, TypesByPart DEF Redeliver
<1>4. ASSUME NEW w \in Workers, Deliver(i, w) PROVE TypeOK'
  <2>1. i \in Queued
    BY <1>4 DEF Deliver
  <2>2. deliveries' \in [Task -> 0..MaxDeliveries]
    <3>1. deliveries[i] \in 0..MaxDeliveries /\ deliveries[i] < MaxDeliveries
      BY <1>4 DEF TypeOK, Deliver
    <3>2. deliveries[i] + 1 \in 0..MaxDeliveries
      BY <3>1, ConstantsAssumption
    <3>3. QED
      BY <1>4, <3>2 DEF TypeOK, Deliver
  <2>3. sent' \subseteq Queued /\ due' \subseteq sent' /\ acked' \subseteq sent' \ due'
    BY <1>4, <2>1 DEF TypeOK, Deliver
  <2>4. BrokerTypes'
    BY <1>2, <1>4, <2>2, <2>3 DEF TypeOK, BrokerTypes, Deliver
  <2>5. held' \in [Workers -> Seq(Queued)]
    BY <1>4, <2>1 DEF TypeOK, Deliver
  <2>6. ScannerTypes'
    BY <1>2, <1>4, <2>5 DEF TypeOK, ScannerTypes, Deliver
  <2>7. QED
    BY <1>1, <1>2, <2>4, <2>6, QueueRests, ResultsRest, TypesByPart
<1>5. QED
  BY <1>3, <1>4 DEF AckWaitOver, AckWaitTooShort

\* The pieces that handler steps are made of.
LEMMA EndHandlerTypes ==
    ASSUME TypeOK, NEW w \in Workers, held[w] # <<>>, EndHandler(w), UNCHANGED queue
    PROVE  ScannerTypes'
<1>1. UNCHANGED Queued
  BY DEF queue, Queued
<1>2. held[w] \in Seq(Queued)
  BY DEF TypeOK
<1>3. Tail(held[w]) \in Seq(Queued)
  BY <1>2
<1>4. 1 \in 1..(Leaks + 1) /\ 0 \in 0..Leaks
  BY ConstantsAssumption
<1>5. QED
  BY <1>1, <1>3, <1>4 DEF TypeOK, ScannerTypes, EndHandler, Goto

LEMMA GotoTypes ==
    ASSUME TypeOK, NEW w \in Workers, NEW label \in Working,
           Goto(w, label), UNCHANGED <<queue, held, next, saved>>
    PROVE  ScannerTypes'
<1>1. UNCHANGED Queued
  BY DEF queue, Queued
<1>2. QED
  BY <1>1 DEF TypeOK, ScannerTypes, Goto

LEMMA EndedTypes ==
    ASSUME TypeOK, NEW w \in Workers, held[w] # <<>>, NEW end \in Ends, Ended(w, end)
    PROVE  ResultTypes'
<1>1. Current(w) \in Task
  BY CurrentQueued
<1>2. QED
  BY <1>1 DEF TypeOK, ResultTypes, Ended

\* The steps up to the report, and the ends of a handler.
LEMMA CloneAndScanTypes ==
    ASSUME TypeOK, NEW w \in Workers, Sane(w),
           \/ Begin(w) \/ Clone(w) \/ CloneFails(w, "gone") \/ CloneFails(w, "network")
           \/ ScanClean(w) \/ ScanLeaks(w)
           \/ ScanFails(w, "report", "unreadable") \/ ScanFails(w, "engine", "engine")
    PROVE  TypeOK'
<1>0. UNCHANGED queue /\ UNCHANGED broker /\ held[w] # <<>>
  BY DEF Sane, Working, Begin, Clone, CloneFails, ScanClean, ScanLeaks, ScanFails
<1>1. faults' \in 0..MaxFaults
  <2>1. {"gone", "network", "report", "engine"} \subseteq FaultKinds
    BY DEF FaultKinds
  <2>2. QED
    BY <2>1, FaultTypes DEF Begin, Clone, CloneFails, ScanClean, ScanLeaks, ScanFails
<1>2. ScannerTypes'
  <2>1. PICK label \in {"clone", "scan", "report", "ack"} : Goto(w, label)
    BY DEF Begin, Clone, CloneFails, ScanClean, ScanLeaks, ScanFails
  <2>2. label \in Working
    BY DEF Working
  <2>3. UNCHANGED <<queue, held, next, saved>>
    BY DEF Begin, Clone, CloneFails, ScanClean, ScanLeaks, ScanFails
  <2>4. QED
    BY <2>1, <2>2, <2>3, GotoTypes
<1>3. ResultTypes'
  <2>1. \/ UNCHANGED results
        \/ \E end \in {"poison", "gone", "network", "clean", "unreadable", "engine"} :
               Ended(w, end)
    BY DEF Begin, Clone, CloneFails, ScanClean, ScanLeaks, ScanFails
  <2>2. {"poison", "gone", "network", "clean", "unreadable", "engine"} \subseteq Ends
    BY DEF Ends
  <2>3. QED
    BY <1>0, <2>1, <2>2, ResultsRest, EndedTypes
<1>4. QED
  BY <1>0, <1>1, <1>2, <1>3, QueueRests, BrokerRests, TypesByPart

LEMMA ReportTypes ==
    ASSUME TypeOK, NEW w \in Workers, Sane(w), SaveFinding(w) \/ SaveFails(w)
    PROVE  TypeOK'
<1>0. /\ UNCHANGED queue /\ UNCHANGED broker /\ UNCHANGED <<held, pc, Queued>>
      /\ held[w] # <<>>
  BY DEF Sane, Working, SaveFinding, SaveFails, queue, Queued
<1>1. faults' \in 0..MaxFaults
  <2>1. "db" \in FaultKinds
    BY DEF FaultKinds
  <2>2. QED
    BY <2>1, FaultTypes DEF SaveFinding, SaveFails
<1>2. /\ next[w] \in 1..Leaks /\ Leaks \in Nat
      /\ saved[w] \in Nat /\ saved[w] < next[w]
  BY ConstantsAssumption DEF TypeOK, Sane, SaveFinding, SaveFails
<1>3. next[w] + 1 \in 1..(Leaks + 1) /\ saved[w] + 1 \in 0..Leaks
  BY <1>2
<1>4. ScannerTypes'
  BY <1>0, <1>3 DEF TypeOK, ScannerTypes, SaveFinding, SaveFails
<1>5. FindingOf(w) \in Finding
  BY <1>0, <1>2, CurrentQueued DEF FindingOf, Finding
<1>6. rows[FindingOf(w)] + 1 \in Nat
  BY <1>5 DEF TypeOK
<1>7. [rows EXCEPT ![FindingOf(w)] = @ + 1] \in [Finding -> Nat]
  BY <1>6 DEF TypeOK
<1>8. ResultTypes'
  BY <1>5, <1>7 DEF TypeOK, ResultTypes, SaveFinding, SaveFails
<1>9. QED
  BY <1>0, <1>1, <1>4, <1>8, QueueRests, BrokerRests, TypesByPart

LEMMA IssueTypes ==
    ASSUME TypeOK, NEW w \in Workers, Sane(w),
           EndReport(w) \/ CreateIssue(w) \/ CreateIssueFails(w)
    PROVE  TypeOK'
<1>0. UNCHANGED queue /\ UNCHANGED broker /\ held[w] # <<>>
  BY DEF Sane, Working, EndReport, CreateIssue, CreateIssueFails
<1>1. faults' \in 0..MaxFaults
  <2>1. "github" \in FaultKinds
    BY DEF FaultKinds
  <2>2. QED
    BY <2>1, FaultTypes DEF EndReport, CreateIssue, CreateIssueFails
<1>2. ScannerTypes'
  <2>1. Goto(w, "issue") \/ Goto(w, "ack")
    BY DEF EndReport, CreateIssue, CreateIssueFails
  <2>2. "issue" \in Working /\ "ack" \in Working
    BY DEF Working
  <2>3. UNCHANGED <<queue, held, next, saved>>
    BY DEF EndReport, CreateIssue, CreateIssueFails
  <2>4. QED
    BY <2>1, <2>2, <2>3, GotoTypes
<1>3. ResultTypes'
  <2>1. CASE EndReport(w)
    BY <1>0, <2>1, EndedTypes DEF EndReport, Ends
  <2>2. CASE CreateIssue(w) \/ CreateIssueFails(w)
    <3>1. Current(w) \in Task
      BY <1>0, CurrentQueued
    <3>2. issues[Current(w)] + 1 \in Nat
      BY <3>1 DEF TypeOK
    <3>3. [issues EXCEPT ![Current(w)] = @ + 1] \in [Task -> Nat]
      BY <3>2 DEF TypeOK
    <3>4. QED
      BY <2>2, <3>3 DEF TypeOK, ResultTypes, CreateIssue, CreateIssueFails
  <2>3. QED
    BY <2>1, <2>2
<1>4. QED
  BY <1>0, <1>1, <1>2, <1>3, QueueRests, BrokerRests, TypesByPart

LEMMA AckTypes ==
    ASSUME TypeOK, NEW w \in Workers, Sane(w), MkdirFails(w) \/ Ack(w) \/ AckLost(w)
    PROVE  TypeOK'
<1>0. /\ UNCHANGED queue /\ UNCHANGED results /\ UNCHANGED Queued
      /\ held[w] # <<>> /\ EndHandler(w)
  BY DEF Sane, Working, MkdirFails, Ack, AckLost, queue, Queued
<1>1. faults' \in 0..MaxFaults
  <2>1. "mkdir" \in FaultKinds /\ "ack" \in FaultKinds
    BY DEF FaultKinds
  <2>2. QED
    BY <2>1, FaultTypes DEF MkdirFails, Ack, AckLost
<1>2. BrokerTypes'
  BY <1>0 DEF TypeOK, BrokerTypes, MkdirFails, Ack, AckLost, broker
<1>3. QED
  BY <1>0, <1>1, <1>2, QueueRests, EndHandlerTypes, ResultsRest, TypesByPart

LEMMA TypeStep == IInv /\ [Next]_vars => TypeOK'
<1> SUFFICES ASSUME TypeOK, \A w \in Workers : Sane(w), [Next]_vars PROVE TypeOK'
  BY DEF IInv
<1>1. CASE UNCHANGED vars
  <2>1. UNCHANGED queue /\ UNCHANGED broker /\ UNCHANGED scanner /\ UNCHANGED results
    BY <1>1 DEF vars
  <2>2. faults' \in 0..MaxFaults
    BY <1>1 DEF vars, TypeOK
  <2>3. QED
    BY <2>1, <2>2, QueueRests, BrokerRests, ScannerRests, ResultsRest, TypesByPart
<1>2. ASSUME NEW w \in Workers, Handle(w) PROVE TypeOK'
  BY <1>2, CloneAndScanTypes, ReportTypes, IssueTypes, AckTypes DEF Handle
<1>3. QED
  BY <1>1, <1>2, PublishTypes, ScannerLifeTypes, ConsumerTypes DEF Next
-----------------------------------------------------------------------------
(***************************************************************************)
(* Results are only added to.                                               *)
(***************************************************************************)
ResultsGrow ==
    /\ \A f \in Finding : Tried(f) => Tried(f)'
    /\ \A i \in Task : outcome[i] \subseteq outcome'[i]

LEMMA ResultsRestGrow == UNCHANGED results => ResultsGrow
BY DEF results, ResultsGrow, Tried

LEMMA EndedGrows ==
    ASSUME TypeOK, NEW w \in Workers, NEW end, Ended(w, end)
    PROVE  ResultsGrow
BY DEF TypeOK, Ended, ResultsGrow, Tried

LEMMA SaveGrows ==
    ASSUME TypeOK, NEW w \in Workers, Sane(w), SaveFinding(w) \/ SaveFails(w)
    PROVE  /\ ResultsGrow
           /\ \A f \in Finding : f = FindingOf(w) => Tried(f)'
<1>1. FindingOf(w) \in Finding
  <2>1. held[w] # <<>>
    BY DEF Sane, Working, SaveFinding, SaveFails
  <2>2. next[w] \in 1..Leaks
    BY ConstantsAssumption DEF TypeOK, SaveFinding, SaveFails
  <2>3. QED
    BY <2>1, <2>2, CurrentQueued DEF FindingOf, Finding
<1>2. \A f \in Finding : rows[f] \in Nat
  BY DEF TypeOK
<1>3. rows' \in {rows, [rows EXCEPT ![FindingOf(w)] = @ + 1]}
  BY DEF SaveFinding, SaveFails
<1>4. \A f \in Finding : rows'[f] \in {rows[f], rows[f] + 1}
  BY <1>3 DEF TypeOK
<1>5. \A f \in Finding : rows[f] > 0 => rows'[f] > 0
  BY <1>2, <1>4
<1>6. unsaved \subseteq unsaved' /\ UNCHANGED outcome
  BY DEF SaveFinding, SaveFails
<1>7. ResultsGrow
  BY <1>5, <1>6 DEF ResultsGrow, Tried
<1>8. CASE SaveFinding(w)
  <2>1. rows'[FindingOf(w)] = rows[FindingOf(w)] + 1
    BY <1>1, <1>8 DEF TypeOK, SaveFinding
  <2>2. rows'[FindingOf(w)] > 0
    BY <1>1, <1>2, <2>1
  <2>3. QED
    BY <1>7, <2>2 DEF Tried
<1>9. CASE SaveFails(w)
  BY <1>7, <1>9 DEF SaveFails, Tried
<1>10. QED
  BY <1>8, <1>9

LEMMA StepGrows == ASSUME IInv, [Next]_vars PROVE ResultsGrow
<1>0. TypeOK /\ \A w \in Workers : Sane(w)
  BY DEF IInv
<1>1. ASSUME NEW w \in Workers, Handle(w) PROVE ResultsGrow
  <2>1. CASE SaveFinding(w) \/ SaveFails(w)
    BY <1>0, <2>1, SaveGrows
  <2>2. CASE CreateIssue(w) \/ CreateIssueFails(w)
    BY <2>2 DEF CreateIssue, CreateIssueFails, ResultsGrow, Tried
  <2>3. CASE ~(SaveFinding(w) \/ SaveFails(w) \/ CreateIssue(w) \/ CreateIssueFails(w))
    <3>1. UNCHANGED results \/ \E end \in Ends : Ended(w, end)
      BY <1>1, <2>3 DEF Handle, Begin, MkdirFails, Clone, CloneFails, ScanClean, ScanLeaks,
                        ScanFails, EndReport, Ack, AckLost, Ends
    <3>2. QED
      BY <1>0, <3>1, ResultsRestGrow, EndedGrows
  <2>4. QED
    BY <2>1, <2>2, <2>3
<1>2. CASE ~ \E w \in Workers : Handle(w)
  <2>1. UNCHANGED results
    BY <1>2 DEF Next, vars, Publish, PublishFails, Start, Crash, Stop, ProcessEnds, Deliver,
                AckWaitOver, AckWaitTooShort, Redeliver
  <2>2. QED
    BY <2>1, ResultsRestGrow
<1>3. QED
  BY <1>1, <1>2
-----------------------------------------------------------------------------
(***************************************************************************)
(* Every scanner stays sane.                                                *)
(***************************************************************************)
\* A step that leaves a scanner's handler alone; it may get another task.
Quiet(w) ==
    /\ pc'[w] = pc[w] /\ next'[w] = next[w] /\ saved'[w] = saved[w]
    /\ held'[w] = held[w] \/ \E i \in Queued : held'[w] = Append(held[w], i)

LEMMA QuietKeeps ==
    ASSUME TypeOK, NEW w \in Workers, Sane(w), Quiet(w), ResultsGrow
    PROVE  Sane(w)'
<1>1. held[w] \in Seq(Queued)
  BY DEF TypeOK
<1>2. held[w] # <<>> => held'[w] # <<>> /\ held'[w][1] = held[w][1]
  <2>1. ASSUME NEW i \in Queued, held[w] # <<>>
        PROVE  Append(held[w], i) # <<>> /\ Append(held[w], i)[1] = held[w][1]
    BY <1>1, <2>1
  <2>2. QED
    BY <2>1 DEF Quiet
<1>3. held[w] # <<>> => Current(w) \in Task /\ Current(w)' = Current(w)
  BY <1>2, CurrentQueued DEF Current
<1>4. pc[w] \in Working => held[w] # <<>> /\ held'[w] # <<>>
  BY <1>2 DEF Sane
<1>5. pc[w] = "report" => \A k \in 1..Leaks : k < next[w] => Tried(<<Current(w), k>>)'
  <2>1. ASSUME pc[w] = "report", NEW k \in 1..Leaks, k < next[w]
        PROVE  Tried(<<Current(w), k>>)'
    <3>1. <<Current(w), k>> \in Finding /\ Tried(<<Current(w), k>>)
      BY <1>3, <1>4, <2>1 DEF Sane, Working, Finding
    <3>2. Current(w)' = Current(w)
      BY <1>3, <1>4, <2>1 DEF Working
    <3>3. QED
      BY <3>1, <3>2 DEF ResultsGrow, Tried
  <2>2. QED
    BY <2>1
<1>6. pc[w] \in {"issue", "ack"} => outcome'[Current(w)'] # {}
  BY <1>3, <1>4 DEF Sane, Working, ResultsGrow
<1>7. QED
  BY <1>4, <1>5, <1>6 DEF Sane, Quiet

LEMMA OthersAreQuiet ==
    ASSUME TypeOK, NEW v \in Workers, NEW w \in Workers \ {v},
           Start(v) \/ Crash(v) \/ Stop(v) \/ Handle(v)
    PROVE  Quiet(w)
BY DEF TypeOK, Quiet, Start, Crash, Stop, ProcessEnds, Handle, Begin, MkdirFails, Clone,
       CloneFails, ScanClean, ScanLeaks, ScanFails, SaveFinding, SaveFails, EndReport,
       CreateIssue, CreateIssueFails, Ack, AckLost, EndHandler, Goto

\* A scanner starts, stops or is through with a task: a handler begins anew.
LEMMA ResetIsSane ==
    ASSUME TypeOK, NEW w \in Workers, Sane(w),
           Start(w) \/ Crash(w) \/ Stop(w) \/ MkdirFails(w) \/ Ack(w) \/ AckLost(w)
    PROVE  Sane(w)'
<1>1. pc'[w] \in {"idle", "down"}
  BY DEF TypeOK, Start, Crash, Stop, ProcessEnds, MkdirFails, Ack, AckLost, EndHandler, Goto
<1>2. next'[w] = 1 /\ saved'[w] < next'[w]
  <2>1. CASE Start(w)
    BY <2>1 DEF Sane, Start
  <2>2. CASE ~Start(w)
    BY <2>2 DEF TypeOK, Crash, Stop, ProcessEnds, MkdirFails, Ack, AckLost, EndHandler
  <2>3. QED
    BY <2>1, <2>2
<1>3. QED
  BY <1>1, <1>2 DEF Sane, Working

\* A handler moves on with its task.
LEMMA CloneAndScanSane ==
    ASSUME TypeOK, NEW w \in Workers, Sane(w),
           \/ Begin(w) \/ Clone(w) \/ CloneFails(w, "gone") \/ CloneFails(w, "network")
           \/ ScanClean(w) \/ ScanLeaks(w)
           \/ ScanFails(w, "report", "unreadable") \/ ScanFails(w, "engine", "engine")
    PROVE  Sane(w)'
<1>1. /\ UNCHANGED <<held, next, saved>> /\ held[w] # <<>>
      /\ next[w] = 1 /\ saved[w] < next[w]
  BY DEF Sane, Working, Begin, Clone, CloneFails, ScanClean, ScanLeaks, ScanFails
<1>2. PICK label \in {"clone", "scan", "report", "ack"} :
          /\ Goto(w, label)
          /\ label = "ack" => \E end \in Ends : Ended(w, end)
  BY DEF Begin, Clone, CloneFails, ScanClean, ScanLeaks, ScanFails, Goto, Ends
<1>3. pc'[w] = label
  BY <1>2 DEF TypeOK, Goto
<1>4. Current(w) \in Task /\ Current(w)' = Current(w)
  BY <1>1, CurrentQueued DEF Current
<1>5. label = "ack" => outcome'[Current(w)] # {}
  BY <1>2, <1>4 DEF TypeOK, Ended
<1>6. \A k \in 1..Leaks : ~ (k < next'[w])
  BY <1>1
<1>7. QED
  BY <1>1, <1>3, <1>4, <1>5, <1>6 DEF Sane

LEMMA ReportSane ==
    ASSUME TypeOK, NEW w \in Workers, Sane(w), SaveFinding(w) \/ SaveFails(w)
    PROVE  Sane(w)'
<1>1. /\ pc[w] = "report" /\ held[w] # <<>>
      /\ UNCHANGED <<pc, held>>
  BY DEF Sane, Working, SaveFinding, SaveFails
<1>2. /\ next[w] \in Nat /\ saved[w] \in Nat /\ saved[w] < next[w]
      /\ next'[w] = next[w] + 1
      /\ saved'[w] \in {saved[w], saved[w] + 1}
  BY DEF TypeOK, Sane, SaveFinding, SaveFails
<1>3. saved'[w] < next'[w]
  BY <1>2
<1>4. Current(w) \in Task /\ Current(w)' = Current(w)
  BY <1>1, CurrentQueued DEF Current
<1>5. ASSUME NEW k \in 1..Leaks, k < next'[w] PROVE Tried(<<Current(w), k>>)'
  <2>1. <<Current(w), k>> \in Finding
    BY <1>4 DEF Finding
  <2>2. CASE k < next[w]
    <3>1. Tried(<<Current(w), k>>)
      BY <1>1, <2>2 DEF Sane
    <3>2. QED
      BY <1>4, <2>1, <3>1, SaveGrows DEF ResultsGrow, Tried
  <2>3. CASE k = next[w]
    BY <1>4, <2>1, <2>3, SaveGrows DEF FindingOf, Tried
  <2>4. QED
    BY <1>2, <1>5, <2>2, <2>3
<1>6. QED
  BY <1>1, <1>3, <1>5 DEF Sane, Working

LEMMA IssueSane ==
    ASSUME TypeOK, NEW w \in Workers, Sane(w),
           EndReport(w) \/ CreateIssue(w) \/ CreateIssueFails(w)
    PROVE  Sane(w)'
<1>1. UNCHANGED <<held, next, saved>> /\ held[w] # <<>> /\ saved[w] < next[w]
  BY DEF Sane, Working, EndReport, CreateIssue, CreateIssueFails
<1>2. pc'[w] \in {"issue", "ack"}
  BY DEF TypeOK, EndReport, CreateIssue, CreateIssueFails, Goto
<1>3. Current(w) \in Task /\ Current(w)' = Current(w)
  BY <1>1, CurrentQueued DEF Current
<1>4. outcome'[Current(w)] # {}
  BY <1>3 DEF TypeOK, Sane, EndReport, Ended, CreateIssue, CreateIssueFails
<1>5. QED
  BY <1>1, <1>2, <1>3, <1>4 DEF Sane, Working

LEMMA SaneStep == ASSUME IInv, [Next]_vars, NEW w \in Workers PROVE Sane(w)'
<1>0. TypeOK /\ Sane(w)
  BY DEF IInv
<1>1. ASSUME Quiet(w) PROVE Sane(w)'
  BY <1>0, <1>1, QuietKeeps, StepGrows
<1>2. CASE UNCHANGED scanner
  BY <1>1, <1>2 DEF Quiet, scanner
<1>3. ASSUME NEW v \in Workers, Start(v) \/ Crash(v) \/ Stop(v) \/ Handle(v)
      PROVE  Sane(w)'
  <2>1. CASE v # w
    BY <1>0, <1>1, <1>3, <2>1, OthersAreQuiet
  <2>2. CASE v = w
    BY <1>0, <1>3, <2>2, ResetIsSane, CloneAndScanSane, ReportSane, IssueSane DEF Handle
  <2>3. QED
    BY <2>1, <2>2
<1>4. ASSUME NEW i \in Task, NEW v \in Workers, Deliver(i, v) PROVE Sane(w)'
  <2>1. Quiet(w)
    BY <1>0, <1>4 DEF TypeOK, Quiet, Deliver
  <2>2. QED
    BY <1>1, <2>1
<1>5. ASSUME NEW p \in Pushes, Publish(p) \/ PublishFails(p) PROVE UNCHANGED scanner
  BY <1>5 DEF Publish, PublishFails
<1>6. ASSUME NEW i \in Task, AckWaitOver(i) \/ AckWaitTooShort(i) PROVE UNCHANGED scanner
  BY <1>6 DEF AckWaitOver, AckWaitTooShort, Redeliver
<1>7. CASE UNCHANGED vars
  BY <1>2, <1>7 DEF vars
<1>8. QED
  BY <1>2, <1>3, <1>4, <1>5, <1>6, <1>7 DEF Next
-----------------------------------------------------------------------------
(***************************************************************************)
(* The invariant holds always.                                              *)
(***************************************************************************)
\* Only the end of parseReport reports a task.
LEMMA OnlyEndReports ==
    ASSUME IInv, [Next]_vars, NEW i \in Task,
           "reported" \in outcome'[i], "reported" \notin outcome[i]
    PROVE  \E w \in Workers : EndReport(w) /\ Current(w) = i
<1>0. TypeOK
  BY DEF IInv
<1>1. PICK w \in Workers : Handle(w)
  BY DEF Next, vars, results, Publish, PublishFails, Start, Crash, Stop, ProcessEnds, Deliver,
         AckWaitOver, AckWaitTooShort, Redeliver
<1>2. ASSUME NEW end \in Ends \ {"reported"} PROVE ~Ended(w, end)
  <2>1. SUFFICES ASSUME Ended(w, end) PROVE FALSE
    OBVIOUS
  <2>2. outcome' = [outcome EXCEPT ![Current(w)] = @ \cup {end}]
    BY <2>1 DEF Ended
  <2>3. outcome'[i] = outcome[i] \/ outcome'[i] = outcome[i] \cup {end}
    BY <1>0, <2>2 DEF TypeOK
  <2>4. QED
    BY <1>2, <2>3
<1>3. EndReport(w)
  <2>1. outcome' # outcome
    OBVIOUS
  <2>2. {"poison", "gone", "network", "clean", "unreadable", "engine"} \subseteq Ends \ {"reported"}
    BY DEF Ends
  <2>3. QED
    BY <1>1, <1>2, <2>1, <2>2
       DEF Handle, Begin, MkdirFails, Clone, CloneFails, ScanClean, ScanLeaks, ScanFails,
           SaveFinding, SaveFails, CreateIssue, CreateIssueFails, Ack, AckLost, results
<1>4. Current(w) = i
  BY <1>0, <1>3 DEF TypeOK, EndReport, Ended
<1>5. QED
  BY <1>3, <1>4

LEMMA ReportIsCompleteStep == ASSUME IInv, [Next]_vars PROVE ReportIsComplete'
<1> SUFFICES ASSUME NEW f \in Finding, "reported" \in outcome'[f[1]]
             PROVE  Tried(f)'
  BY DEF ReportIsComplete, Tried
<1>1. f[1] \in Task /\ f[2] \in 1..Leaks /\ f = <<f[1], f[2]>>
  BY DEF Finding
<1>2. Tried(f)
  <2>1. CASE "reported" \in outcome[f[1]]
    BY <2>1 DEF IInv, ReportIsComplete, Tried
  <2>2. CASE "reported" \notin outcome[f[1]]
    <3>1. PICK w \in Workers : EndReport(w) /\ Current(w) = f[1]
      BY <1>1, <2>2, OnlyEndReports
    <3>2. pc[w] = "report" /\ next[w] > Leaks
      BY <3>1 DEF EndReport
    <3>3. \A k \in 1..Leaks : k < next[w] => Tried(<<Current(w), k>>)
      BY <3>2 DEF IInv, Sane
    <3>4. f[2] < next[w]
      <4>1. f[2] \in Nat /\ f[2] <= Leaks /\ Leaks \in Nat /\ next[w] \in Nat
        BY <1>1, ConstantsAssumption DEF IInv, TypeOK
      <4>2. QED
        BY <3>2, <4>1
    <3>5. Tried(<<f[1], f[2]>>)
      BY <1>1, <3>1, <3>3, <3>4
    <3>6. QED
      BY <1>1, <3>5
  <2>3. QED
    BY <2>1, <2>2
<1>3. QED
  BY <1>2, StepGrows DEF ResultsGrow

LEMMA InitEstablishes == Init => IInv
<1> SUFFICES ASSUME Init PROVE IInv
  OBVIOUS
<1>1. TypeOK
  <2>1. /\ MaxTasks \in Nat \ {0} /\ MaxDeliveries \in Nat /\ MaxFaults \in Nat
        /\ 1 \in 1..(Leaks + 1) /\ 0 \in 0..Leaks
    BY ConstantsAssumption
  <2>2. /\ <<>> \in Seq(Pushes \cup {Poison}) /\ Len(<<>>) = 0
        /\ <<Poison>> \in Seq(Pushes \cup {Poison}) /\ Len(<<Poison>>) = 1
    OBVIOUS
  <2>3. stream \in Seq(Pushes \cup {Poison}) /\ Len(stream) <= MaxTasks
    <3>1. stream = <<>> \/ stream = <<Poison>>
      BY DEF Init
    <3>2. CASE stream = <<>>
      <4>1. Len(stream) = 0
        BY <3>2
      <4>2. stream \in Seq(Pushes \cup {Poison})
        BY <2>2, <3>2, Zenon
      <4>3. QED
        BY <2>1, <4>1, <4>2
    <3>3. CASE stream = <<Poison>>
      <4>1. Len(stream) = 1
        BY <3>3
      <4>2. stream \in Seq(Pushes \cup {Poison})
        BY <2>2, <3>3, Zenon
      <4>3. QED
        BY <2>1, <4>1, <4>2
    <3>4. QED
      BY <3>1, <3>2, <3>3
  <2>4. <<>> \in Seq(Queued)
    OBVIOUS
  <2>5. QED
    BY <2>1, <2>3, <2>4 DEF Init, TypeOK
<1>2. ReportIsComplete
  BY DEF Init, ReportIsComplete, Finding
<1>3. \A w \in Workers : Sane(w)
  BY DEF Init, Sane, Working
<1>4. QED
  BY <1>1, <1>2, <1>3 DEF IInv

LEMMA NextKeeps == IInv /\ [Next]_vars => IInv'
BY TypeStep, ReportIsCompleteStep, SaneStep DEF IInv

\* The invariant holds always: no handler runs without a task, none reaches
\* m.Ack() without an end, and parseReport leaves no finding behind.
THEOREM InvariantHolds == Spec => []IInv
BY InitEstablishes, NextKeeps, PTL DEF Spec
-----------------------------------------------------------------------------
\* Type correctness; in particular savedCount never exceeds the findings, and
\* what is acknowledged is neither undelivered nor due.
THEOREM TypeCorrect == Spec => []TypeOK
<1>1. IInv => TypeOK
  BY DEF IInv
<1>2. QED
  BY <1>1, InvariantHolds, PTL

\* A handled report has a row for every finding whose insert did not fail, even
\* if a scanner died in the middle of it and others handled the task again.
THEOREM ReportIsCompleteHolds == Spec => []ReportIsComplete
<1>1. IInv => ReportIsComplete
  BY DEF IInv
<1>2. QED
  BY <1>1, InvariantHolds, PTL
-----------------------------------------------------------------------------
(***************************************************************************)
(* Stream, consumers and scanners implement the abstract queue.             *)
(***************************************************************************)
Through == {i \in Task : outcome[i] # {}}

LEMMA QueueInit == Init => Queue!Init
BY DEF Init, Queue!Init

\* An end of a handler is the abstract queue's handling of its task.
LEMMA EndedHandles ==
    ASSUME TypeOK, NEW w \in Workers, held[w] # <<>>, NEW end, Ended(w, end),
           UNCHANGED <<stream, acked>>
    PROVE  Queue!Next
<1>1. Current(w) \in Task /\ Current(w) \in 1..Len(stream)
  BY CurrentQueued DEF Queued
<1>2. outcome' = [outcome EXCEPT ![Current(w)] = @ \cup {end}]
  BY DEF Ended
<1>3. Through' = Through \cup {Current(w)}
  BY <1>1, <1>2 DEF TypeOK, Through
<1>4. ASSUME NEW i \in 1..Len(stream), i = Current(w) PROVE Queue!Handle(i)
  BY <1>3, <1>4 DEF Queue!Handle, Through
<1>5. QED
  BY <1>1, <1>4 DEF Queue!Next

\* An acknowledgement retires a task that is handled, or does nothing if the
\* present consumer has not delivered it.
LEMMA AckRetires ==
    ASSUME TypeOK, NEW w \in Workers, Sane(w), Ack(w)
    PROVE  [Queue!Next]_<<stream, Through, acked>>
<1>1. held[w] # <<>> /\ outcome[Current(w)] # {}
  BY DEF Ack, Sane, Working
<1>2. Current(w) \in Through /\ Current(w) \in 1..Len(stream)
  BY <1>1, CurrentQueued DEF Through, Queued
<1>3. UNCHANGED <<stream, outcome>> /\ UNCHANGED Through
  BY DEF Ack, queue, results, Through
<1>4. CASE Current(w) \in sent
  <2>1. acked' = acked \cup {Current(w)}
    BY <1>4 DEF Ack
  <2>2. Queue!Retire(Current(w))
    BY <1>2, <1>3, <2>1 DEF Queue!Retire, Through
  <2>3. QED
    BY <1>2, <2>2 DEF Queue!Next
<1>5. CASE Current(w) \notin sent
  <2>1. acked' = acked
    BY <1>5 DEF Ack
  <2>2. QED
    BY <1>3, <2>1
<1>6. QED
  BY <1>4, <1>5

LEMMA QueueStep == IInv /\ [Next]_vars => [Queue!Next]_<<stream, Through, acked>>
<1> SUFFICES ASSUME IInv, [Next]_vars PROVE [Queue!Next]_<<stream, Through, acked>>
  OBVIOUS
<1>0. TypeOK /\ \A w \in Workers : Sane(w)
  BY DEF IInv
<1>1. ASSUME UNCHANGED <<stream, outcome, acked>>
      PROVE  UNCHANGED <<stream, Through, acked>>
  BY <1>1 DEF Through
<1>2. ASSUME NEW p \in Pushes, Publish(p) PROVE Queue!Next
  <2>1. stream' = Append(stream, p) /\ UNCHANGED <<outcome, acked>>
    BY <1>2 DEF Publish, broker, results
  <2>2. Queue!Add(p)
    BY <2>1 DEF Queue!Add
  <2>3. QED
    BY <2>2 DEF Queue!Next
<1>3. ASSUME NEW w \in Workers, Start(w) PROVE [Queue!Next]_<<stream, Through, acked>>
  <2>1. UNCHANGED <<stream, outcome>>
    BY <1>3 DEF Start, queue, results
  <2>2. CASE Attach(w)
    BY <1>1, <2>1, <2>2 DEF Attach
  <2>3. CASE CreateConsumer(w)
    <3>1. Queue!Restart
      BY <2>1, <2>3 DEF CreateConsumer, Queue!Restart
    <3>2. QED
      BY <3>1 DEF Queue!Next
  <2>4. QED
    BY <1>3, <2>2, <2>3 DEF Start
<1>4. ASSUME NEW w \in Workers, Handle(w), ~Ack(w)
      PROVE  [Queue!Next]_<<stream, Through, acked>>
  <2>1. UNCHANGED <<stream, acked>>
    BY <1>4 DEF Handle, Begin, MkdirFails, Clone, CloneFails, ScanClean, ScanLeaks, ScanFails,
           SaveFinding, SaveFails, EndReport, CreateIssue, CreateIssueFails, AckLost, queue, broker
  <2>2. held[w] # <<>>
    BY <1>0, <1>4 DEF Sane, Working, Handle, Begin, MkdirFails, Clone, CloneFails, ScanClean,
           ScanLeaks, ScanFails, SaveFinding, SaveFails, EndReport, CreateIssue,
           CreateIssueFails, AckLost
  <2>3. UNCHANGED outcome \/ \E end \in Ends : Ended(w, end)
    BY <1>4 DEF Handle, Begin, MkdirFails, Clone, CloneFails, ScanClean, ScanLeaks, ScanFails,
           SaveFinding, SaveFails, EndReport, CreateIssue, CreateIssueFails, AckLost, results, Ends
  <2>4. QED
    BY <1>0, <1>1, <2>1, <2>2, <2>3, EndedHandles
<1>5. ASSUME \/ \E p \in Pushes : PublishFails(p)
             \/ \E w \in Workers : Crash(w) \/ Stop(w)
             \/ \E i \in Task, w \in Workers : Deliver(i, w)
             \/ \E i \in Task : AckWaitOver(i) \/ AckWaitTooShort(i)
             \/ UNCHANGED vars
      PROVE  UNCHANGED <<stream, outcome, acked>>
  BY <1>5 DEF PublishFails, Crash, Stop, ProcessEnds, Deliver, AckWaitOver, AckWaitTooShort,
              Redeliver, vars, queue, broker, results
<1>6. QED
  BY <1>0, <1>1, <1>2, <1>3, <1>4, <1>5, AckRetires DEF Next

\* The stream loses and reorders nothing, and a task is retired only after some
\* handler has come to an end with it, whatever crashes, stops or is delivered
\* twice: m.Ack() is the last thing a handler does.
THEOREM ImplementsQueueHolds == Spec => ImplementsQueue
<1>1. IInv /\ [Next]_vars => [Queue!Next]_(Queue!vars)
  BY QueueStep DEF Queue!vars, Through
<1>2. QED
  BY <1>1, QueueInit, InvariantHolds, PTL DEF Spec, ImplementsQueue, Queue!Spec
-----------------------------------------------------------------------------
(***************************************************************************)
(* What a delivery pays for: one attempt at each finding of the task and at *)
(* its issue.  The invariant counts the attempts that are still to come.    *)
(***************************************************************************)
\* The places in the scanners' hands, as pairs of a scanner and a position,
\* that hold task i, without the current ones of the scanners W.
Pending(h, i, W) ==
    UNION {{w} \X {k \in 1..Len(h[w]) : h[w][k] = i /\ ~(k = 1 /\ w \in W)} : w \in Workers}

\* n attempts were made, P may still be, and d deliveries pay for all of them.
Covered(n, P, d) == IsFiniteSet(P) /\ n + Cardinality(P) <= d

Past(f) == {w \in Workers : next[w] > f[2]}
AtAck == {w \in Workers : pc[w] = "ack"}

FindingPaid(f) == Covered(rows[f], Pending(held, f[1], Past(f)), deliveries[f[1]])
IssuePaid(i) == Covered(issues[i], Pending(held, i, AtAck), deliveries[i])

\* The faults so far pay for the next delivery of a task too, whenever the
\* consumer may deliver it without another one.
MayComeAgain(i) ==
    \/ consumer = NoConsumer
    \/ i \notin sent
    \/ i \in due
    \/ ~IsHeld(i) /\ i \notin acked

DeliveryPaid(i) == deliveries[i] + (IF MayComeAgain(i) THEN 1 ELSE 0) <= faults + 1

PaidInv ==
    /\ consumer = NoConsumer => attached = {}
    /\ \A f \in Finding : FindingPaid(f)
    /\ \A i \in Task : IssuePaid(i) /\ DeliveryPaid(i)
-----------------------------------------------------------------------------
\* Counting.
LEMMA FewerPending ==
    ASSUME NEW n \in Nat, NEW m \in Nat, NEW d \in Nat, NEW P, NEW Q,
           Covered(n, P, d), Q \subseteq P, m <= n
    PROVE  Covered(m, Q, d)
<1>1. IsFiniteSet(P) /\ n + Cardinality(P) <= d
  BY DEF Covered
<1>2. IsFiniteSet(Q) /\ Cardinality(Q) <= Cardinality(P)
  BY <1>1, FS_Subset
<1>3. Cardinality(P) \in Nat /\ Cardinality(Q) \in Nat
  BY <1>1, <1>2, FS_CardinalityType
<1>4. QED
  BY <1>1, <1>2, <1>3 DEF Covered

LEMMA AttemptMade ==
    ASSUME NEW n \in Nat, NEW m \in Nat, NEW d \in Nat, NEW P, NEW Q, NEW x \in P,
           Covered(n, P, d), Q \subseteq P \ {x}, m <= n + 1
    PROVE  Covered(m, Q, d)
<1>1. IsFiniteSet(P) /\ n + Cardinality(P) <= d
  BY DEF Covered
<1>2. IsFiniteSet(P \ {x}) /\ Cardinality(P \ {x}) = Cardinality(P) - 1
  BY <1>1, FS_RemoveElement
<1>3. IsFiniteSet(Q) /\ Cardinality(Q) <= Cardinality(P \ {x})
  BY <1>2, FS_Subset
<1>4. Cardinality(P) \in Nat /\ Cardinality(Q) \in Nat
  BY <1>1, <1>3, FS_CardinalityType
<1>5. QED
  BY <1>1, <1>2, <1>3, <1>4 DEF Covered

LEMMA OneMorePending ==
    ASSUME NEW n \in Nat, NEW d \in Nat, NEW P, NEW Q, NEW x,
           Covered(n, P, d), Q \subseteq P \cup {x}
    PROVE  Covered(n, Q, d + 1)
<1>1. IsFiniteSet(P) /\ n + Cardinality(P) <= d
  BY DEF Covered
<1>2. Cardinality(P) \in Nat
  BY <1>1, FS_CardinalityType
<1>3. IsFiniteSet(P \cup {x}) /\ Cardinality(P \cup {x}) <= Cardinality(P) + 1
  <2>1. /\ IsFiniteSet(P \cup {x})
        /\ Cardinality(P \cup {x}) = IF x \in P THEN Cardinality(P) ELSE Cardinality(P) + 1
    BY <1>1, FS_AddElement
  <2>2. QED
    BY <1>2, <2>1
<1>4. IsFiniteSet(Q) /\ Cardinality(Q) <= Cardinality(P \cup {x})
  BY <1>3, FS_Subset
<1>5. Cardinality(P \cup {x}) \in Nat /\ Cardinality(Q) \in Nat
  BY <1>3, <1>4, FS_CardinalityType
<1>6. QED
  BY <1>1, <1>2, <1>3, <1>4, <1>5 DEF Covered

LEMMA MovedPending ==
    ASSUME NEW n \in Nat, NEW d \in Nat, NEW P, NEW Q, NEW s \in [Q -> P],
           \A a, b \in Q : s[a] = s[b] => a = b,
           Covered(n, P, d)
    PROVE  Covered(n, Q, d)
<1>1. IsFiniteSet(P) /\ n + Cardinality(P) <= d
  BY DEF Covered
<1>2. s \in Injection(Q, P)
  BY DEF Injection, IsInjective
<1>3. IsFiniteSet(Q) /\ Cardinality(Q) <= Cardinality(P)
  BY <1>1, <1>2, FS_Injection
<1>4. Cardinality(P) \in Nat /\ Cardinality(Q) \in Nat
  BY <1>1, <1>3, FS_CardinalityType
<1>5. QED
  BY <1>1, <1>3, <1>4 DEF Covered

LEMMA PendingMember ==
    ASSUME NEW h, NEW i, NEW W, NEW p
    PROVE  p \in Pending(h, i, W) <=>
               \E w \in Workers : \E k \in 1..Len(h[w]) :
                   p = <<w, k>> /\ h[w][k] = i /\ ~(k = 1 /\ w \in W)
BY DEF Pending
-----------------------------------------------------------------------------
\* How a step changes what the scanners hold: not at all, by the end of a
\* handler, by the end of a process, or by a delivery.
LEMMA PendingRests ==
    ASSUME NEW h, NEW i, NEW W, NEW V, W \subseteq V
    PROVE  Pending(h, i, V) \subseteq Pending(h, i, W)
BY PendingMember

LEMMA PendingGoes ==
    ASSUME NEW h, NEW g, NEW i, NEW W, NEW V, NEW w \in Workers,
           \A v \in Workers \ {w} : g[v] = h[v] /\ (v \in W => v \in V),
           g[w] = <<>>
    PROVE  Pending(g, i, V) \subseteq Pending(h, i, W)
<1>1. Len(g[w]) = 0
  OBVIOUS
<1> SUFFICES ASSUME NEW p \in Pending(g, i, V) PROVE p \in Pending(h, i, W)
  OBVIOUS
<1>2. PICK v \in Workers : \E k \in 1..Len(g[v]) :
          p = <<v, k>> /\ g[v][k] = i /\ ~(k = 1 /\ v \in V)
  BY PendingMember
<1>3. v # w
  BY <1>1, <1>2
<1>4. QED
  BY <1>2, <1>3, PendingMember

LEMMA PendingComes ==
    ASSUME NEW h \in [Workers -> Seq(Nat)], NEW g, NEW i, NEW j \in Nat, NEW W,
           NEW w \in Workers, g[w] = Append(h[w], j), \A v \in Workers \ {w} : g[v] = h[v]
    PROVE  /\ i # j => Pending(g, i, W) \subseteq Pending(h, i, W)
           /\ Pending(g, i, W) \subseteq Pending(h, i, W) \cup {<<w, Len(h[w]) + 1>>}
<1>1. h[w] \in Seq(Nat) /\ Len(h[w]) \in Nat
  OBVIOUS
<1>2. g[w] = Append(h[w], j) /\ \A v \in Workers \ {w} : g[v] = h[v]
  OBVIOUS
<1>3. /\ Len(g[w]) = Len(h[w]) + 1 /\ g[w][Len(h[w]) + 1] = j
      /\ \A k \in 1..Len(h[w]) : g[w][k] = h[w][k]
  BY <1>1, <1>2
<1>4. ASSUME NEW p \in Pending(g, i, W)
      PROVE  p \in Pending(h, i, W) \/ (i = j /\ p = <<w, Len(h[w]) + 1>>)
  <2>1. PICK v \in Workers : \E k \in 1..Len(g[v]) :
            p = <<v, k>> /\ g[v][k] = i /\ ~(k = 1 /\ v \in W)
    BY PendingMember
  <2>2. PICK k \in 1..Len(g[v]) : p = <<v, k>> /\ g[v][k] = i /\ ~(k = 1 /\ v \in W)
    BY <2>1
  <2>3. CASE v # w
    BY <1>2, <2>2, <2>3, PendingMember
  <2>4. CASE v = w /\ k = Len(h[w]) + 1
    BY <1>3, <2>2, <2>4
  <2>5. CASE v = w /\ k # Len(h[w]) + 1
    <3>1. k \in 1..Len(h[w])
      BY <1>1, <1>3, <2>5
    <3>2. h[w][k] = i
      BY <1>3, <2>2, <2>5, <3>1
    <3>3. QED
      BY <2>2, <2>5, <3>1, <3>2, PendingMember
  <2>6. QED
    BY <2>3, <2>4, <2>5
<1>5. QED
  BY <1>4

\* A handler ends: every later place of its scanner moves up by one.
LEMMA PendingMovesUp ==
    ASSUME NEW h \in [Workers -> Seq(Nat)], NEW g, NEW i, NEW W, NEW V,
           NEW w \in Workers, h[w] # <<>>, g[w] = Tail(h[w]),
           \A v \in Workers \ {w} : g[v] = h[v] /\ (v \in W => v \in V)
    PROVE  \A n, d \in Nat :
               Covered(n, Pending(h, i, W), d) => Covered(n, Pending(g, i, V), d)
<1> DEFINE up(p) == IF p[1] = w THEN <<w, p[2] + 1>> ELSE p
           s == [p \in Pending(g, i, V) |-> up(p)]
<1>1. h[w] \in Seq(Nat) /\ Len(h[w]) \in Nat /\ Len(h[w]) # 0
  OBVIOUS
<1>2. g[w] = Tail(h[w]) /\ \A v \in Workers \ {w} : g[v] = h[v]
  OBVIOUS
<1>3. /\ Len(g[w]) = Len(h[w]) - 1
      /\ \A k \in 1..Len(g[w]) : g[w][k] = h[w][k + 1]
  BY <1>1, <1>2
<1>4. ASSUME NEW p \in Pending(g, i, V)
      PROVE  /\ up(p) \in Pending(h, i, W)
             /\ \E v \in Workers, k \in Nat : p = <<v, k>>
  <2>1. PICK v \in Workers : \E k \in 1..Len(g[v]) :
            p = <<v, k>> /\ g[v][k] = i /\ ~(k = 1 /\ v \in V)
    BY PendingMember
  <2>2. PICK k \in 1..Len(g[v]) : p = <<v, k>> /\ g[v][k] = i /\ ~(k = 1 /\ v \in V)
    BY <2>1
  <2>3. CASE v # w
    <3>1. up(p) = p
      BY <2>2, <2>3
    <3>2. p \in Pending(h, i, W)
      BY <1>2, <2>2, <2>3, PendingMember
    <3>3. QED
      BY <2>2, <3>1, <3>2
  <2>4. CASE v = w
    <3>1. up(p) = <<w, k + 1>>
      BY <2>2, <2>4
    <3>2. k + 1 \in 1..Len(h[w]) /\ h[w][k + 1] = i /\ k + 1 # 1
      <4>1. k \in 1..Len(g[w]) /\ g[w][k] = i
        BY <2>2, <2>4
      <4>2. h[w][k + 1] = g[w][k]
        BY <1>3, <4>1
      <4>3. k + 1 \in 1..Len(h[w]) /\ k + 1 # 1
        BY <1>1, <1>3, <4>1
      <4>4. QED
        BY <4>1, <4>2, <4>3
    <3>3. <<w, k + 1>> \in Pending(h, i, W)
      BY <3>2, PendingMember
    <3>4. QED
      BY <2>2, <2>4, <3>1, <3>3
  <2>5. QED
    BY <2>3, <2>4
<1>5. ASSUME NEW a \in Pending(g, i, V), NEW b \in Pending(g, i, V), up(a) = up(b)
      PROVE  a = b
  <2>1. PICK v \in Workers, k \in Nat : a = <<v, k>>
    BY <1>4
  <2>2. PICK u \in Workers, l \in Nat : b = <<u, l>>
    BY <1>4
  <2>3. v = u
    BY <1>5, <2>1, <2>2
  <2>4. k = l
    BY <1>5, <2>1, <2>2, <2>3
  <2>5. QED
    BY <2>1, <2>2, <2>3, <2>4
<1>6. s \in [Pending(g, i, V) -> Pending(h, i, W)]
  BY <1>4
<1>7. \A a, b \in Pending(g, i, V) : s[a] = s[b] => a = b
  BY <1>5
<1> HIDE DEF s
<1>8. QED
  BY <1>6, <1>7, MovedPending
-----------------------------------------------------------------------------
(***************************************************************************)
(* Every step keeps the count.                                              *)
(***************************************************************************)
\* A handler or a process of w ends; the other scanners do not notice.
Over(w) ==
    /\ \/ held'[w] = Tail(held[w]) /\ held[w] # <<>>
       \/ held'[w] = <<>>
    /\ \A v \in Workers \ {w} :
           held'[v] = held[v] /\ next'[v] = next[v] /\ pc'[v] = pc[v]
    /\ UNCHANGED <<deliveries, rows, issues>>

\* The handlers go on with what they have.
GoOn ==
    /\ UNCHANGED <<held, deliveries>>
    /\ \A v \in Workers : next[v] <= next'[v] /\ (pc[v] = "ack" => pc'[v] = "ack")

LEMMA StepKinds ==
    ASSUME IInv, [Next]_vars
    PROVE  \/ GoOn
           \/ \E w \in Workers : Over(w)
           \/ \E i \in Task, w \in Workers : Deliver(i, w)
<1>0. TypeOK /\ \A w \in Workers : Sane(w) /\ next[w] \in Nat
  BY DEF IInv, TypeOK
<1>1. ASSUME NEW w \in Workers, MkdirFails(w) \/ Ack(w) \/ AckLost(w) PROVE Over(w)
  <2>1. held[w] # <<>>
    BY <1>0, <1>1 DEF Sane, Working, MkdirFails, Ack, AckLost
  <2>2. EndHandler(w) /\ UNCHANGED <<deliveries, rows, issues>>
    BY <1>1 DEF MkdirFails, Ack, AckLost, broker, results
  <2>3. held'[w] = Tail(held[w])
    BY <1>0, <2>2 DEF TypeOK, EndHandler
  <2>4. \A v \in Workers \ {w} :
            held'[v] = held[v] /\ next'[v] = next[v] /\ pc'[v] = pc[v]
    BY <1>0, <2>2 DEF TypeOK, EndHandler, Goto
  <2>5. QED
    BY <2>1, <2>2, <2>3, <2>4 DEF Over
<1>2. ASSUME NEW w \in Workers, Crash(w) \/ Stop(w) PROVE Over(w)
  <2>1. ProcessEnds(w)
    BY <1>2 DEF Crash, Stop
  <2>2. held'[w] = <<>>
    BY <1>0, <2>1 DEF TypeOK, ProcessEnds
  <2>3. \A v \in Workers \ {w} :
            held'[v] = held[v] /\ next'[v] = next[v] /\ pc'[v] = pc[v]
    BY <1>0, <2>1 DEF TypeOK, ProcessEnds, Goto
  <2>4. UNCHANGED <<deliveries, rows, issues>>
    BY <2>1 DEF ProcessEnds, results
  <2>5. QED
    BY <2>2, <2>3, <2>4 DEF Over
<1>3. ASSUME NEW w \in Workers, Start(w) PROVE GoOn
  <2>1. UNCHANGED <<held, next, deliveries>>
    BY <1>3 DEF Start, Attach, CreateConsumer
  <2>2. \A v \in Workers : pc[v] = "ack" => pc'[v] = "ack"
    BY <1>0, <1>3 DEF TypeOK, Start, Goto
  <2>3. QED
    BY <1>0, <2>1, <2>2 DEF GoOn
<1>4. ASSUME NEW w \in Workers, SaveFinding(w) \/ SaveFails(w) PROVE GoOn
  <2>1. UNCHANGED <<held, pc, deliveries>>
    BY <1>4 DEF SaveFinding, SaveFails, broker
  <2>2. next' = [next EXCEPT ![w] = @ + 1]
    BY <1>4 DEF SaveFinding, SaveFails
  <2>3. \A v \in Workers : next'[v] = next[v] \/ next'[v] = next[v] + 1
    BY <1>0, <2>2 DEF TypeOK
  <2>4. \A v \in Workers : next[v] <= next'[v]
    BY <1>0, <2>3
  <2>5. QED
    BY <2>1, <2>4 DEF GoOn
<1>5. ASSUME NEW w \in Workers, Handle(w),
             ~(MkdirFails(w) \/ Ack(w) \/ AckLost(w) \/ SaveFinding(w) \/ SaveFails(w))
      PROVE  GoOn
  <2>1. UNCHANGED <<held, next, deliveries>>
    BY <1>5 DEF Handle, Begin, Clone, CloneFails, ScanClean, ScanLeaks, ScanFails,
                EndReport, CreateIssue, CreateIssueFails, broker
  <2>2. pc[w] # "ack" /\ \E label \in Working : pc' = [pc EXCEPT ![w] = label]
    BY <1>5 DEF Handle, Begin, Clone, CloneFails, ScanClean, ScanLeaks, ScanFails,
                EndReport, CreateIssue, CreateIssueFails, Goto, Working
  <2>3. \A v \in Workers : pc[v] = "ack" => pc'[v] = "ack"
    BY <1>0, <2>2 DEF TypeOK
  <2>4. QED
    BY <1>0, <2>1, <2>3 DEF GoOn
<1>6. ASSUME \/ \E p \in Pushes : Publish(p) \/ PublishFails(p)
             \/ \E i \in Task : AckWaitOver(i) \/ AckWaitTooShort(i)
             \/ UNCHANGED vars
      PROVE  GoOn
  <2>1. UNCHANGED <<held, next, pc, deliveries>>
    BY <1>6 DEF Publish, PublishFails, AckWaitOver, AckWaitTooShort, Redeliver, vars, broker,
                scanner
  <2>2. QED
    BY <1>0, <2>1 DEF GoOn
<1>7. QED
  BY <1>1, <1>2, <1>3, <1>4, <1>5, <1>6 DEF Next, Handle

LEMMA HeldNumbers == TypeOK => held \in [Workers -> Seq(Nat)]
<1>1. Queued \subseteq Nat
  BY DEF TypeOK, Queued
<1>2. ASSUME NEW s \in Seq(Queued) PROVE s \in Seq(Nat)
  <2>1. Len(s) \in Nat /\ s \in [1..Len(s) -> Queued]
    OBVIOUS
  <2>2. s \in [1..Len(s) -> Nat]
    BY <1>1, <2>1
  <2>3. QED
    BY <2>1, <2>2
<1>3. QED
  BY <1>2 DEF TypeOK

LEMMA DeliveryNumbers == ASSUME TypeOK, NEW i \in Task PROVE deliveries[i] \in Nat
BY ConstantsAssumption DEF TypeOK

\* n attempts of a kind at task i were made before the step and m after it; the
\* scanners W, and after it V, are past theirs.  What may disturb the count are
\* the attempts themselves: then a scanner has just made one.
LEMMA CoverStep ==
    ASSUME TypeOK, NEW i \in Task, NEW n \in Nat, NEW m \in Nat, NEW W, NEW V,
           Covered(n, Pending(held, i, W), deliveries[i]),
           \/ /\ GoOn
              /\ W \subseteq V
              /\ m <= n \/ \E w \in Workers : /\ held[w] # <<>> /\ Current(w) = i
                                              /\ w \in V \ W /\ m <= n + 1
           \/ /\ \E w \in Workers : Over(w) /\ \A v \in Workers \ {w} : v \in W => v \in V
              /\ m = n
           \/ (\E j \in Task, w \in Workers : Deliver(j, w)) /\ V = W /\ m = n
    PROVE  Covered(m, Pending(held', i, V), deliveries'[i])
<1>0. held \in [Workers -> Seq(Nat)] /\ deliveries[i] \in Nat
  BY HeldNumbers, DeliveryNumbers
<1>1. CASE GoOn /\ W \subseteq V /\ m <= n
  <2>1. held' = held /\ deliveries' = deliveries
    BY <1>1 DEF GoOn
  <2>2. Pending(held, i, V) \subseteq Pending(held, i, W)
    BY <1>1, PendingRests
  <2>3. Covered(m, Pending(held, i, V), deliveries[i])
    BY <1>0, <1>1, <2>2, FewerPending
  <2>4. QED
    BY <2>1, <2>3
<1>2. ASSUME GoOn, W \subseteq V, m <= n + 1,
             NEW w \in Workers, held[w] # <<>>, Current(w) = i, w \in V \ W
      PROVE  Covered(m, Pending(held', i, V), deliveries'[i])
  <2>1. held' = held /\ deliveries' = deliveries
    BY <1>2 DEF GoOn
  <2>2. Pending(held, i, V) \subseteq Pending(held, i, W)
    BY <1>2, PendingRests
  <2>3. 1 \in 1..Len(held[w]) /\ held[w][1] = i
    <3>1. held[w] \in Seq(Nat)
      BY <1>0
    <3>2. Len(held[w]) \in Nat /\ Len(held[w]) # 0
      BY <1>2, <3>1
    <3>3. QED
      BY <1>2, <3>2 DEF Current
  <2>4. <<w, 1>> \in Pending(held, i, W)
    BY <1>2, <2>3, PendingMember
  <2>5. <<w, 1>> \notin Pending(held, i, V)
    <3>1. SUFFICES ASSUME <<w, 1>> \in Pending(held, i, V) PROVE FALSE
      OBVIOUS
    <3>2. \E v \in Workers : \E k \in 1..Len(held[v]) :
              <<w, 1>> = <<v, k>> /\ held[v][k] = i /\ ~(k = 1 /\ v \in V)
      BY <3>1, PendingMember
    <3>3. QED
      BY <1>2, <3>2
  <2>6. Pending(held, i, V) \subseteq Pending(held, i, W) \ {<<w, 1>>}
    BY <2>2, <2>5
  <2>7. Covered(m, Pending(held, i, V), deliveries[i])
    BY <1>0, <1>2, <2>4, <2>6, AttemptMade
  <2>8. QED
    BY <2>1, <2>7
<1>3. ASSUME NEW w \in Workers, Over(w), \A v \in Workers \ {w} : v \in W => v \in V, m = n
      PROVE  Covered(m, Pending(held', i, V), deliveries'[i])
  <2>1. deliveries' = deliveries
    BY <1>3 DEF Over
  <2>2. PICK g : g = held'
    OBVIOUS
  <2>3. \A v \in Workers \ {w} : g[v] = held[v] /\ (v \in W => v \in V)
    BY <1>3, <2>2 DEF Over
  <2>4. CASE g[w] = Tail(held[w]) /\ held[w] # <<>>
    <3>1. Covered(n, Pending(g, i, V), deliveries[i])
      BY <1>0, <2>3, <2>4, PendingMovesUp
    <3>2. QED
      BY <1>3, <2>1, <2>2, <3>1
  <2>5. CASE g[w] = <<>>
    <3>1. Pending(g, i, V) \subseteq Pending(held, i, W)
      BY <2>3, <2>5, PendingGoes
    <3>2. Covered(n, Pending(g, i, V), deliveries[i])
      BY <1>0, <3>1, FewerPending
    <3>3. QED
      BY <1>3, <2>1, <2>2, <3>2
  <2>6. QED
    BY <1>3, <2>2, <2>4, <2>5 DEF Over
<1>4. ASSUME NEW j \in Task, NEW w \in Workers, Deliver(j, w), V = W, m = n
      PROVE  Covered(m, Pending(held', i, V), deliveries'[i])
  <2>1. PICK g : g = held'
    OBVIOUS
  <2>2. g[w] = Append(held[w], j) /\ \A v \in Workers \ {w} : g[v] = held[v]
    BY <1>0, <1>4, <2>1 DEF Deliver
  <2>3. deliveries' = [deliveries EXCEPT ![j] = @ + 1]
    BY <1>4 DEF Deliver
  <2>4. j \in Nat
    BY DEF Task
  <2>5. /\ i # j => Pending(g, i, W) \subseteq Pending(held, i, W)
        /\ Pending(g, i, W) \subseteq Pending(held, i, W) \cup {<<w, Len(held[w]) + 1>>}
    BY <1>0, <2>2, <2>4, PendingComes
  <2>6. CASE i # j
    <3>1. deliveries'[i] = deliveries[i]
      BY <2>3, <2>6 DEF TypeOK
    <3>2. Covered(n, Pending(g, i, W), deliveries[i])
      BY <1>0, <2>5, <2>6, FewerPending
    <3>3. QED
      BY <1>4, <2>1, <3>1, <3>2
  <2>7. CASE i = j
    <3>1. deliveries'[i] = deliveries[i] + 1
      BY <2>3, <2>7 DEF TypeOK
    <3>2. Covered(n, Pending(g, i, W), deliveries[i] + 1)
      BY <1>0, <2>5, OneMorePending
    <3>3. QED
      BY <1>4, <2>1, <3>1, <3>2
  <2>8. QED
    BY <2>6, <2>7
<1>5. QED
  BY <1>1, <1>2, <1>3, <1>4
-----------------------------------------------------------------------------
\* Only an attempt of parseReport at a finding adds a row to it, and one at most.
LEMMA RowsMove ==
    ASSUME IInv, [Next]_vars, NEW f \in Finding
    PROVE  \/ rows'[f] = rows[f]
           \/ \E w \in Workers : /\ pc[w] = "report" /\ next[w] <= Leaks /\ FindingOf(w) = f
                                 /\ next' = [next EXCEPT ![w] = @ + 1]
                                 /\ rows'[f] \in {rows[f], rows[f] + 1}
<1>0. TypeOK
  BY DEF IInv
<1>1. ASSUME NEW w \in Workers, SaveFinding(w) \/ SaveFails(w)
      PROVE  \/ rows'[f] = rows[f]
             \/ /\ pc[w] = "report" /\ next[w] <= Leaks /\ FindingOf(w) = f
                /\ next' = [next EXCEPT ![w] = @ + 1]
                /\ rows'[f] \in {rows[f], rows[f] + 1}
  <2>1. rows' \in {rows, [rows EXCEPT ![FindingOf(w)] = @ + 1]}
    BY <1>1 DEF SaveFinding, SaveFails
  <2>2. f = FindingOf(w) => rows'[f] \in {rows[f], rows[f] + 1}
    BY <1>0, <2>1 DEF TypeOK
  <2>3. f # FindingOf(w) => rows'[f] = rows[f]
    BY <1>0, <2>1 DEF TypeOK
  <2>4. /\ pc[w] = "report" /\ next[w] <= Leaks
        /\ next' = [next EXCEPT ![w] = @ + 1]
    BY <1>1 DEF SaveFinding, SaveFails
  <2>5. QED
    BY <2>2, <2>3, <2>4
<1>2. CASE ~ \E w \in Workers : SaveFinding(w) \/ SaveFails(w)
  <2>1. rows' = rows
    BY <1>2 DEF Next, vars, results, Publish, PublishFails, Start, Crash, Stop, ProcessEnds,
                Deliver, AckWaitOver, AckWaitTooShort, Redeliver, Handle, Begin, MkdirFails,
                Clone, CloneFails, ScanClean, ScanLeaks, ScanFails, EndReport, CreateIssue,
                CreateIssueFails, Ack, AckLost, Ended
  <2>2. QED
    BY <2>1
<1>3. QED
  BY <1>1, <1>2

LEMMA FindingPaidStep ==
    ASSUME IInv, TypeOK', [Next]_vars, NEW f \in Finding, FindingPaid(f)
    PROVE  FindingPaid(f)'
<1>0. TypeOK /\ f[1] \in Task /\ f[2] \in 1..Leaks /\ Leaks \in Nat
  BY ConstantsAssumption DEF IInv, Finding
<1>1. PICK n \in Nat : n = rows[f]
  BY <1>0 DEF TypeOK
<1>2. PICK m \in Nat : m = rows'[f]
  BY DEF TypeOK
<1>3. PICK W : W = Past(f)
  OBVIOUS
<1>4. PICK V : V = {w \in Workers : next'[w] > f[2]}
  OBVIOUS
<1>5. Covered(n, Pending(held, f[1], W), deliveries[f[1]])
  BY <1>1, <1>3 DEF FindingPaid
<1>6. \A w \in Workers : next[w] \in Nat /\ next'[w] \in Nat
  <2>1. next \in [Workers -> 1..(Leaks + 1)] /\ next' \in [Workers -> 1..(Leaks + 1)]
    BY <1>0 DEF TypeOK
  <2>2. QED
    BY <1>0, <2>1
<1>7. ASSUME GoOn PROVE Covered(m, Pending(held', f[1], V), deliveries'[f[1]])
  <2>1. W \subseteq V
    BY <1>0, <1>3, <1>4, <1>6, <1>7 DEF GoOn, Past
  <2>2. ASSUME NEW w \in Workers, pc[w] = "report", next[w] <= Leaks, FindingOf(w) = f,
               next' = [next EXCEPT ![w] = @ + 1], rows'[f] \in {rows[f], rows[f] + 1}
        PROVE  held[w] # <<>> /\ Current(w) = f[1] /\ w \in V \ W /\ m <= n + 1
    <3>1. held[w] # <<>>
      BY <2>2 DEF IInv, Sane, Working
    <3>2. Current(w) = f[1] /\ next[w] = f[2]
      BY <2>2 DEF FindingOf
    <3>3. next'[w] = next[w] + 1
      BY <1>0, <2>2 DEF TypeOK
    <3>4. w \in V /\ w \notin W
      BY <1>3, <1>4, <1>6, <3>2, <3>3 DEF Past
    <3>5. m <= n + 1
      BY <1>1, <1>2, <2>2
    <3>6. QED
      BY <3>1, <3>2, <3>4, <3>5
  <2>3. m <= n \/ \E w \in Workers : /\ held[w] # <<>> /\ Current(w) = f[1]
                                     /\ w \in V \ W /\ m <= n + 1
    BY <1>1, <1>2, <2>2, RowsMove
  <2>4. QED
    BY <1>0, <1>5, <1>7, <2>1, <2>3, CoverStep
<1>8. ASSUME NEW w \in Workers, Over(w)
      PROVE  Covered(m, Pending(held', f[1], V), deliveries'[f[1]])
  <2>1. m = n
    BY <1>1, <1>2, <1>8 DEF Over
  <2>2. \A v \in Workers \ {w} : v \in W => v \in V
    BY <1>3, <1>4, <1>8 DEF Over, Past
  <2>3. QED
    BY <1>0, <1>5, <1>8, <2>1, <2>2, CoverStep
<1>9. ASSUME NEW j \in Task, NEW w \in Workers, Deliver(j, w)
      PROVE  Covered(m, Pending(held', f[1], V), deliveries'[f[1]])
  <2>1. m = n /\ V = W
    BY <1>1, <1>2, <1>3, <1>4, <1>9 DEF Deliver, results, Past
  <2>2. QED
    BY <1>0, <1>5, <1>9, <2>1, CoverStep
<1>10. Covered(m, Pending(held', f[1], V), deliveries'[f[1]])
  BY <1>7, <1>8, <1>9, StepKinds
<1>11. QED
  BY <1>2, <1>4, <1>10 DEF FindingPaid, Past, Covered, Pending

\* Only an attempt at the issue of a task adds an issue to it, and one at most.
LEMMA IssuesMove ==
    ASSUME IInv, [Next]_vars, NEW i \in Task
    PROVE  \/ issues'[i] = issues[i]
           \/ \E w \in Workers : /\ pc[w] = "issue" /\ Current(w) = i
                                 /\ Goto(w, "ack")
                                 /\ issues'[i] \in {issues[i], issues[i] + 1}
<1>0. TypeOK
  BY DEF IInv
<1>1. ASSUME NEW w \in Workers, CreateIssue(w) \/ CreateIssueFails(w)
      PROVE  \/ issues'[i] = issues[i]
             \/ /\ pc[w] = "issue" /\ Current(w) = i
                /\ Goto(w, "ack")
                /\ issues'[i] \in {issues[i], issues[i] + 1}
  <2>1. issues' \in {issues, [issues EXCEPT ![Current(w)] = @ + 1]}
    BY <1>1 DEF CreateIssue, CreateIssueFails
  <2>2. i = Current(w) => issues'[i] \in {issues[i], issues[i] + 1}
    BY <1>0, <2>1 DEF TypeOK
  <2>3. i # Current(w) => issues'[i] = issues[i]
    BY <1>0, <2>1 DEF TypeOK
  <2>4. pc[w] = "issue" /\ Goto(w, "ack")
    BY <1>1 DEF CreateIssue, CreateIssueFails
  <2>5. QED
    BY <2>2, <2>3, <2>4
<1>2. CASE ~ \E w \in Workers : CreateIssue(w) \/ CreateIssueFails(w)
  <2>1. issues' = issues
    BY <1>2 DEF Next, vars, results, Publish, PublishFails, Start, Crash, Stop, ProcessEnds,
                Deliver, AckWaitOver, AckWaitTooShort, Redeliver, Handle, Begin, MkdirFails,
                Clone, CloneFails, ScanClean, ScanLeaks, ScanFails, SaveFinding, SaveFails,
                EndReport, Ack, AckLost, Ended
  <2>2. QED
    BY <2>1
<1>3. QED
  BY <1>1, <1>2

LEMMA IssuePaidStep ==
    ASSUME IInv, TypeOK', [Next]_vars, NEW i \in Task, IssuePaid(i)
    PROVE  IssuePaid(i)'
<1>0. TypeOK
  BY DEF IInv
<1>1. PICK n \in Nat : n = issues[i]
  BY <1>0 DEF TypeOK
<1>2. PICK m \in Nat : m = issues'[i]
  BY DEF TypeOK
<1>3. PICK W : W = AtAck
  OBVIOUS
<1>4. PICK V : V = {w \in Workers : pc'[w] = "ack"}
  OBVIOUS
<1>5. Covered(n, Pending(held, i, W), deliveries[i])
  BY <1>1, <1>3 DEF IssuePaid
<1>6. ASSUME GoOn PROVE Covered(m, Pending(held', i, V), deliveries'[i])
  <2>1. W \subseteq V
    BY <1>3, <1>4, <1>6 DEF GoOn, AtAck
  <2>2. ASSUME NEW w \in Workers, pc[w] = "issue", Current(w) = i, Goto(w, "ack"),
               issues'[i] \in {issues[i], issues[i] + 1}
        PROVE  held[w] # <<>> /\ w \in V \ W /\ m <= n + 1
    <3>1. held[w] # <<>>
      BY <2>2 DEF IInv, Sane, Working
    <3>2. pc'[w] = "ack"
      BY <1>0, <2>2 DEF TypeOK, Goto
    <3>3. w \in V /\ w \notin W
      BY <1>3, <1>4, <2>2, <3>2 DEF AtAck
    <3>4. m <= n + 1
      BY <1>1, <1>2, <2>2
    <3>5. QED
      BY <3>1, <3>3, <3>4
  <2>3. m <= n \/ \E w \in Workers : /\ held[w] # <<>> /\ Current(w) = i
                                     /\ w \in V \ W /\ m <= n + 1
    BY <1>1, <1>2, <2>2, IssuesMove
  <2>4. QED
    BY <1>0, <1>5, <1>6, <2>1, <2>3, CoverStep
<1>7. ASSUME NEW w \in Workers, Over(w)
      PROVE  Covered(m, Pending(held', i, V), deliveries'[i])
  <2>1. m = n
    BY <1>1, <1>2, <1>7 DEF Over
  <2>2. \A v \in Workers \ {w} : v \in W => v \in V
    BY <1>3, <1>4, <1>7 DEF Over, AtAck
  <2>3. QED
    BY <1>0, <1>5, <1>7, <2>1, <2>2, CoverStep
<1>8. ASSUME NEW j \in Task, NEW w \in Workers, Deliver(j, w)
      PROVE  Covered(m, Pending(held', i, V), deliveries'[i])
  <2>1. m = n /\ V = W
    BY <1>1, <1>2, <1>3, <1>4, <1>8 DEF Deliver, results, AtAck
  <2>2. QED
    BY <1>0, <1>5, <1>8, <2>1, CoverStep
<1>9. Covered(m, Pending(held', i, V), deliveries'[i])
  BY <1>6, <1>7, <1>8, StepKinds
<1>10. QED
  BY <1>2, <1>4, <1>9 DEF IssuePaid, AtAck, Covered, Pending
-----------------------------------------------------------------------------
(***************************************************************************)
(* Every step keeps the deliveries paid.                                    *)
(***************************************************************************)
\* Nothing gives a task a second free delivery: whatever does so is a fault.
LEMMA DeliveryPaidStep ==
    ASSUME IInv, TypeOK', [Next]_vars, consumer = NoConsumer => attached = {},
           NEW i \in Task, DeliveryPaid(i)
    PROVE  DeliveryPaid(i)'
<1>0. /\ TypeOK /\ deliveries[i] \in Nat /\ deliveries'[i] \in Nat
      /\ faults \in Nat /\ faults' \in Nat
  <2>1. TypeOK
    BY DEF IInv
  <2>2. faults \in 0..MaxFaults /\ faults' \in 0..MaxFaults
    BY <2>1 DEF TypeOK
  <2>3. deliveries \in [Task -> 0..MaxDeliveries] /\ deliveries' \in [Task -> 0..MaxDeliveries]
    BY <2>1 DEF TypeOK
  <2>4. MaxFaults \in Nat /\ MaxDeliveries \in Nat
    BY ConstantsAssumption
  <2>5. QED
    BY <2>1, <2>2, <2>3, <2>4
<1>1. ASSUME deliveries'[i] = deliveries[i], faults' = faults + 1 PROVE DeliveryPaid(i)'
  BY <1>0, <1>1 DEF DeliveryPaid
<1>2. ASSUME deliveries'[i] = deliveries[i], faults' = faults, MayComeAgain(i)' => MayComeAgain(i)
      PROVE  DeliveryPaid(i)'
  BY <1>0, <1>2 DEF DeliveryPaid
<1>3. ASSUME UNCHANGED <<consumer, sent, due, acked, deliveries, held, faults>>
      PROVE  DeliveryPaid(i)'
  <2>1. MayComeAgain(i)' => MayComeAgain(i)
    BY <1>3 DEF MayComeAgain, IsHeld
  <2>2. QED
    BY <1>2, <1>3, <2>1
<1>4. ASSUME NEW p \in Pushes, Publish(p) \/ PublishFails(p) PROVE DeliveryPaid(i)'
  <2>1. UNCHANGED <<consumer, sent, due, acked, deliveries, held>>
    BY <1>4 DEF Publish, PublishFails, broker, scanner
  <2>2. UNCHANGED faults \/ faults' = faults + 1
    BY <1>4 DEF Publish, PublishFails, Fault
  <2>3. QED
    BY <1>1, <1>3, <2>1, <2>2
<1>5. ASSUME NEW w \in Workers, Start(w) PROVE DeliveryPaid(i)'
  <2>1. UNCHANGED <<deliveries, held, faults>>
    BY <1>5 DEF Start, Attach, CreateConsumer
  <2>2. CASE Attach(w)
    BY <1>3, <2>1, <2>2 DEF Attach
  <2>3. CASE CreateConsumer(w)
    <3>1. MayComeAgain(i)
      BY <2>3 DEF CreateConsumer, MayComeAgain
    <3>2. QED
      BY <1>2, <2>1, <3>1
  <2>4. QED
    BY <1>5, <2>2, <2>3 DEF Start
<1>6. ASSUME NEW w \in Workers, Crash(w) \/ Stop(w) PROVE DeliveryPaid(i)'
  BY <1>1, <1>6 DEF Crash, Stop, Fault, ProcessEnds
<1>7. ASSUME NEW w \in Workers, Deliver(i, w) PROVE DeliveryPaid(i)'
  <2>1. MayComeAgain(i) /\ deliveries'[i] = deliveries[i] + 1 /\ faults' = faults
    BY <1>0, <1>7 DEF TypeOK, Deliver, MayComeAgain
  <2>2. consumer' # NoConsumer /\ i \in sent' /\ i \notin due'
    BY <1>7 DEF Deliver
  <2>3. IsHeld(i)'
    <3>1. held[w] \in Seq(Queued)
      BY <1>0 DEF TypeOK
    <3>2. held'[w] = Append(held[w], i)
      BY <1>0, <1>7 DEF TypeOK, Deliver
    <3>3. Len(held[w]) + 1 \in 1..Len(held'[w]) /\ held'[w][Len(held[w]) + 1] = i
      BY <3>1, <3>2
    <3>4. QED
      BY <3>3 DEF IsHeld
  <2>4. ~MayComeAgain(i)'
    BY <2>2, <2>3 DEF MayComeAgain
  <2>5. QED
    BY <1>0, <2>1, <2>4 DEF DeliveryPaid
<1>8. ASSUME NEW j \in Task, NEW w \in Workers, Deliver(j, w), i # j PROVE DeliveryPaid(i)'
  <2>1. deliveries'[i] = deliveries[i] /\ faults' = faults
    BY <1>0, <1>8 DEF TypeOK, Deliver
  <2>2. IsHeld(i) => IsHeld(i)'
    <3>1. SUFFICES ASSUME NEW v \in Workers, NEW k \in 1..Len(held[v]), held[v][k] = i
                   PROVE  k \in 1..Len(held'[v]) /\ held'[v][k] = i
      BY DEF IsHeld
    <3>2. held[v] \in Seq(Queued) /\ j \in Queued
      BY <1>0, <1>8 DEF TypeOK, Deliver
    <3>3. held'[v] = held[v] \/ held'[v] = Append(held[v], j)
      BY <1>0, <1>8 DEF TypeOK, Deliver
    <3>4. QED
      BY <3>1, <3>2, <3>3
  <2>3. MayComeAgain(i)' => MayComeAgain(i)
    BY <1>8, <2>2 DEF Deliver, MayComeAgain
  <2>4. QED
    BY <1>2, <2>1, <2>3
<1>9. ASSUME NEW j \in Task, AckWaitOver(j) \/ AckWaitTooShort(j) PROVE DeliveryPaid(i)'
  <2>1. CASE AckWaitTooShort(j)
    BY <1>1, <2>1 DEF AckWaitTooShort, Fault, Redeliver
  <2>2. CASE AckWaitOver(j)
    <3>1. UNCHANGED <<consumer, sent, acked, deliveries, held, faults>>
      BY <2>2 DEF AckWaitOver, Redeliver, scanner
    <3>2. due' = due \cup {j} /\ ~IsHeld(j) /\ j \notin acked
      BY <2>2 DEF AckWaitOver, Redeliver
    <3>3. MayComeAgain(i)' => MayComeAgain(i)
      BY <3>1, <3>2 DEF MayComeAgain, IsHeld
    <3>4. QED
      BY <1>2, <3>1, <3>3
  <2>3. QED
    BY <1>9, <2>1, <2>2
<1>10. ASSUME NEW w \in Workers, MkdirFails(w) \/ AckLost(w) PROVE DeliveryPaid(i)'
  BY <1>1, <1>10 DEF MkdirFails, AckLost, Fault, broker
<1>11. ASSUME NEW w \in Workers, Ack(w) PROVE DeliveryPaid(i)'
  <2>1. /\ UNCHANGED <<consumer, sent, deliveries, faults>>
        /\ acked' = acked \cup (sent \cap {Current(w)})
        /\ due' = due \ {Current(w)}
        /\ EndHandler(w) /\ held[w] # <<>>
    BY <1>11 DEF Ack, IInv, Sane, Working
  <2>2. CASE Current(w) = i
    <3>1. MayComeAgain(i)' => MayComeAgain(i)
      BY <2>1, <2>2 DEF MayComeAgain
    <3>2. QED
      BY <1>2, <2>1, <3>1
  <2>3. CASE Current(w) # i
    <3>1. IsHeld(i) => IsHeld(i)'
      <4>1. SUFFICES ASSUME NEW v \in Workers, NEW k \in 1..Len(held[v]), held[v][k] = i
                     PROVE  IsHeld(i)'
        BY DEF IsHeld
      <4>2. CASE v # w
        <5>1. held'[v] = held[v]
          BY <1>0, <2>1, <4>2 DEF TypeOK, EndHandler
        <5>2. QED
          BY <4>1, <5>1 DEF IsHeld
      <4>3. CASE v = w
        <5>1. held[w] \in Seq(Queued)
          BY <1>0 DEF TypeOK
        <5>2. held'[w] = Tail(held[w])
          BY <1>0, <2>1 DEF TypeOK, EndHandler
        <5>3. k # 1
          BY <2>3, <4>1, <4>3 DEF Current
        <5>4. /\ Len(held'[w]) = Len(held[w]) - 1
              /\ \A l \in 1..(Len(held[w]) - 1) : held'[w][l] = held[w][l + 1]
          BY <2>1, <5>1, <5>2
        <5>5. k - 1 \in 1..(Len(held[w]) - 1) /\ k - 1 + 1 = k
          BY <4>1, <4>3, <5>1, <5>3
        <5>6. held'[w][k - 1] = i
          BY <4>1, <4>3, <5>4, <5>5
        <5>7. QED
          BY <5>4, <5>5, <5>6 DEF IsHeld
      <4>4. QED
        BY <4>2, <4>3
    <3>2. MayComeAgain(i)' => MayComeAgain(i)
      BY <2>1, <2>3, <3>1 DEF MayComeAgain
    <3>3. QED
      BY <1>2, <2>1, <3>2
  <2>4. QED
    BY <2>2, <2>3
<1>12. ASSUME NEW w \in Workers, Handle(w), ~(MkdirFails(w) \/ AckLost(w) \/ Ack(w))
       PROVE  DeliveryPaid(i)'
  <2>1. UNCHANGED <<consumer, sent, due, acked, deliveries, held>>
    BY <1>12 DEF Handle, Begin, Clone, CloneFails, ScanClean, ScanLeaks, ScanFails,
                 SaveFinding, SaveFails, EndReport, CreateIssue, CreateIssueFails, broker
  <2>2. UNCHANGED faults \/ faults' = faults + 1
    BY <1>12 DEF Handle, Begin, Clone, CloneFails, ScanClean, ScanLeaks, ScanFails,
                 SaveFinding, SaveFails, EndReport, CreateIssue, CreateIssueFails, Fault
  <2>3. QED
    BY <1>1, <1>3, <2>1, <2>2
<1>13. CASE UNCHANGED vars
  BY <1>3, <1>13 DEF vars, broker, scanner
<1>14. QED
  BY <1>4, <1>5, <1>6, <1>7, <1>8, <1>9, <1>10, <1>11, <1>12, <1>13 DEF Next

LEMMA NoConsumerStep ==
    ASSUME IInv, [Next]_vars, consumer = NoConsumer => attached = {}
    PROVE  (consumer = NoConsumer => attached = {})'
<1>1. UNCHANGED <<consumer, attached>> \/ \E w \in Workers : Start(w) \/ Crash(w) \/ Stop(w)
  BY DEF Next, vars, broker, Publish, PublishFails, Deliver, AckWaitOver, AckWaitTooShort,
         Redeliver, Handle, Begin, MkdirFails, Clone, CloneFails, ScanClean, ScanLeaks,
         ScanFails, SaveFinding, SaveFails, EndReport, CreateIssue, CreateIssueFails, Ack, AckLost
<1>2. ASSUME NEW w \in Workers, Start(w) PROVE consumer' # NoConsumer
  BY <1>2, ConstantsAssumption DEF Start, Attach, CreateConsumer
<1>3. ASSUME NEW w \in Workers, Crash(w) \/ Stop(w)
      PROVE  (consumer = NoConsumer => attached = {})'
  BY <1>3, ConstantsAssumption DEF Crash, Stop
<1>4. QED
  BY <1>1, <1>2, <1>3
-----------------------------------------------------------------------------
LEMMA PaidInit == Init => PaidInv
<1> SUFFICES ASSUME Init PROVE PaidInv
  OBVIOUS
<1>1. \A w \in Workers : Len(held[w]) = 0
  BY DEF Init
<1>2. ASSUME NEW i, NEW W PROVE Pending(held, i, W) = {}
  BY <1>1, PendingMember
<1>3. ASSUME NEW i, NEW W PROVE Covered(0, Pending(held, i, W), 0)
  BY <1>2, FS_EmptySet DEF Covered
<1>4. \A f \in Finding : FindingPaid(f)
  BY <1>3 DEF Init, FindingPaid, Finding
<1>5. \A i \in Task : IssuePaid(i) /\ DeliveryPaid(i)
  BY <1>3 DEF Init, IssuePaid, DeliveryPaid
<1>6. QED
  BY <1>4, <1>5 DEF Init, PaidInv

LEMMA PaidStep == IInv /\ TypeOK' /\ PaidInv /\ [Next]_vars => PaidInv'
<1> SUFFICES ASSUME IInv, TypeOK', PaidInv, [Next]_vars PROVE PaidInv'
  OBVIOUS
<1>1. (consumer = NoConsumer => attached = {})'
  BY NoConsumerStep DEF PaidInv
<1>2. \A f \in Finding : FindingPaid(f)'
  BY FindingPaidStep DEF PaidInv
<1>3. \A i \in Task : IssuePaid(i)' /\ DeliveryPaid(i)'
  BY IssuePaidStep, DeliveryPaidStep DEF PaidInv
<1>4. QED
  BY <1>1, <1>2, <1>3 DEF PaidInv

LEMMA PaidSuffices == IInv /\ PaidInv => RepeatsArePaid
<1> SUFFICES ASSUME TypeOK, PaidInv PROVE RepeatsArePaid
  BY DEF IInv
<1>1. ASSUME NEW n \in Nat, NEW d \in Nat, NEW P, Covered(n, P, d) PROVE n <= d
  <2>1. Cardinality(P) \in Nat
    BY <1>1, FS_CardinalityType DEF Covered
  <2>2. QED
    BY <1>1, <2>1 DEF Covered
<1>2. ASSUME NEW f \in Finding PROVE rows[f] <= deliveries[f[1]]
  <2>1. f[1] \in Task
    BY DEF Finding
  <2>2. rows[f] \in Nat /\ deliveries[f[1]] \in Nat
    BY <2>1, DeliveryNumbers DEF TypeOK
  <2>3. QED
    BY <1>1, <2>2 DEF PaidInv, FindingPaid
<1>3. ASSUME NEW i \in Task PROVE issues[i] <= deliveries[i] /\ deliveries[i] <= faults + 1
  <2>1. issues[i] \in Nat /\ deliveries[i] \in Nat
    BY DeliveryNumbers DEF TypeOK
  <2>2. issues[i] <= deliveries[i]
    BY <1>1, <2>1 DEF PaidInv, IssuePaid
  <2>3. faults \in Nat
    BY ConstantsAssumption DEF TypeOK
  <2>4. deliveries[i] <= faults + 1
    BY <2>1, <2>3 DEF PaidInv, DeliveryPaid
  <2>5. QED
    BY <2>2, <2>4
<1>4. QED
  BY <1>2, <1>3 DEF RepeatsArePaid

\* No finding is stored, and no issue opened, more often than its task was
\* delivered, and no task is delivered more often than once and once more per
\* fault, however many scanners share the queue, crash, stop or take too long.
THEOREM RepeatsArePaidHolds == Spec => []RepeatsArePaid
<1>1. IInv /\ PaidInv /\ [Next]_vars => PaidInv'
  BY TypeStep, PaidStep
<1>2. QED
  BY <1>1, PaidInit, PaidSuffices, InvariantHolds, PTL DEF Spec
=============================================================================
