----------------------- MODULE EvidenceRotationProofs ----------------------
(***************************************************************************)
(* Proofs about key rotation, for any runs, re-runs, epochs and kinds.      *)
(***************************************************************************)
EXTENDS EvidenceRotation, TLAPS

-----------------------------------------------------------------------------
(***************************************************************************)
(* The inductive invariant.                                                 *)
(***************************************************************************)
\* Part(s, t): t begins with s.
Part(s, t) ==
    /\ Len(s) <= Len(t)
    /\ \A i \in 1..Len(s) : t[i] = s[i]

\* An entry that may be in the log of epoch e: signed with the epoch's key, and
\* its run was started for a commit of that epoch.
Proper(e, x) ==
    /\ x.key = e
    /\ pc[x.run] # "idle"
    /\ epochOf[x.run] = e

\* A history that is one entry ahead of a part of epoch e's branch.
OneAhead(e, h) ==
    /\ Len(h) > 0
    /\ Len(h) - 1 <= Len(branch[e])
    /\ \A i \in 1..Len(h) - 1 : branch[e][i] = h[i]

\* The owner's variables move in step: the branch, then the secret, then the
\* config, each by one epoch.
OwnerInv ==
    /\ rotation \in {"none", "rotated"} => secret = config /\ published = config
    /\ rotation = "published" => secret = config /\ published = config + 1
    /\ rotation = "keyed" => secret = config + 1 /\ published = config + 1
    /\ rotation # "none" => config < MaxEpoch
    /\ rotation = "rotated" => Part(freeze, branch[config])

LogsInv ==
    \A e \in Epoch : \A i \in 1..Len(branch[e]) : Proper(e, branch[e][i])

PushesInv ==
    \A push \in inflight :
        /\ push.epoch <= config
        /\ OneAhead(push.epoch, push.commits)
        /\ Proper(push.epoch, push.commits[Len(push.commits)])

JobInv(r) ==
    /\ epochOf[r] <= config
    /\ pc[r] = "record" => Part(work[r], branch[epochOf[r]])
    /\ pc[r] = "push" =>
           /\ keyOf[r] = epochOf[r]
           /\ OneAhead(epochOf[r], work[r])
           /\ work[r][Len(work[r])] = EntryOf(r)
    /\ pc[r] = "exit0" => Contains(branch[epochOf[r]], EntryOf(r))

IInv ==
    /\ TypeOK
    /\ OwnerInv
    /\ LogsInv
    /\ PushesInv
    /\ \A r \in Runs : JobInv(r)
-----------------------------------------------------------------------------
(***************************************************************************)
(* Type correctness.                                                        *)
(***************************************************************************)
LEMMA EntryTyped == ASSUME TypeOK, NEW r \in Runs PROVE EntryOf(r) \in Entry
BY DEF TypeOK, Entry, EntryOf

\* The end of an attempt, or of a job, keeps the types.
LEMMA EndTypes ==
    ASSUME TypeOK, NEW r \in Runs, AttemptFailed(r) \/ Exit(r, "exit0"),
           branch' \in [Epoch -> Seq(Entry)],
           inflight' \in SUBSET [epoch : Epoch, commits : Seq(Entry)]
    PROVE  TypeOK'
<1>1. PICK label \in {"fetch", "exit0", "exit1"} :
          /\ pc' = [pc EXCEPT ![r] = label]
          /\ work' = [work EXCEPT ![r] = <<>>]
          /\ UNCHANGED <<rotationVars, runAttempt, epochOf, keyOf>>
  BY DEF AttemptFailed, Exit
<1>2. pc' \in [Runs -> {"idle", "queued"} \cup HoldsKey \cup Exited]
  BY <1>1 DEF TypeOK, HoldsKey, Exited
<1>3. work' \in [Runs -> Seq(Entry)]
  <2>1. <<>> \in Seq(Entry)
    OBVIOUS
  <2>2. QED
    BY <1>1, <2>1 DEF TypeOK
<1>4. QED
  BY <1>1, <1>2, <1>3 DEF TypeOK, rotationVars

LEMMA OwnerTypes == ASSUME TypeOK, OwnerInv, OwnerStep PROVE TypeOK'
<1>1. ASSUME RotatePlanned PROVE TypeOK'
  <2>1. branch[config] \in Seq(Entry)
    BY DEF TypeOK
  <2>2. QED
    BY <1>1, <2>1 DEF TypeOK, RotatePlanned, runVars
<1>2. ASSUME RotateUnplanned PROVE TypeOK'
  <2>1. PICK n \in 0..Len(branch[config]) : freeze' = SubSeq(branch[config], 1, n)
    BY <1>2 DEF RotateUnplanned
  <2>2. branch[config] \in Seq(Entry)
    BY DEF TypeOK
  <2>3. freeze' \in Seq(Entry)
    BY <2>1, <2>2
  <2>4. QED
    BY <1>2, <2>3 DEF TypeOK, RotateUnplanned, runVars
<1>3. rotation # "none" => config + 1 \in Epoch
  BY ConstantsAssumption DEF TypeOK, OwnerInv, Epoch
<1>4. ASSUME PublishBranch PROVE TypeOK'
  BY <1>3, <1>4 DEF TypeOK, PublishBranch, runVars
<1>5. ASSUME OverwriteSecret PROVE TypeOK'
  BY <1>3, <1>5 DEF TypeOK, OverwriteSecret, runVars
<1>6. ASSUME MergeConfig PROVE TypeOK'
  <2>1. <<>> \in Seq(Entry)
    OBVIOUS
  <2>2. QED
    BY <1>3, <1>6, <2>1 DEF TypeOK, MergeConfig, runVars
<1>7. QED
  BY <1>1, <1>2, <1>4, <1>5, <1>6 DEF OwnerStep

LEMMA JobTypes ==
    ASSUME TypeOK, NEW r \in Runs, PushCommit(r) \/ Rerun(r) \/ JobStep(r)
    PROVE  TypeOK'
<1> USE DEF rotationVars
<1>1. ASSUME PushCommit(r) PROVE TypeOK'
  BY <1>1 DEF TypeOK, PushCommit
<1>2. ASSUME Rerun(r) PROVE TypeOK'
  <2>1. runAttempt[r] + 1 \in 1..MaxRunAttempts[r]
    <3>1. runAttempt[r] \in Nat /\ MaxRunAttempts[r] \in Nat
      BY ConstantsAssumption DEF TypeOK, RunAttempt
    <3>2. QED
      BY <1>2, <3>1 DEF Rerun
  <2>2. runAttempt[r] + 1 \in RunAttempt
    BY <2>1 DEF RunAttempt
  <2>3. runAttempt' \in [Runs -> RunAttempt]
    BY <1>2, <2>2 DEF TypeOK, Rerun
  <2>4. QED
    BY <1>2, <2>3 DEF TypeOK, Rerun
<1>3. ASSUME StartRecord(r) PROVE TypeOK'
  BY <1>3 DEF TypeOK, StartRecord, HoldsKey
<1>4. ASSUME Fetch(r) PROVE TypeOK'
  <2>1. branch[epochOf[r]] \in Seq(Entry)
    BY DEF TypeOK
  <2>2. work' \in [Runs -> Seq(Entry)]
    BY <1>4, <2>1 DEF TypeOK, Fetch
  <2>3. QED
    BY <1>4, <2>2 DEF TypeOK, Fetch, HoldsKey
<1>5. ASSUME RecordAdds(r) PROVE TypeOK'
  <2>1. Append(work[r], EntryOf(r)) \in Seq(Entry)
    BY EntryTyped DEF TypeOK
  <2>2. work' \in [Runs -> Seq(Entry)]
    BY <1>5, <2>1 DEF TypeOK, RecordAdds
  <2>3. QED
    BY <1>5, <2>2 DEF TypeOK, RecordAdds, HoldsKey
<1>6. UNCHANGED inflight => inflight' \in SUBSET [epoch : Epoch, commits : Seq(Entry)]
  BY DEF TypeOK
<1>7. UNCHANGED branch => branch' \in [Epoch -> Seq(Entry)]
  BY DEF TypeOK
<1>8. ASSUME JobFails(r) \/ RecordRefused(r) \/ RecordFindsEntry(r) \/ PushRejected(r)
      PROVE  TypeOK'
  BY <1>6, <1>7, <1>8, EndTypes
     DEF JobFails, RecordRefused, RecordFindsEntry, PushRejected, AttemptFailed
<1>9. ASSUME PushAccepted(r) PROVE TypeOK'
  <2>1. branch' \in [Epoch -> Seq(Entry)]
    BY <1>9 DEF TypeOK, PushAccepted
  <2>2. QED
    BY <1>6, <1>9, <2>1, EndTypes DEF PushAccepted
<1>10. ASSUME PushUnanswered(r) PROVE TypeOK'
  <2>1. [epoch |-> epochOf[r], commits |-> work[r]] \in [epoch : Epoch, commits : Seq(Entry)]
    BY DEF TypeOK
  <2>2. inflight' \in SUBSET [epoch : Epoch, commits : Seq(Entry)]
    BY <1>10, <2>1 DEF TypeOK, PushUnanswered
  <2>3. QED
    BY <1>7, <1>10, <2>2, EndTypes DEF PushUnanswered
<1>11. QED
  BY <1>1, <1>2, <1>3, <1>4, <1>5, <1>8, <1>9, <1>10 DEF JobStep

LEMMA TypeStep == IInv /\ [Next]_vars => TypeOK'
<1> SUFFICES ASSUME IInv, [Next]_vars PROVE TypeOK'
  OBVIOUS
<1>1. TypeOK /\ OwnerInv
  BY DEF IInv
<1>2. ASSUME NEW push \in inflight, PushLands(push) \/ PushLost(push) PROVE TypeOK'
  <2>1. push \in [epoch : Epoch, commits : Seq(Entry)]
    BY <1>1 DEF TypeOK
  <2>2. branch' \in [Epoch -> Seq(Entry)]
    BY <1>1, <1>2, <2>1 DEF TypeOK, PushLands, PushLost
  <2>3. inflight' \in SUBSET [epoch : Epoch, commits : Seq(Entry)]
    BY <1>1, <1>2 DEF TypeOK, PushLands, PushLost
  <2>4. UNCHANGED <<rotationVars, runVars>>
    BY <1>2 DEF PushLands, PushLost
  <2>5. QED
    BY <1>1, <2>2, <2>3, <2>4 DEF TypeOK, rotationVars, runVars
<1>3. CASE UNCHANGED vars
  BY <1>1, <1>3 DEF TypeOK, vars, rotationVars, runVars
<1>4. QED
  BY <1>1, <1>2, <1>3, OwnerTypes, JobTypes DEF Next
-----------------------------------------------------------------------------
(***************************************************************************)
(* What one step can do to a job.                                           *)
(***************************************************************************)
Effects(r) ==
    /\ pc'[r] = "idle" => pc[r] = "idle"
    /\ \/ epochOf'[r] = epochOf[r]
       \/ pc[r] = "idle" /\ pc'[r] = "queued" /\ epochOf'[r] = config
    /\ pc'[r] = "record" => \/ pc[r] = "record" /\ work'[r] = work[r]
                            \/ work'[r] = branch[epochOf[r]]
    /\ pc'[r] = "push" =>
           \/ /\ pc[r] = "push" /\ work'[r] = work[r]
              /\ keyOf'[r] = keyOf[r] /\ runAttempt'[r] = runAttempt[r]
           \/ RecordAdds(r)
    /\ pc'[r] = "exit0" =>
           \/ /\ pc[r] = "exit0"
              /\ keyOf'[r] = keyOf[r] /\ runAttempt'[r] = runAttempt[r]
           \/ RecordFindsEntry(r)
           \/ PushAccepted(r)
    /\ pc'[r] \in HoldsKey => \/ pc[r] \in HoldsKey /\ keyOf'[r] = keyOf[r]
                              \/ keyOf'[r] = secret

\* A step of another job, or of the owner or the network, leaves a job alone.
LEMMA OthersRest ==
    ASSUME TypeOK, NEW r \in Runs, PushCommit(r) \/ Rerun(r) \/ JobStep(r),
           NEW q \in Runs \ {r}
    PROVE  /\ pc'[q] = pc[q] /\ runAttempt'[q] = runAttempt[q]
           /\ epochOf'[q] = epochOf[q] /\ keyOf'[q] = keyOf[q]
           /\ work'[q] = work[q]
BY DEF TypeOK, PushCommit, Rerun, JobStep, StartRecord, Fetch, JobFails,
       RecordRefused, RecordAdds, RecordFindsEntry, PushAccepted, PushRejected,
       PushUnanswered, AttemptFailed, Exit

\* A job that rests has no effect on itself.
LEMMA RestHasEffects ==
    ASSUME NEW r \in Runs,
           /\ pc'[r] = pc[r] /\ runAttempt'[r] = runAttempt[r]
           /\ epochOf'[r] = epochOf[r] /\ keyOf'[r] = keyOf[r]
           /\ work'[r] = work[r]
    PROVE  Effects(r)
BY DEF Effects

LEMMA JobEffects ==
    ASSUME TypeOK, NEW r \in Runs, PushCommit(r) \/ Rerun(r) \/ JobStep(r)
    PROVE  Effects(r)
<1>1. ASSUME AttemptFailed(r), pc[r] \in HoldsKey PROVE Effects(r)
  <2>1. PICK label \in {"fetch", "exit1"} : pc' = [pc EXCEPT ![r] = label]
    BY <1>1 DEF AttemptFailed, Exit
  <2>2. pc'[r] \in {"fetch", "exit1"} /\ epochOf'[r] = epochOf[r] /\ keyOf'[r] = keyOf[r]
    BY <1>1, <2>1 DEF TypeOK, AttemptFailed, Exit
  <2>3. QED
    BY <1>1, <2>2 DEF Effects
<1>2. ASSUME PushCommit(r) PROVE Effects(r)
  BY <1>2 DEF TypeOK, Effects, PushCommit, HoldsKey
<1>3. ASSUME Rerun(r) PROVE Effects(r)
  BY <1>3 DEF TypeOK, Effects, Rerun, HoldsKey
<1>4. ASSUME StartRecord(r) PROVE Effects(r)
  BY <1>4 DEF TypeOK, Effects, StartRecord
<1>5. ASSUME Fetch(r) PROVE Effects(r)
  BY <1>5 DEF TypeOK, Effects, Fetch, HoldsKey
<1>6. ASSUME RecordRefused(r) PROVE Effects(r)
  BY <1>6 DEF TypeOK, Effects, RecordRefused, Exit, HoldsKey
<1>7. ASSUME RecordAdds(r) PROVE Effects(r)
  <2>1. pc[r] \in HoldsKey /\ pc'[r] = "push" /\ epochOf'[r] = epochOf[r] /\ keyOf'[r] = keyOf[r]
    BY <1>7 DEF TypeOK, RecordAdds, HoldsKey
  <2>2. QED
    BY <1>7, <2>1 DEF Effects
<1>8. ASSUME RecordFindsEntry(r) \/ PushAccepted(r) PROVE Effects(r)
  <2>1. pc'[r] = "exit0" /\ epochOf'[r] = epochOf[r]
    BY <1>8 DEF TypeOK, RecordFindsEntry, PushAccepted, Exit
  <2>2. QED
    BY <1>8, <2>1 DEF Effects, HoldsKey
<1>9. ASSUME JobFails(r) \/ PushRejected(r) \/ PushUnanswered(r) PROVE Effects(r)
  BY <1>1, <1>9 DEF JobFails, PushRejected, PushUnanswered, HoldsKey
<1>10. QED
  BY <1>2, <1>3, <1>4, <1>5, <1>6, <1>7, <1>8, <1>9 DEF JobStep

LEMMA StepEffects ==
    ASSUME TypeOK, [Next]_vars, NEW q \in Runs
    PROVE  Effects(q)
<1>1. ASSUME UNCHANGED runVars PROVE Effects(q)
  BY <1>1, RestHasEffects DEF runVars
<1>2. ASSUME NEW r \in Runs, PushCommit(r) \/ Rerun(r) \/ JobStep(r) PROVE Effects(q)
  BY <1>2, JobEffects, OthersRest, RestHasEffects
<1>3. ASSUME OwnerStep PROVE Effects(q)
  BY <1>1, <1>3 DEF OwnerStep, RotatePlanned, RotateUnplanned, PublishBranch,
                    OverwriteSecret, MergeConfig
<1>4. ASSUME NEW push \in inflight, PushLands(push) \/ PushLost(push) PROVE Effects(q)
  BY <1>1, <1>4 DEF PushLands, PushLost
<1>5. CASE UNCHANGED vars
  BY <1>1, <1>5 DEF vars
<1>6. QED
  BY <1>2, <1>3, <1>4, <1>5 DEF Next
-----------------------------------------------------------------------------
(***************************************************************************)
(* What one step can do to the branches.                                    *)
(***************************************************************************)
\* A fast-forward of a history that is one ahead adds its last entry, or
\* nothing.
LEMMA FastForwardAddsOne ==
    ASSUME TypeOK, NEW e \in Epoch, NEW h \in Seq(Entry),
           OneAhead(e, h), FastForward(e, h)
    PROVE  branch[e] = h \/ h = Append(branch[e], h[Len(h)])
<1>1. branch[e] \in Seq(Entry)
  BY DEF TypeOK
<1>2. Len(branch[e]) <= Len(h) /\ Len(h) - 1 <= Len(branch[e])
  BY DEF FastForward, IsPrefix, OneAhead
<1>3. \A i \in 1..Len(branch[e]) : branch[e][i] = h[i]
  <2>1. SubSeq(branch[e], 1, Len(branch[e])) = SubSeq(h, 1, Len(branch[e]))
    BY DEF FastForward, IsPrefix
  <2>2. Len(branch[e]) \in Nat /\ Len(h) \in Nat
    BY <1>1
  <2>3. \A i \in 1..Len(branch[e]) :
            /\ SubSeq(branch[e], 1, Len(branch[e]))[i] = branch[e][i]
            /\ SubSeq(h, 1, Len(branch[e]))[i] = h[i]
    BY <1>1, <1>2, <2>2
  <2>4. QED
    BY <2>1, <2>3
<1>4. CASE Len(h) = Len(branch[e])
  BY <1>1, <1>3, <1>4
<1>5. CASE Len(h) = Len(branch[e]) + 1
  <2>1. Append(branch[e], h[Len(h)]) \in Seq(Entry)
    BY <1>1, <1>5
  <2>2. Len(Append(branch[e], h[Len(h)])) = Len(h)
    BY <1>1, <1>5
  <2>3. \A i \in 1..Len(h) : Append(branch[e], h[Len(h)])[i] = h[i]
    BY <1>1, <1>3, <1>5
  <2>4. QED
    BY <2>1, <2>2, <2>3
<1>6. QED
  BY <1>1, <1>2, <1>4, <1>5

\* The entry x is added to the log of epoch e.
Adds(e, x) ==
    /\ e <= config /\ Proper(e, x)
    /\ branch' = [branch EXCEPT ![e] = Append(@, x)]
    /\ UNCHANGED rotationVars
    /\ \/ \E r \in Runs : pc[r] = "push" /\ epochOf[r] = e /\ keyOf[r] = e
       \/ \E push \in inflight : push.epoch = e

\* Taking a push adds its last entry, or changes nothing.
LEMMA TakenAdds ==
    ASSUME TypeOK, NEW e \in Epoch, NEW h \in Seq(Entry),
           OneAhead(e, h), FastForward(e, h), e <= config, Proper(e, h[Len(h)]),
           branch' = [branch EXCEPT ![e] = h], UNCHANGED rotationVars,
           \/ \E r \in Runs : pc[r] = "push" /\ epochOf[r] = e /\ keyOf[r] = e
           \/ \E push \in inflight : push.epoch = e
    PROVE  \/ UNCHANGED branch
           \/ \E x \in Entry : Adds(e, x)
<1>1. CASE branch[e] = h
  BY <1>1 DEF TypeOK
<1>2. CASE h = Append(branch[e], h[Len(h)])
  <2>1. h[Len(h)] \in Entry
    BY DEF OneAhead
  <2>2. branch' = [branch EXCEPT ![e] = Append(@, h[Len(h)])]
    BY <1>2 DEF TypeOK
  <2>3. QED
    BY <2>1, <2>2 DEF Adds
<1>3. QED
  BY <1>1, <1>2, FastForwardAddsOne

LEMMA StepAdds ==
    ASSUME IInv, [Next]_vars
    PROVE  UNCHANGED branch \/ \E e \in Epoch, x \in Entry : Adds(e, x)
<1>0. TypeOK
  BY DEF IInv
<1>1. ASSUME NEW r \in Runs, PushAccepted(r)
      PROVE  UNCHANGED branch \/ \E e \in Epoch, x \in Entry : Adds(e, x)
  <2>1. epochOf[r] \in Epoch /\ work[r] \in Seq(Entry) /\ UNCHANGED rotationVars
    BY <1>0, <1>1 DEF TypeOK, PushAccepted, Exit
  <2>2. pc[r] = "push" /\ keyOf[r] = epochOf[r] /\ epochOf[r] <= config
    BY <1>1 DEF IInv, JobInv, PushAccepted
  <2>3. OneAhead(epochOf[r], work[r]) /\ work[r][Len(work[r])] = EntryOf(r)
    BY <2>2 DEF IInv, JobInv
  <2>4. Proper(epochOf[r], EntryOf(r))
    BY <2>2 DEF Proper, EntryOf
  <2>5. QED
    BY <1>0, <1>1, <2>1, <2>2, <2>3, <2>4, TakenAdds DEF PushAccepted
<1>2. ASSUME NEW push \in inflight, PushLands(push)
      PROVE  UNCHANGED branch \/ \E e \in Epoch, x \in Entry : Adds(e, x)
  <2>1. push.epoch \in Epoch /\ push.commits \in Seq(Entry)
    BY <1>0 DEF TypeOK
  <2>2. /\ push.epoch <= config /\ OneAhead(push.epoch, push.commits)
        /\ Proper(push.epoch, push.commits[Len(push.commits)])
    BY DEF IInv, PushesInv
  <2>3. QED
    BY <1>0, <1>2, <2>1, <2>2, TakenAdds DEF PushLands
<1>3. ASSUME NEW r \in Runs, PushCommit(r) \/ Rerun(r) \/ (JobStep(r) /\ ~PushAccepted(r))
      PROVE  UNCHANGED branch
  BY <1>3 DEF PushCommit, Rerun, JobStep, StartRecord, Fetch, JobFails, RecordRefused,
              RecordAdds, RecordFindsEntry, PushRejected, PushUnanswered
<1>4. ASSUME OwnerStep PROVE UNCHANGED branch
  BY <1>4 DEF OwnerStep, RotatePlanned, RotateUnplanned, PublishBranch, OverwriteSecret,
              MergeConfig
<1>5. ASSUME NEW push \in inflight, PushLost(push) PROVE UNCHANGED branch
  BY <1>5 DEF PushLost
<1>6. CASE UNCHANGED vars
  BY <1>6 DEF vars
<1>7. QED
  BY <1>1, <1>2, <1>3, <1>4, <1>5, <1>6 DEF Next

\* Branches only grow.
LEMMA BranchesGrow ==
    ASSUME IInv, [Next]_vars, NEW e \in Epoch
    PROVE  Part(branch[e], branch'[e])
<1>1. branch[e] \in Seq(Entry)
  BY DEF IInv, TypeOK
<1>2. CASE UNCHANGED branch
  BY <1>1, <1>2 DEF Part
<1>3. ASSUME NEW d \in Epoch, NEW x \in Entry, Adds(d, x)
      PROVE  Part(branch[e], branch'[e])
  <2>1. branch'[e] = branch[e] \/ branch'[e] = Append(branch[e], x)
    BY <1>3 DEF Adds, IInv, TypeOK
  <2>2. Part(branch[e], branch[e]) /\ Part(branch[e], Append(branch[e], x))
    BY <1>1 DEF Part
  <2>3. QED
    BY <2>1, <2>2
<1>4. QED
  BY <1>2, <1>3, StepAdds
-----------------------------------------------------------------------------
(***************************************************************************)
(* The invariant holds always.                                              *)
(***************************************************************************)
\* What is proper for a log stays proper: a run keeps its epoch once it has
\* started, and never becomes idle again.
LEMMA ProperStays ==
    ASSUME IInv, [Next]_vars, NEW e, NEW x \in Entry, Proper(e, x)
    PROVE  Proper(e, x)'
<1>1. x.run \in Runs
  BY DEF Entry
<1>2. Effects(x.run)
  BY <1>1, StepEffects DEF IInv
<1>3. QED
  BY <1>2 DEF Proper, Effects

\* What is one ahead of a branch is one ahead of what the branch grows to.
LEMMA OneAheadStays ==
    ASSUME IInv, [Next]_vars, NEW e \in Epoch, NEW h \in Seq(Entry), OneAhead(e, h)
    PROVE  OneAhead(e, h)'
<1>1. TypeOK /\ TypeOK'
  BY TypeStep DEF IInv
<1>2. branch[e] \in Seq(Entry) /\ branch'[e] \in Seq(Entry)
  BY <1>1 DEF TypeOK
<1>3. Len(branch[e]) \in Nat /\ Len(branch'[e]) \in Nat /\ Len(h) \in Nat
  BY <1>2
<1>4. Part(branch[e], branch'[e])
  BY BranchesGrow
<1>5. QED
  BY <1>3, <1>4 DEF OneAhead, Part

LEMMA PartTransitive ==
    ASSUME NEW s \in Seq(Entry), NEW t \in Seq(Entry), NEW u \in Seq(Entry),
           Part(s, t), Part(t, u)
    PROVE  Part(s, u)
<1>1. Len(s) \in Nat /\ Len(t) \in Nat /\ Len(u) \in Nat
  OBVIOUS
<1>2. QED
  BY <1>1 DEF Part

\* An entry of a part is an entry of the whole.
LEMMA PartContains ==
    ASSUME NEW s \in Seq(Entry), NEW t \in Seq(Entry), NEW x, Part(s, t), Contains(s, x)
    PROVE  Contains(t, x)
<1>1. PICK i \in 1..Len(s) : s[i] = x
  BY DEF Contains
<1>2. Len(s) \in Nat /\ Len(t) \in Nat
  OBVIOUS
<1>3. i \in 1..Len(t) /\ t[i] = x
  BY <1>1, <1>2 DEF Part
<1>4. QED
  BY <1>3 DEF Contains

\* The owner's epoch never falls.
LEMMA ConfigGrows == ASSUME IInv, [Next]_vars PROVE config <= config'
<1>1. config \in Nat
  BY DEF IInv, TypeOK, Epoch
<1>2. UNCHANGED config \/ config' = config + 1
  BY DEF Next, OwnerStep, RotatePlanned, RotateUnplanned, PublishBranch, OverwriteSecret,
         MergeConfig, rotationVars, vars, PushCommit, Rerun, JobStep, StartRecord, Fetch,
         JobFails, RecordRefused, RecordAdds, RecordFindsEntry, PushAccepted, PushRejected,
         PushUnanswered, AttemptFailed, Exit, PushLands, PushLost
<1>3. QED
  BY <1>1, <1>2

LEMMA OwnerInvStep == ASSUME IInv, [Next]_vars PROVE OwnerInv'
<1>0. /\ config \in Nat /\ config \in Epoch /\ MaxEpoch \in Nat
      /\ branch[config] \in Seq(Entry) /\ branch'[config] \in Seq(Entry)
  <2>1. TypeOK /\ TypeOK'
    BY TypeStep DEF IInv
  <2>2. config \in Nat /\ config \in Epoch /\ MaxEpoch \in Nat
    BY <2>1, ConstantsAssumption DEF TypeOK, Epoch
  <2>3. QED
    BY <2>1, <2>2 DEF TypeOK
<1>1. Part(branch[config], branch'[config])
  BY <1>0, BranchesGrow
<1>2. CASE UNCHANGED rotationVars
  <2>1. rotation = "rotated" => Part(freeze, branch'[config])
    <3>1. freeze \in Seq(Entry)
      BY DEF IInv, TypeOK
    <3>2. rotation = "rotated" => Part(freeze, branch[config])
      BY DEF IInv, OwnerInv
    <3>3. QED
      BY <1>0, <1>1, <3>1, <3>2, PartTransitive
  <2>2. QED
    BY <1>2, <2>1 DEF IInv, OwnerInv, rotationVars
<1>3. ASSUME RotatePlanned PROVE OwnerInv'
  <2>1. Part(freeze', branch'[config'])
    BY <1>1, <1>3 DEF RotatePlanned
  <2>2. QED
    BY <1>3, <2>1 DEF IInv, OwnerInv, RotatePlanned
<1>4. ASSUME RotateUnplanned PROVE OwnerInv'
  <2>1. PICK n \in 0..Len(branch[config]) : freeze' = SubSeq(branch[config], 1, n)
    BY <1>4 DEF RotateUnplanned
  <2>2. UNCHANGED <<branch, config>>
    BY <1>4 DEF RotateUnplanned
  <2>3. /\ Len(branch[config]) \in Nat
        /\ Len(SubSeq(branch[config], 1, n)) = n
        /\ \A i \in 1..n : SubSeq(branch[config], 1, n)[i] = branch[config][i]
    BY <1>0, <2>1
  <2>4. Part(freeze', branch'[config'])
    BY <2>1, <2>2, <2>3 DEF Part
  <2>5. QED
    BY <1>4, <2>4 DEF IInv, OwnerInv, RotateUnplanned
<1>5. ASSUME PublishBranch PROVE OwnerInv'
  BY <1>5 DEF IInv, OwnerInv, PublishBranch
<1>6. ASSUME OverwriteSecret PROVE OwnerInv'
  BY <1>6 DEF IInv, OwnerInv, OverwriteSecret
<1>7. ASSUME MergeConfig PROVE OwnerInv'
  BY <1>7 DEF IInv, OwnerInv, MergeConfig
<1>8. UNCHANGED rotationVars \/ OwnerStep
  BY DEF Next, vars, PushCommit, Rerun, JobStep, StartRecord, Fetch, JobFails,
         RecordRefused, RecordAdds, RecordFindsEntry, PushAccepted, PushRejected,
         PushUnanswered, AttemptFailed, Exit, PushLands, PushLost
<1>9. QED
  BY <1>2, <1>3, <1>4, <1>5, <1>6, <1>7, <1>8 DEF OwnerStep

\* What is proper of an entry after the step.
LEMMA ProperNext ==
    ASSUME IInv, [Next]_vars, NEW e, NEW x \in Entry, Proper(e, x),
           NEW d, NEW i, branch'[d][i] = x
    PROVE  Proper(e, branch[d][i])'
<1>1. x.key = e /\ pc'[x.run] # "idle" /\ epochOf'[x.run] = e
  BY ProperStays DEF Proper
<1>2. QED
  BY <1>1 DEF Proper

LEMMA LogsInvStep == ASSUME IInv, [Next]_vars PROVE LogsInv'
<1> SUFFICES ASSUME NEW e \in Epoch, NEW i \in 1..Len(branch'[e])
             PROVE  Proper(e, branch[e][i])'
  BY DEF LogsInv
<1>1. branch[e] \in Seq(Entry)
  BY DEF IInv, TypeOK
<1>2. ASSUME i \in 1..Len(branch[e]), branch'[e][i] = branch[e][i]
      PROVE  Proper(e, branch[e][i])'
  <2>1. Proper(e, branch[e][i]) /\ branch[e][i] \in Entry
    BY <1>1, <1>2 DEF IInv, LogsInv
  <2>2. QED
    BY <1>2, <2>1, ProperNext
<1>3. CASE UNCHANGED branch
  BY <1>2, <1>3
<1>4. ASSUME NEW d \in Epoch, NEW x \in Entry, Adds(d, x)
      PROVE  Proper(e, branch[e][i])'
  <2>1. CASE branch'[e] = branch[e]
    BY <1>2, <2>1
  <2>2. CASE d = e /\ branch'[e] = Append(branch[e], x)
    <3>1. CASE i \in 1..Len(branch[e])
      BY <1>1, <1>2, <2>2, <3>1
    <3>2. CASE i = Len(branch[e]) + 1
      <4>1. branch'[e][i] = x
        BY <1>1, <2>2, <3>2
      <4>2. QED
        BY <1>4, <2>2, <4>1, ProperNext DEF Adds
    <3>3. QED
      BY <1>1, <2>2, <3>1, <3>2
  <2>3. QED
    BY <1>4, <2>1, <2>2 DEF Adds, IInv, TypeOK
<1>5. QED
  BY <1>3, <1>4, StepAdds

\* A push that a job sends is one ahead of its epoch's branch.
LEMMA SentIsProper ==
    ASSUME IInv, NEW r \in Runs, pc[r] = "push"
    PROVE  /\ epochOf[r] <= config
           /\ OneAhead(epochOf[r], work[r])
           /\ Proper(epochOf[r], work[r][Len(work[r])])
<1>1. JobInv(r)
  BY DEF IInv
<1>2. Proper(epochOf[r], EntryOf(r))
  BY <1>1 DEF JobInv, Proper, EntryOf
<1>3. QED
  BY <1>1, <1>2 DEF JobInv

\* A push under way was under way before, or is being sent.
LEMMA PushesAreSent ==
    ASSUME [Next]_vars, NEW push \in inflight'
    PROVE  \/ push \in inflight
           \/ \E r \in Runs : /\ pc[r] = "push"
                              /\ push = [epoch |-> epochOf[r], commits |-> work[r]]
<1>1. CASE UNCHANGED inflight
  BY <1>1
<1>2. ASSUME NEW r \in Runs, PushUnanswered(r)
      PROVE  \/ push \in inflight
             \/ pc[r] = "push" /\ push = [epoch |-> epochOf[r], commits |-> work[r]]
  BY <1>2 DEF PushUnanswered
<1>3. ASSUME NEW lost \in inflight, PushLands(lost) \/ PushLost(lost)
      PROVE  push \in inflight
  BY <1>3 DEF PushLands, PushLost
<1>4. ASSUME NEW r \in Runs,
             PushCommit(r) \/ Rerun(r) \/ (JobStep(r) /\ ~PushUnanswered(r))
      PROVE  UNCHANGED inflight
  BY <1>4 DEF PushCommit, Rerun, JobStep, StartRecord, Fetch, JobFails, RecordRefused,
              RecordAdds, RecordFindsEntry, PushAccepted, PushRejected
<1>5. ASSUME OwnerStep PROVE UNCHANGED inflight
  BY <1>5 DEF OwnerStep, RotatePlanned, RotateUnplanned, PublishBranch, OverwriteSecret,
              MergeConfig
<1>6. CASE UNCHANGED vars
  BY <1>6 DEF vars
<1>7. QED
  BY <1>1, <1>2, <1>3, <1>4, <1>5, <1>6 DEF Next

\* What may be pushed may be pushed after any step.
LEMMA PushableStays ==
    ASSUME IInv, [Next]_vars, NEW e \in Epoch, NEW h \in Seq(Entry),
           e <= config, OneAhead(e, h), Proper(e, h[Len(h)])
    PROVE  e <= config' /\ OneAhead(e, h)' /\ Proper(e, h[Len(h)])'
<1>1. e \in Nat /\ config \in Nat /\ config' \in Nat
  <2>1. TypeOK /\ TypeOK'
    BY TypeStep DEF IInv
  <2>2. QED
    BY <2>1 DEF TypeOK, Epoch
<1>2. e <= config'
  BY <1>1, ConfigGrows
<1>3. h[Len(h)] \in Entry
  BY DEF OneAhead
<1>4. Proper(e, h[Len(h)])'
  BY <1>3, ProperStays
<1>5. QED
  BY <1>2, <1>4, OneAheadStays

LEMMA PushesInvStep == ASSUME IInv, [Next]_vars PROVE PushesInv'
<1> SUFFICES ASSUME NEW push \in inflight'
             PROVE  /\ push.epoch <= config'
                    /\ OneAhead(push.epoch, push.commits)'
                    /\ Proper(push.epoch, push.commits[Len(push.commits)])'
  BY DEF PushesInv
<1>1. CASE push \in inflight
  <2>1. push.epoch \in Epoch /\ push.commits \in Seq(Entry)
    BY <1>1 DEF IInv, TypeOK
  <2>2. /\ push.epoch <= config
        /\ OneAhead(push.epoch, push.commits)
        /\ Proper(push.epoch, push.commits[Len(push.commits)])
    BY <1>1 DEF IInv, PushesInv
  <2>3. QED
    BY <2>1, <2>2, PushableStays
<1>2. ASSUME NEW r \in Runs, pc[r] = "push",
             push = [epoch |-> epochOf[r], commits |-> work[r]]
      PROVE  /\ push.epoch <= config'
             /\ OneAhead(push.epoch, push.commits)'
             /\ Proper(push.epoch, push.commits[Len(push.commits)])'
  <2>1. epochOf[r] \in Epoch /\ work[r] \in Seq(Entry)
    BY DEF IInv, TypeOK
  <2>2. push.epoch = epochOf[r] /\ push.commits = work[r]
    BY <1>2
  <2>3. QED
    BY <1>2, <2>1, <2>2, SentIsProper, PushableStays
<1>3. QED
  BY <1>1, <1>2, PushesAreSent

\* The entry that a job has just added is the last of what it will push, and
\* the rest is a part of its branch.
LEMMA AddedIsAhead ==
    ASSUME IInv, NEW r \in Runs, RecordAdds(r)
    PROVE  /\ keyOf[r] = epochOf[r]
           /\ work'[r] \in Seq(Entry)
           /\ OneAhead(epochOf[r], work'[r])
           /\ work'[r][Len(work'[r])] = EntryOf(r)
<1>0. TypeOK
  BY DEF IInv
<1>1. /\ epochOf[r] \in Epoch /\ work[r] \in Seq(Entry) /\ EntryOf(r) \in Entry
      /\ branch[epochOf[r]] \in Seq(Entry)
  BY <1>0, EntryTyped DEF TypeOK
<1>2. Part(work[r], branch[epochOf[r]])
  BY DEF IInv, JobInv, RecordAdds
<1>3. work'[r] = Append(work[r], EntryOf(r))
  BY <1>0 DEF TypeOK, RecordAdds
<1>4. /\ Len(work[r]) \in Nat /\ Len(branch[epochOf[r]]) \in Nat
      /\ Len(work'[r]) = Len(work[r]) + 1
      /\ \A i \in 1..Len(work[r]) : work'[r][i] = work[r][i]
      /\ work'[r][Len(work[r]) + 1] = EntryOf(r)
      /\ work'[r] \in Seq(Entry)
  BY <1>1, <1>3
<1>5. OneAhead(epochOf[r], work'[r])
  <2>1. Len(work'[r]) > 0 /\ Len(work'[r]) - 1 = Len(work[r])
    BY <1>4
  <2>2. /\ Len(work[r]) <= Len(branch[epochOf[r]])
        /\ \A i \in 1..Len(work[r]) : branch[epochOf[r]][i] = work'[r][i]
    BY <1>2, <1>4 DEF Part
  <2>3. QED
    BY <2>1, <2>2 DEF OneAhead
<1>6. keyOf[r] = epochOf[r]
  BY DEF RecordAdds, Opens
<1>7. QED
  BY <1>4, <1>5, <1>6

\* A job exits with 0 when its entry is in the branch.
LEMMA ExitZeroStep ==
    ASSUME IInv, [Next]_vars, NEW r \in Runs, pc'[r] = "exit0"
    PROVE  Contains(branch[epochOf[r]], EntryOf(r))'
<1>0. TypeOK /\ Effects(r)
  BY StepEffects DEF IInv
<1>1. epochOf[r] \in Epoch /\ work[r] \in Seq(Entry) /\ branch[epochOf[r]] \in Seq(Entry)
  BY <1>0 DEF TypeOK
<1>2. branch'[epochOf[r]] \in Seq(Entry)
  <2>1. TypeOK'
    BY TypeStep
  <2>2. QED
    BY <1>1, <2>1 DEF TypeOK
<1>3. epochOf'[r] = epochOf[r]
  BY <1>0 DEF Effects
<1>4. CASE /\ Contains(branch[epochOf[r]], EntryOf(r))
           /\ keyOf'[r] = keyOf[r] /\ runAttempt'[r] = runAttempt[r]
  <2>1. Contains(branch'[epochOf[r]], EntryOf(r))
    BY <1>1, <1>2, <1>4, BranchesGrow, PartContains
  <2>2. EntryOf(r)' = EntryOf(r)
    BY <1>4 DEF EntryOf
  <2>3. QED
    BY <1>3, <2>1, <2>2
<1>5. CASE pc[r] = "exit0" /\ keyOf'[r] = keyOf[r] /\ runAttempt'[r] = runAttempt[r]
  BY <1>4, <1>5 DEF IInv, JobInv
<1>6. CASE RecordFindsEntry(r)
  <2>1. /\ Contains(work[r], EntryOf(r)) /\ UNCHANGED <<keyOf, runAttempt>>
        /\ Part(work[r], branch[epochOf[r]])
    BY <1>6 DEF IInv, JobInv, RecordFindsEntry, Exit
  <2>2. QED
    BY <1>1, <1>4, <2>1, PartContains
<1>7. CASE PushAccepted(r)
  <2>1. pc[r] = "push" /\ UNCHANGED <<keyOf, runAttempt>> /\ branch'[epochOf[r]] = work[r]
    BY <1>0, <1>1, <1>7 DEF PushAccepted, Exit, TypeOK
  <2>2. Len(work[r]) > 0 /\ work[r][Len(work[r])] = EntryOf(r)
    BY <2>1 DEF IInv, JobInv, OneAhead
  <2>3. Contains(work[r], EntryOf(r))
    BY <1>1, <2>2 DEF Contains
  <2>4. EntryOf(r)' = EntryOf(r)
    BY <2>1 DEF EntryOf
  <2>5. QED
    BY <1>3, <2>1, <2>3, <2>4
<1>8. QED
  BY <1>0, <1>5, <1>6, <1>7 DEF Effects

LEMMA JobInvStep == ASSUME IInv, [Next]_vars, NEW r \in Runs PROVE JobInv(r)'
<1>0. TypeOK /\ TypeOK' /\ Effects(r) /\ JobInv(r)
  BY TypeStep, StepEffects DEF IInv
<1>1. /\ epochOf[r] \in Epoch /\ work[r] \in Seq(Entry)
      /\ branch[epochOf[r]] \in Seq(Entry) /\ branch'[epochOf[r]] \in Seq(Entry)
  BY <1>0 DEF TypeOK
<1>2. epochOf'[r] <= config'
  <2>1. epochOf[r] \in Nat /\ config \in Nat /\ config' \in Nat
    BY <1>0 DEF TypeOK, Epoch
  <2>2. epochOf'[r] = epochOf[r] \/ epochOf'[r] = config
    BY <1>0 DEF Effects
  <2>3. epochOf[r] <= config
    BY <1>0 DEF JobInv
  <2>4. QED
    BY <2>1, <2>2, <2>3, ConfigGrows
<1>3. ASSUME pc'[r] = "record" PROVE Part(work'[r], branch'[epochOf'[r]])
  <2>1. epochOf'[r] = epochOf[r]
    BY <1>0, <1>3 DEF Effects
  <2>2. CASE pc[r] = "record" /\ work'[r] = work[r]
    <3>1. Part(work[r], branch[epochOf[r]])
      BY <1>0, <2>2 DEF JobInv
    <3>2. Part(work[r], branch'[epochOf[r]])
      BY <1>1, <3>1, BranchesGrow, PartTransitive
    <3>3. QED
      BY <2>1, <2>2, <3>2
  <2>3. CASE work'[r] = branch[epochOf[r]]
    BY <1>1, <2>1, <2>3, BranchesGrow
  <2>4. QED
    BY <1>0, <1>3, <2>2, <2>3 DEF Effects
<1>4. ASSUME pc'[r] = "push"
      PROVE  /\ keyOf'[r] = epochOf'[r]
             /\ OneAhead(epochOf[r], work[r])'
             /\ work'[r][Len(work'[r])] = EntryOf(r)'
  <2>1. epochOf'[r] = epochOf[r]
    BY <1>0, <1>4 DEF Effects
  <2>2. /\ keyOf'[r] = keyOf[r] /\ runAttempt'[r] = runAttempt[r]
        /\ keyOf[r] = epochOf[r]
        /\ work'[r] \in Seq(Entry)
        /\ OneAhead(epochOf[r], work'[r])
        /\ work'[r][Len(work'[r])] = EntryOf(r)
    <3>1. CASE /\ pc[r] = "push" /\ work'[r] = work[r]
               /\ keyOf'[r] = keyOf[r] /\ runAttempt'[r] = runAttempt[r]
      BY <1>0, <1>1, <3>1 DEF JobInv
    <3>2. CASE RecordAdds(r)
      <4>1. UNCHANGED <<keyOf, runAttempt>>
        BY <3>2 DEF RecordAdds
      <4>2. QED
        BY <3>2, <4>1, AddedIsAhead
    <3>3. QED
      BY <1>0, <1>4, <3>1, <3>2 DEF Effects
  <2>3. EntryOf(r)' = EntryOf(r)
    BY <2>2 DEF EntryOf
  <2>4. OneAhead(epochOf[r], work[r])'
    <3>1. ASSUME NEW h \in Seq(Entry), h = work'[r], OneAhead(epochOf[r], h)
          PROVE  OneAhead(epochOf[r], work[r])'
      <4>1. /\ Len(h) > 0 /\ Len(h) - 1 <= Len(branch'[epochOf[r]])
            /\ \A i \in 1..Len(h) - 1 : branch'[epochOf[r]][i] = h[i]
        BY <1>1, <3>1, OneAheadStays DEF OneAhead
      <4>2. QED
        BY <2>1, <3>1, <4>1 DEF OneAhead
    <3>2. QED
      BY <2>2, <3>1
  <2>5. QED
    BY <2>1, <2>2, <2>3, <2>4
<1>5. pc'[r] = "exit0" => Contains(branch[epochOf[r]], EntryOf(r))'
  BY ExitZeroStep
<1>6. QED
  BY <1>2, <1>3, <1>4, <1>5 DEF JobInv

LEMMA InitEstablishes == Init => IInv
<1> SUFFICES ASSUME Init PROVE IInv
  OBVIOUS
<1>1. 1 \in Epoch
  BY ConstantsAssumption DEF Epoch
<1>2. TypeOK
  <2>1. \A r \in Runs : 1 \in 1..MaxRunAttempts[r]
    BY ConstantsAssumption
  <2>2. \A r \in Runs : 1 \in RunAttempt
    BY <2>1 DEF RunAttempt
  <2>3. <<>> \in Seq(Entry)
    OBVIOUS
  <2>4. QED
    BY <1>1, <2>2, <2>3 DEF Init, TypeOK
<1>3. OwnerInv
  BY DEF Init, OwnerInv
<1>4. LogsInv
  BY DEF Init, LogsInv
<1>5. PushesInv
  BY DEF Init, PushesInv
<1>6. \A r \in Runs : JobInv(r)
  BY DEF Init, JobInv
<1>7. QED
  BY <1>2, <1>3, <1>4, <1>5, <1>6 DEF IInv

LEMMA NextKeeps == IInv /\ [Next]_vars => IInv'
BY TypeStep, OwnerInvStep, LogsInvStep, PushesInvStep, JobInvStep DEF IInv

\* The invariant holds always: the owner's variables move in step, every entry
\* of a log and of every push under way belongs to its epoch, and what a job
\* pushes is one entry ahead of a part of its branch.
THEOREM InvariantHolds == Spec => []IInv
BY InitEstablishes, NextKeeps, PTL DEF Spec
-----------------------------------------------------------------------------
\* Type correctness: the rotation never leaves the range of epochs, and no run
\* is started more often than allowed.
THEOREM TypeCorrect == Spec => []TypeOK
<1>1. IInv => TypeOK
  BY DEF IInv
<1>2. QED
  BY <1>1, InvariantHolds, PTL

\* A record job that exits with 0 has its entry in the branch of its commit's
\* epoch, whatever steps of a rotation it overlapped.
THEOREM ExitZeroMeansRecordedHolds == Spec => []ExitZeroMeansRecorded
<1>1. IInv => ExitZeroMeansRecorded
  BY DEF IInv, JobInv, ExitZeroMeansRecorded
<1>2. QED
  BY <1>1, InvariantHolds, PTL

\* Each epoch's log is signed with one key, although the key of a job and its
\* epoch come from different places at different times.
THEOREM OneKeyPerEpochHolds == Spec => []OneKeyPerEpoch
<1>1. IInv => OneKeyPerEpoch
  BY DEF IInv, LogsInv, Proper, OneKeyPerEpoch
<1>2. QED
  BY <1>1, InvariantHolds, PTL

\* A run that is started again after a rotation does not record in another
\* epoch than before.
THEOREM OneEpochPerRunHolds == Spec => []OneEpochPerRun
<1>1. IInv => OneEpochPerRun
  BY DEF IInv, LogsInv, Proper, OneEpochPerRun
<1>2. QED
  BY <1>1, InvariantHolds, PTL
-----------------------------------------------------------------------------
(***************************************************************************)
(* A drained epoch is closed.                                               *)
(***************************************************************************)
LEMMA SecretGrows == ASSUME IInv, [Next]_vars PROVE secret' = secret \/ secret' = secret + 1
<1>1. ASSUME OverwriteSecret PROVE secret' = secret + 1
  BY <1>1 DEF IInv, OwnerInv, OverwriteSecret
<1>2. ASSUME ~OverwriteSecret PROVE secret' = secret
  BY <1>2 DEF Next, OwnerStep, RotatePlanned, RotateUnplanned, PublishBranch,
         MergeConfig, rotationVars, vars, PushCommit, Rerun, JobStep, StartRecord, Fetch,
         JobFails, RecordRefused, RecordAdds, RecordFindsEntry, PushAccepted, PushRejected,
         PushUnanswered, AttemptFailed, Exit, PushLands, PushLost
<1>3. QED
  BY <1>1, <1>2

LEMMA DrainedStep ==
    ASSUME IInv, [Next]_vars, NEW e \in Epoch, Drained(e)
    PROVE  Drained(e)' /\ branch'[e] = branch[e]
<1>0. TypeOK /\ TypeOK'
  BY TypeStep DEF IInv
<1>1. secret > e /\ secret' > e
  <2>1. secret \in Nat /\ secret' \in Nat /\ e \in Nat
    BY <1>0 DEF TypeOK, Epoch
  <2>2. QED
    BY <2>1, SecretGrows DEF Drained
<1>2. ASSUME NEW r \in Runs, pc'[r] \in HoldsKey PROVE keyOf'[r] # e
  <2>1. secret # e
    BY <1>0, <1>1 DEF TypeOK, Epoch
  <2>2. Effects(r)
    BY <1>0, StepEffects
  <2>3. QED
    BY <1>2, <2>1, <2>2 DEF Effects, Drained
<1>3. ASSUME NEW r \in Runs, pc[r] = "push" PROVE epochOf[r] # e /\ keyOf[r] # e
  <2>1. keyOf[r] = epochOf[r]
    BY <1>3 DEF IInv, JobInv
  <2>2. QED
    BY <1>3, <2>1 DEF Drained, HoldsKey
<1>4. ASSUME NEW push \in inflight' PROVE push.epoch # e
  <2>1. CASE push \in inflight
    BY <2>1 DEF Drained
  <2>2. ASSUME NEW r \in Runs, pc[r] = "push",
               push = [epoch |-> epochOf[r], commits |-> work[r]]
        PROVE  push.epoch # e
    BY <1>3, <2>2
  <2>3. QED
    BY <2>1, <2>2, PushesAreSent
<1>5. branch'[e] = branch[e]
  <2>1. ASSUME NEW d \in Epoch, NEW x \in Entry, Adds(d, x) PROVE d # e
    BY <1>3, <2>1 DEF Adds, Drained
  <2>2. ASSUME NEW d \in Epoch, NEW x \in Entry, Adds(d, x)
        PROVE  branch'[e] = branch[e]
    BY <1>0, <2>1, <2>2 DEF Adds, TypeOK
  <2>3. QED
    BY <2>2, StepAdds
<1>6. QED
  BY <1>1, <1>2, <1>4, <1>5 DEF Drained

\* Once the old key is out of the secret and the jobs and pushes that use it
\* are over, no step moves the old epoch's branch or lets a job start that
\* could.
THEOREM DrainedIsClosedHolds == Spec => DrainedIsClosed
<1>1. IInv /\ [Next]_vars =>
          [\A e \in Epoch : Drained(e) => Drained(e)' /\ branch'[e] = branch[e]]_vars
  BY DrainedStep
<1>2. QED
  BY <1>1, InvariantHolds, PTL DEF Spec, DrainedIsClosed
-----------------------------------------------------------------------------
(***************************************************************************)
(* The epochs' branches implement the abstract chain.                       *)
(***************************************************************************)
LEMMA ChainInit == Init => Chain!Init
BY DEF Init, Chain!Init, Epoch

\* Publishing a branch links the new epoch to what the last one's branch
\* begins with.
LEMMA PublishLinks ==
    ASSUME IInv, PublishBranch
    PROVE  \E n \in 0..Len(branch[published]) : Chain!Link(n)
<1>0. TypeOK
  BY DEF IInv
<1>1. /\ published = config /\ config < MaxEpoch /\ Part(freeze, branch[config])
      /\ genesis' = [genesis EXCEPT ![config + 1] = freeze]
      /\ published' = config + 1 /\ UNCHANGED branch
  BY DEF IInv, OwnerInv, PublishBranch
<1>2. branch[config] \in Seq(Entry) /\ freeze \in Seq(Entry)
  BY <1>0 DEF TypeOK
<1>3. Len(freeze) \in 0..Len(branch[config])
  BY <1>1, <1>2 DEF Part
<1>4. freeze = SubSeq(branch[config], 1, Len(freeze))
  <2>1. /\ SubSeq(branch[config], 1, Len(freeze)) \in Seq(Entry)
        /\ Len(SubSeq(branch[config], 1, Len(freeze))) = Len(freeze)
        /\ \A i \in 1..Len(freeze) :
               SubSeq(branch[config], 1, Len(freeze))[i] = branch[config][i]
    BY <1>2, <1>3
  <2>2. \A i \in 1..Len(freeze) : freeze[i] = branch[config][i]
    BY <1>1 DEF Part
  <2>3. QED
    BY <1>2, <2>1, <2>2
<1>5. Chain!Link(Len(freeze))
  BY <1>1, <1>4 DEF Chain!Link
<1>6. QED
  BY <1>1, <1>3, <1>5

LEMMA ChainStep == IInv /\ [Next]_vars => [Chain!Next]_<<published, branch, genesis>>
<1> SUFFICES ASSUME IInv, [Next]_vars, ~UNCHANGED <<published, branch, genesis>>
             PROVE  Chain!Next
  OBVIOUS
<1>1. CASE PublishBranch
  BY <1>1, PublishLinks DEF Chain!Next
<1>2. CASE ~PublishBranch
  <2>1. UNCHANGED <<published, genesis>>
    BY <1>2 DEF Next, OwnerStep, RotatePlanned, RotateUnplanned, OverwriteSecret,
         MergeConfig, rotationVars, vars, PushCommit, Rerun, JobStep, StartRecord, Fetch,
         JobFails, RecordRefused, RecordAdds, RecordFindsEntry, PushAccepted, PushRejected,
         PushUnanswered, AttemptFailed, Exit, PushLands, PushLost
  <2>2. PICK e \in Epoch, x \in Entry : Adds(e, x)
    BY <2>1, StepAdds
  <2>3. e <= published
    <3>1. e \in Nat /\ config \in Nat /\ published \in Nat
      BY DEF IInv, TypeOK, Epoch
    <3>2. rotation \in {"none", "rotated", "published", "keyed"}
      BY DEF IInv, TypeOK
    <3>3. published = config \/ published = config + 1
      BY <3>2 DEF IInv, OwnerInv
    <3>4. e <= config
      BY <2>2 DEF Adds
    <3>5. QED
      BY <3>1, <3>3, <3>4
  <2>4. Chain!Add(e, x)
    BY <2>1, <2>2, <2>3 DEF Adds, Chain!Add
  <2>5. QED
    BY <2>4 DEF Chain!Next, Epoch
<1>3. QED
  BY <1>1, <1>2

\* The branches and geneses, seen by a verifier, behave as an abstract chain:
\* logs grow by one entry at a time, and a genesis links to a prefix of the log
\* before it that stays its prefix.
THEOREM ImplementsChainHolds == Spec => ImplementsChain
<1>1. Spec => Chain!Init /\ [][Chain!Next]_<<published, branch, genesis>>
  BY ChainInit, ChainStep, InvariantHolds, PTL DEF Spec
<1>2. QED
  BY <1>1 DEF ImplementsChain, Chain!Spec
=============================================================================
