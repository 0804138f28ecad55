------------------------- MODULE EvidencePushProofs -------------------------
(***************************************************************************)
(* Proofs about EvidencePush, for any number of runs, re-runs and attempts. *)
(***************************************************************************)
EXTENDS EvidencePush, FiniteSetTheorems, SequenceTheorems, TLAPS

-----------------------------------------------------------------------------
(***************************************************************************)
(* Prefixes, pointwise.                                                     *)
(***************************************************************************)
\* IsPrefix(s, t) compares the two sequences position by position.
LEMMA PrefixPointwise ==
    ASSUME NEW S, NEW s \in Seq(S), NEW t \in Seq(S)
    PROVE  IsPrefix(s, t) <=>
               /\ Len(s) <= Len(t)
               /\ \A i \in 1..Len(s) : s[i] = t[i]
<1>1. /\ Len(s) \in Nat
      /\ Len(t) \in Nat
      /\ SubSeq(s, 1, Len(s)) = s
  OBVIOUS
<1>2. ASSUME Len(s) <= Len(t)
      PROVE  /\ SubSeq(t, 1, Len(s)) \in Seq(S)
             /\ Len(SubSeq(t, 1, Len(s))) = Len(s)
             /\ \A i \in 1..Len(s) : SubSeq(t, 1, Len(s))[i] = t[i]
  BY <1>1, <1>2
<1>3. QED
  BY <1>1, <1>2 DEF IsPrefix

\* The empty branch is a prefix of every branch, and every branch of itself.
LEMMA PrefixReflexive ==
    ASSUME NEW S, NEW s \in Seq(S)
    PROVE  IsPrefix(s, s) /\ IsPrefix(<<>>, s)
<1>1. IsPrefix(s, s)
  BY PrefixPointwise
<1>2. IsPrefix(<<>>, s)
  <2>1. <<>> \in Seq(S) /\ Len(<<>>) = 0 /\ Len(s) \in Nat
    OBVIOUS
  <2>2. Len(<<>>) <= Len(s) /\ 1..Len(<<>>) = {}
    BY <2>1
  <2>3. \A t \in Seq(S) : Len(t) <= Len(s) /\ 1..Len(t) = {} => IsPrefix(t, s)
    BY PrefixPointwise
  <2>4. QED
    BY <2>1, <2>2, <2>3, Zenon
<1>3. QED
  BY <1>1, <1>2

LEMMA PrefixTransitive ==
    ASSUME NEW S, NEW s \in Seq(S), NEW t \in Seq(S), NEW u \in Seq(S),
           IsPrefix(s, t), IsPrefix(t, u)
    PROVE  IsPrefix(s, u)
<1>1. /\ Len(s) \in Nat /\ Len(t) \in Nat /\ Len(u) \in Nat
  OBVIOUS
<1>2. /\ Len(s) <= Len(t)
      /\ \A i \in 1..Len(s) : s[i] = t[i]
  BY PrefixPointwise
<1>3. /\ Len(t) <= Len(u)
      /\ \A i \in 1..Len(t) : t[i] = u[i]
  BY PrefixPointwise
<1>4. Len(s) <= Len(u) /\ \A i \in 1..Len(s) : s[i] = u[i]
  BY <1>1, <1>2, <1>3
<1>5. QED
  BY <1>4, PrefixPointwise
-----------------------------------------------------------------------------
(***************************************************************************)
(* The inductive invariant.                                                 *)
(***************************************************************************)
\* No job has two entries.
NoDuplicates(branch) ==
    \A i, k \in 1..Len(branch) : branch[i].job = branch[k].job => i = k

\* A history one commit longer than a part of the branch: what a push sends.
OneAhead(branch) ==
    /\ Len(branch) > 0
    /\ IsPrefix(SubSeq(branch, 1, Len(branch) - 1), remote)

\* Every history anywhere is free of duplicates.
Distinct ==
    /\ NoDuplicates(remote)
    /\ \A c \in inflight : NoDuplicates(c)
    /\ \A j \in Job : NoDuplicates(tracking[j]) /\ NoDuplicates(work[j])

\* What a job fetched is a part of the branch; what it pushes is one commit
\* ahead of such a part, and that commit is its own.
Anchored ==
    /\ \A c \in inflight : OneAhead(c)
    /\ \A j \in Job :
           /\ IsPrefix(tracking[j], remote)
           /\ pc[j] = "record" => IsPrefix(work[j], remote)
           /\ pc[j] \in {"commit", "push"} =>
                  /\ OneAhead(work[j])
                  /\ work[j][Len(work[j])].job = j

\* filelog does not count an entry file that its checkpoint does not cover.
OrphanNotCounted == "count" \notin OrphanReaction

\* The script sleeps only when an attempt is left.
AttemptLeft ==
    \A j \in Job : pc[j] = "sleep" => attempt[j] < MaxAttempts

TypeInv == TypeOK /\ AttemptLeft

SafetyInv == TypeInv /\ Distinct /\ Anchored
-----------------------------------------------------------------------------
(***************************************************************************)
(* Type correctness.                                                        *)
(***************************************************************************)
\* Leaving the loop body, by any of its exits, keeps the types.
LEMMA ExitTypes ==
    ASSUME TypeOK, NEW j \in Job, NEW code \in Exited, Exit(j, code)
    PROVE  /\ pc' \in [Job -> {"idle"} \cup Running \cup Exited]
           /\ attempt' \in [Job -> 1..MaxAttempts]
           /\ tracking' \in [Job -> Seq(Commit)]
           /\ work' \in [Job -> Seq(Commit)]
           /\ orphan' \in [Job -> Nat]
BY DEF TypeOK, Exit, DiscardWorkingCopy

LEMMA ExitZeroTypes ==
    ASSUME TypeOK, NEW j \in Job, ExitZero(j), UNCHANGED inflight,
           remote' \in Seq(Commit)
    PROVE  TypeOK'
<1>1. Exit(j, "exit0") /\ "exit0" \in Exited
  BY DEF ExitZero, Exited
<1>2. summary' \in [Job -> Seq(Commit)]
  BY DEF TypeOK, ExitZero
<1>3. inflight' \in SUBSET Seq(Commit)
  BY DEF TypeOK
<1>4. QED
  BY <1>1, <1>2, <1>3, ExitTypes DEF TypeOK

LEMMA AttemptFailedTypes ==
    ASSUME TypeOK, NEW j \in Job, NEW leftover \in Nat,
           AttemptFailed(j, leftover), UNCHANGED remote,
           inflight' \in SUBSET Seq(Commit)
    PROVE  TypeOK'
<1>1. CASE /\ pc' = [pc EXCEPT ![j] = "sleep"]
           /\ orphan' = [orphan EXCEPT ![j] = leftover]
           /\ UNCHANGED <<attempt, tracking, work, summary>>
  BY <1>1 DEF TypeOK, Running
<1>2. CASE Exit(j, "exit1") /\ UNCHANGED summary
  <2>1. "exit1" \in Exited
    BY DEF Exited
  <2>2. QED
    BY <1>2, <2>1, ExitTypes DEF TypeOK
<1>3. QED
  BY <1>1, <1>2 DEF AttemptFailed

LEMMA TypeStep == TypeInv /\ [Next]_vars => TypeOK'
<1> SUFFICES ASSUME TypeOK, AttemptLeft, [Next]_vars
             PROVE  TypeOK'
  BY DEF TypeInv
<1> USE DEF Goto
<1>0. UNCHANGED <<remote, inflight>> =>
          remote' \in Seq(Commit) /\ inflight' \in SUBSET Seq(Commit)
  BY DEF TypeOK
<1>1. ASSUME NEW j \in Job, Start(j) PROVE TypeOK'
  BY <1>1 DEF TypeOK, Start, Running
<1>1a. ASSUME NEW j \in Job, SetupFails(j) PROVE TypeOK'
  BY <1>1a DEF TypeOK, SetupFails, Exited
<1>2. ASSUME NEW j \in Job, Fetch(j) PROVE TypeOK'
  BY <1>2 DEF TypeOK, Fetch, Running
<1>3. ASSUME NEW j \in Job, FetchFails(j) PROVE TypeOK'
  BY <1>0, <1>3, AttemptFailedTypes DEF TypeOK, FetchFails
<1>4. ASSUME NEW j \in Job, Reset(j) PROVE TypeOK'
  BY <1>4 DEF TypeOK, Reset, Running
<1>5. ASSUME NEW j \in Job, ResetFails(j) PROVE TypeOK'
  BY <1>0, <1>5, AttemptFailedTypes DEF TypeOK, ResetFails
<1>6. ASSUME NEW j \in Job, RecordAdds(j) PROVE TypeOK'
  <2>1. [job |-> j, try |-> attempt[j]] \in Commit
    BY DEF Commit, TypeOK
  <2>2. work' \in [Job -> Seq(Commit)]
    BY <1>6, <2>1 DEF TypeOK, RecordAdds
  <2>3. QED
    BY <1>6, <2>2 DEF TypeOK, RecordAdds, Running
<1>7. ASSUME NEW j \in Job, RecordFindsEntry(j) PROVE TypeOK'
  BY <1>0, <1>7, ExitZeroTypes DEF RecordFindsEntry
<1>8. ASSUME NEW j \in Job, RecordErrs(j) PROVE TypeOK'
  <2>1. Exit(j, "exit1") /\ "exit1" \in Exited /\ UNCHANGED <<remote, inflight, summary>>
    BY <1>8 DEF RecordErrs, Exited
  <2>2. QED
    BY <2>1, ExitTypes DEF TypeOK
<1>9. ASSUME NEW j \in Job, GitCommit(j) PROVE TypeOK'
  BY <1>9 DEF TypeOK, GitCommit, Running
<1>10. ASSUME NEW j \in Job, AddFails(j) PROVE TypeOK'
  <2>1. Len(work[j]) \in Nat
    BY DEF TypeOK
  <2>2. QED
    BY <1>0, <1>10, <2>1, AttemptFailedTypes DEF AddFails
<1>11. ASSUME NEW j \in Job, CommitFails(j) PROVE TypeOK'
  BY <1>0, <1>11, AttemptFailedTypes DEF CommitFails
<1>12. ASSUME NEW j \in Job, PushAccepted(j) PROVE TypeOK'
  <2>1. remote' \in Seq(Commit)
    BY <1>12 DEF TypeOK, PushAccepted
  <2>2. QED
    BY <1>12, <2>1, ExitZeroTypes DEF PushAccepted
<1>13. ASSUME NEW j \in Job, PushRejected(j) PROVE TypeOK'
  BY <1>0, <1>13, AttemptFailedTypes DEF TypeOK, PushRejected
<1>14. ASSUME NEW j \in Job, PushUnanswered(j) PROVE TypeOK'
  <2>1. inflight' \in SUBSET Seq(Commit) /\ UNCHANGED remote
    BY <1>14 DEF TypeOK, PushUnanswered
  <2>2. QED
    BY <1>14, <2>1, AttemptFailedTypes DEF TypeOK, PushUnanswered
<1>15. ASSUME NEW j \in Job, Wake(j) PROVE TypeOK'
  <2>1. attempt[j] + 1 \in 1..MaxAttempts
    BY <1>15, ConstantsAssumption DEF TypeOK, AttemptLeft, Wake
  <2>2. QED
    BY <1>15, <2>1 DEF TypeOK, Wake, Running
<1>16. ASSUME NEW j \in Job, Cancel(j) PROVE TypeOK'
  <2>1. Exit(j, "cancelled") /\ "cancelled" \in Exited /\ UNCHANGED <<remote, inflight, summary>>
    BY <1>16 DEF Cancel, Exited
  <2>2. QED
    BY <2>1, ExitTypes DEF TypeOK
<1>17. ASSUME NEW c \in inflight, PushLands(c) PROVE TypeOK'
  BY <1>17 DEF TypeOK, PushLands
<1>18. ASSUME NEW c \in inflight, PushLost(c) PROVE TypeOK'
  BY <1>18 DEF TypeOK, PushLost
<1>19. CASE UNCHANGED vars
  BY <1>19 DEF TypeOK, vars
<1>20. QED
  BY <1>1, <1>2, <1>3, <1>4, <1>5, <1>6, <1>7, <1>8, <1>9, <1>10, <1>11,
     <1>12, <1>13, <1>14, <1>15, <1>16, <1>17, <1>18, <1>19, <1>1a
     DEF Next, ScriptStep, Quiescent

LEMMA AttemptLeftStep == TypeInv /\ [Next]_vars => AttemptLeft'
<1> SUFFICES ASSUME TypeOK, AttemptLeft, [Next]_vars
             PROVE  AttemptLeft'
  BY DEF TypeInv
<1>1. ASSUME NEW j \in Job, NEW label, label # "sleep",
             pc' = [pc EXCEPT ![j] = label],
             \A i \in Job \ {j} : attempt'[i] = attempt[i]
      PROVE  AttemptLeft'
  BY <1>1 DEF TypeOK, AttemptLeft
<1>2. ASSUME NEW j \in Job, NEW leftover, AttemptFailed(j, leftover)
      PROVE  AttemptLeft'
  <2>1. CASE /\ attempt[j] < MaxAttempts
             /\ pc' = [pc EXCEPT ![j] = "sleep"]
             /\ UNCHANGED attempt
    BY <2>1 DEF TypeOK, AttemptLeft
  <2>2. CASE Exit(j, "exit1")
    BY <2>2, <1>1 DEF Exit
  <2>3. QED
    BY <1>2, <2>1, <2>2 DEF AttemptFailed
<1>3. ASSUME UNCHANGED <<pc, attempt>> PROVE AttemptLeft'
  BY <1>3 DEF AttemptLeft
<1>4. ASSUME NEW j \in Job,
             \/ Start(j) \/ SetupFails(j) \/ Fetch(j) \/ Reset(j) \/ RecordAdds(j)
             \/ RecordFindsEntry(j) \/ RecordErrs(j) \/ GitCommit(j)
             \/ PushAccepted(j) \/ Cancel(j)
      PROVE  AttemptLeft'
  <2>1. UNCHANGED attempt
    BY <1>4 DEF Start, SetupFails, Fetch, Reset, RecordAdds, RecordFindsEntry,
                RecordErrs, GitCommit, PushAccepted, Cancel, ExitZero, Exit
  <2>2. \E label \in {"fetch", "reset", "record", "commit", "push",
                      "exit0", "exit1", "cancelled"} :
            pc' = [pc EXCEPT ![j] = label]
    BY <1>4 DEF Start, SetupFails, Fetch, Reset, RecordAdds, RecordFindsEntry,
                RecordErrs, GitCommit, PushAccepted, Cancel, ExitZero, Exit, Goto
  <2>3. QED
    BY <1>1, <2>1, <2>2
<1>5. ASSUME NEW j \in Job,
             \/ FetchFails(j) \/ ResetFails(j) \/ AddFails(j) \/ CommitFails(j)
             \/ PushRejected(j) \/ PushUnanswered(j)
      PROVE  AttemptLeft'
  BY <1>2, <1>5 DEF FetchFails, ResetFails, AddFails, CommitFails,
                    PushRejected, PushUnanswered
<1>6. ASSUME NEW j \in Job, Wake(j) PROVE AttemptLeft'
  BY <1>1, <1>6 DEF TypeOK, Wake, Goto
<1>7. ASSUME NEW c \in inflight, PushLands(c) \/ PushLost(c) PROVE AttemptLeft'
  BY <1>3, <1>7 DEF PushLands, PushLost
<1>8. CASE UNCHANGED vars
  BY <1>3, <1>8 DEF vars
<1>9. QED
  BY <1>4, <1>5, <1>6, <1>7, <1>8 DEF Next, ScriptStep, Quiescent

LEMMA TypeInvariance == Spec => []TypeInv
<1>1. Init => TypeInv
  BY ConstantsAssumption DEF Init, TypeInv, TypeOK, AttemptLeft
<1>2. TypeInv /\ [Next]_vars => TypeInv'
  BY TypeStep, AttemptLeftStep DEF TypeInv
<1>3. QED
  BY <1>1, <1>2, PTL DEF Spec

\* Every variable has its type in every reachable state; in particular no
\* job ever starts more than MaxAttempts attempts (the seq of the script's
\* loop), which needs that it sleeps only when an attempt is left.
THEOREM TypeCorrect == Spec => []TypeOK
<1>1. TypeInv => TypeOK
  BY DEF TypeInv
<1>2. QED
  BY <1>1, TypeInvariance, PTL
-----------------------------------------------------------------------------
(***************************************************************************)
(* What one step can do to each variable.                                   *)
(***************************************************************************)
Effects ==
    /\ \/ remote' = remote
       \/ \E j \in Job : PushAccepted(j)
       \/ \E c \in inflight : PushLands(c)
    /\ \A c \in inflight' : \/ c \in inflight
                            \/ \E j \in Job : pc[j] = "push" /\ c = work[j]
    /\ \A j \in Job :
           /\ tracking'[j] \in {tracking[j], <<>>, remote}
           /\ \/ work'[j] \in {work[j], <<>>, tracking[j]}
              \/ RecordAdds(j)
           /\ pc'[j] = "record" => \/ pc[j] = "record" /\ work'[j] = work[j]
                                   \/ work'[j] = tracking[j]
           /\ pc'[j] \in {"commit", "push"} =>
                  \/ pc[j] \in {"commit", "push"} /\ work'[j] = work[j]
                  \/ RecordAdds(j)
           /\ pc'[j] = "exit0" => \/ pc[j] = "exit0"
                                  \/ RecordFindsEntry(j)
                                  \/ PushAccepted(j)
           /\ \/ summary'[j] = summary[j]
              \/ /\ RecordFindsEntry(j) \/ PushAccepted(j)
                 /\ summary'[j] = work[j]

\* A step that fails or ends job j and leaves the branch alone.
LEMMA LocalEffects ==
    ASSUME TypeOK, NEW j \in Job,
           UNCHANGED <<remote, summary>>,
           \A c \in inflight' : c \in inflight \/ (pc[j] = "push" /\ c = work[j]),
           \/ \E leftover : AttemptFailed(j, leftover)
           \/ \E code \in {"exit1", "cancelled"} : Exit(j, code)
    PROVE  Effects
<1>1. \E label \in {"sleep", "exit1", "cancelled"} :
          pc' = [pc EXCEPT ![j] = label]
  BY DEF AttemptFailed, Exit
<1>2. \/ UNCHANGED <<tracking, work>>
      \/ /\ tracking' = [tracking EXCEPT ![j] = <<>>]
         /\ work' = [work EXCEPT ![j] = <<>>]
  BY DEF AttemptFailed, Exit, DiscardWorkingCopy
<1>3. \A i \in Job : pc'[i] = pc[i] \/ pc'[i] \in {"sleep", "exit1", "cancelled"}
  BY <1>1 DEF TypeOK
<1>4. \A i \in Job : /\ tracking'[i] \in {tracking[i], <<>>}
                     /\ work'[i] \in {work[i], <<>>}
                     /\ i # j => work'[i] = work[i]
  BY <1>2 DEF TypeOK
<1>5. pc'[j] \in {"sleep", "exit1", "cancelled"}
  BY <1>1 DEF TypeOK
<1>6. QED
  BY <1>3, <1>4, <1>5 DEF Effects

LEMMA StepEffects == TypeOK /\ [Next]_vars => Effects
<1> SUFFICES ASSUME TypeOK, [Next]_vars
             PROVE  Effects
  OBVIOUS
<1> USE DEF Goto
<1>1. ASSUME NEW j \in Job, Start(j) PROVE Effects
  BY <1>1 DEF TypeOK, Start, Effects
<1>1a. ASSUME NEW j \in Job, SetupFails(j) PROVE Effects
  BY <1>1a DEF TypeOK, SetupFails, Effects
<1>2. ASSUME NEW j \in Job, Fetch(j) PROVE Effects
  BY <1>2 DEF TypeOK, Fetch, Effects
<1>3. ASSUME NEW j \in Job, FetchFails(j) PROVE Effects
  BY <1>3, LocalEffects DEF FetchFails, AttemptFailed
<1>4. ASSUME NEW j \in Job, Reset(j) PROVE Effects
  BY <1>4 DEF TypeOK, Reset, Effects
<1>5. ASSUME NEW j \in Job, ResetFails(j) PROVE Effects
  BY <1>5, LocalEffects DEF ResetFails, AttemptFailed
<1>6. ASSUME NEW j \in Job, RecordAdds(j) PROVE Effects
  <2>1. /\ UNCHANGED <<remote, inflight, tracking, summary>>
        /\ pc' = [pc EXCEPT ![j] = "commit"]
        /\ \A i \in Job \ {j} : work'[i] = work[i]
    BY <1>6 DEF TypeOK, RecordAdds
  <2>2. QED
    BY <1>6, <2>1 DEF TypeOK, Effects
<1>7. ASSUME NEW j \in Job, RecordFindsEntry(j) PROVE Effects
  BY <1>7 DEF TypeOK, RecordFindsEntry, ExitZero, Exit, DiscardWorkingCopy, Effects
<1>8. ASSUME NEW j \in Job, RecordErrs(j) PROVE Effects
  BY <1>8, LocalEffects DEF RecordErrs
<1>9. ASSUME NEW j \in Job, GitCommit(j) PROVE Effects
  BY <1>9 DEF TypeOK, GitCommit, Effects
<1>10. ASSUME NEW j \in Job, AddFails(j) PROVE Effects
  BY <1>10, LocalEffects DEF AddFails, AttemptFailed
<1>11. ASSUME NEW j \in Job, CommitFails(j) PROVE Effects
  BY <1>11, LocalEffects DEF CommitFails, AttemptFailed
<1>12. ASSUME NEW j \in Job, PushAccepted(j) PROVE Effects
  BY <1>12 DEF TypeOK, PushAccepted, ExitZero, Exit, DiscardWorkingCopy, Effects
<1>13. ASSUME NEW j \in Job, PushRejected(j) PROVE Effects
  BY <1>13, LocalEffects DEF PushRejected, AttemptFailed
<1>14. ASSUME NEW j \in Job, PushUnanswered(j) PROVE Effects
  BY <1>14, LocalEffects DEF PushUnanswered, AttemptFailed
<1>15. ASSUME NEW j \in Job, Wake(j) PROVE Effects
  BY <1>15 DEF TypeOK, Wake, Effects
<1>16. ASSUME NEW j \in Job, Cancel(j) PROVE Effects
  BY <1>16, LocalEffects DEF Cancel
<1>17. ASSUME NEW c \in inflight, PushLands(c) PROVE Effects
  BY <1>17 DEF TypeOK, PushLands, Effects
<1>18. ASSUME NEW c \in inflight, PushLost(c) PROVE Effects
  BY <1>18 DEF TypeOK, PushLost, Effects
<1>19. CASE UNCHANGED vars
  BY <1>19 DEF TypeOK, vars, Effects
<1>20. QED
  BY <1>1, <1>2, <1>3, <1>4, <1>5, <1>6, <1>7, <1>8, <1>9, <1>10, <1>11,
     <1>12, <1>13, <1>14, <1>15, <1>16, <1>17, <1>18, <1>19, <1>1a
     DEF Next, ScriptStep, Quiescent
-----------------------------------------------------------------------------
(***************************************************************************)
(* Facts about histories.                                                   *)
(***************************************************************************)
LEMMA AppendNoDuplicates ==
    ASSUME NEW s \in Seq(Commit), NEW c \in Commit,
           NoDuplicates(s), c.job \notin JobsIn(s)
    PROVE  NoDuplicates(Append(s, c))
<1>1. /\ Len(s) \in Nat
      /\ Len(Append(s, c)) = Len(s) + 1
      /\ \A i \in 1..Len(s) : Append(s, c)[i] = s[i]
      /\ Append(s, c)[Len(s) + 1] = c
  OBVIOUS
<1>2. \A i \in 1..Len(s) : s[i].job # c.job
  BY DEF JobsIn
<1>3. QED
  BY <1>1, <1>2 DEF NoDuplicates

\* A branch that grew still holds the jobs it held.
LEMMA JobsInGrow ==
    ASSUME NEW s \in Seq(Commit), NEW t \in Seq(Commit), IsPrefix(s, t)
    PROVE  JobsIn(s) \subseteq JobsIn(t)
<1>1. Len(s) \in Nat /\ Len(t) \in Nat
  OBVIOUS
<1>2. Len(s) <= Len(t) /\ \A i \in 1..Len(s) : s[i] = t[i]
  BY PrefixPointwise
<1>3. QED
  BY <1>1, <1>2 DEF JobsIn

\* A history without its last commit.
LEMMA ParentIsSeq ==
    ASSUME NEW S, NEW s \in Seq(S), Len(s) > 0
    PROVE  /\ SubSeq(s, 1, Len(s) - 1) \in Seq(S)
           /\ Len(SubSeq(s, 1, Len(s) - 1)) = Len(s) - 1
           /\ \A i \in 1..(Len(s) - 1) : SubSeq(s, 1, Len(s) - 1)[i] = s[i]
<1>1. PICK n \in Nat : Len(s) = n + 1
  <2>1. Len(s) \in Nat
    OBVIOUS
  <2>2. Len(s) - 1 \in Nat /\ Len(s) = (Len(s) - 1) + 1
    BY <2>1
  <2>3. QED
    BY <2>2
<1>2. Len(s) - 1 = n /\ 1 \in Int /\ n \in Int
  BY <1>1
<1>3. \A i \in 1..n : s[i] \in S
  BY <1>1
<1>4. /\ SubSeq(s, 1, n) \in Seq(S)
      /\ Len(SubSeq(s, 1, n)) = n
      /\ \A i \in 1..n : SubSeq(s, 1, n)[i] = s[i]
  BY <1>3
<1>5. QED
  BY <1>2, <1>4

LEMMA AppendOneAhead ==
    ASSUME TypeOK, NEW s \in Seq(Commit), NEW c \in Commit,
           IsPrefix(s, remote)
    PROVE  /\ OneAhead(Append(s, c))
           /\ Append(s, c)[Len(Append(s, c))] = c
<1>1. Len(s) \in Nat /\ Len(Append(s, c)) = Len(s) + 1
  OBVIOUS
<1>2. SubSeq(Append(s, c), 1, Len(s)) = s
  BY <1>1, HeadTailAppend, SubSeqFull, AppendProperties
<1>3. /\ Len(Append(s, c)) - 1 = Len(s)
      /\ Len(Append(s, c)) > 0
      /\ Append(s, c)[Len(s) + 1] = c
  BY <1>1
<1>4. QED
  BY <1>1, <1>2, <1>3 DEF OneAhead
-----------------------------------------------------------------------------
(***************************************************************************)
(* The safety invariant.                                                    *)
(***************************************************************************)
\* No step takes anything off the branch.
LEMMA RemoteGrows ==
    ASSUME TypeOK, Effects
    PROVE  IsPrefix(remote, remote')
<1>1. CASE remote' = remote
  BY <1>1, PrefixReflexive DEF TypeOK
<1>2. ASSUME NEW j \in Job, PushAccepted(j) PROVE IsPrefix(remote, remote')
  BY <1>2 DEF PushAccepted, FastForward
<1>3. ASSUME NEW c \in inflight, PushLands(c) PROVE IsPrefix(remote, remote')
  BY <1>3 DEF PushLands, FastForward
<1>4. QED
  BY <1>1, <1>2, <1>3 DEF Effects

LEMMA DistinctStep ==
    ASSUME TypeOK, TypeOK', Effects, Distinct
    PROVE  Distinct'
<1>1. NoDuplicates(remote')
  <2>1. CASE remote' = remote
    BY <2>1 DEF Distinct
  <2>2. ASSUME NEW j \in Job, PushAccepted(j) PROVE NoDuplicates(remote')
    BY <2>2 DEF Distinct, PushAccepted
  <2>3. ASSUME NEW c \in inflight, PushLands(c) PROVE NoDuplicates(remote')
    BY <2>3 DEF Distinct, PushLands
  <2>4. QED
    BY <2>1, <2>2, <2>3 DEF Effects
<1>2. \A c \in inflight' : NoDuplicates(c)
  BY DEF Distinct, Effects
<1>3. NoDuplicates(<<>>)
  BY DEF NoDuplicates
<1>4. ASSUME NEW j \in Job
      PROVE  NoDuplicates(tracking'[j]) /\ NoDuplicates(work'[j])
  <2>1. NoDuplicates(tracking'[j])
    BY <1>3 DEF Distinct, Effects
  <2>2. CASE work'[j] \in {work[j], <<>>, tracking[j]}
    BY <1>3, <2>1, <2>2 DEF Distinct
  <2>3. CASE RecordAdds(j)
    <3> DEFINE c == [job |-> j, try |-> attempt[j]]
    <3>1. c \in Commit /\ c.job = j
      BY DEF Commit, TypeOK
    <3>2. work'[j] = Append(work[j], c) /\ j \notin JobsIn(work[j])
      BY <2>3 DEF TypeOK, RecordAdds, AlreadyRecorded
    <3>3. work[j] \in Seq(Commit) /\ NoDuplicates(work[j])
      BY DEF TypeOK, Distinct
    <3>4. QED
      BY <2>1, <3>1, <3>2, <3>3, AppendNoDuplicates
  <2>4. QED
    BY <2>2, <2>3 DEF Effects
<1>5. QED
  BY <1>1, <1>2, <1>4 DEF Distinct, NoDuplicates

LEMMA AnchoredStep ==
    ASSUME TypeOK, TypeOK', Effects, Anchored
    PROVE  Anchored'
<1>1. IsPrefix(remote, remote') /\ remote \in Seq(Commit) /\ remote' \in Seq(Commit)
  BY RemoteGrows DEF TypeOK
<1>2. ASSUME NEW s \in Seq(Commit), IsPrefix(s, remote)
      PROVE  IsPrefix(s, remote')
  BY <1>1, <1>2, PrefixTransitive
<1>3. ASSUME NEW s \in Seq(Commit), OneAhead(s)
      PROVE  /\ Len(s) > 0
             /\ IsPrefix(SubSeq(s, 1, Len(s) - 1), remote')
  <2>1. Len(s) > 0 /\ SubSeq(s, 1, Len(s) - 1) \in Seq(Commit)
    BY <1>3, ParentIsSeq DEF OneAhead
  <2>2. QED
    BY <1>2, <1>3, <2>1 DEF OneAhead
<1>4. ASSUME NEW c \in inflight'
      PROVE  Len(c) > 0 /\ IsPrefix(SubSeq(c, 1, Len(c) - 1), remote')
  <2>1. c \in Seq(Commit) /\ OneAhead(c)
    BY <1>4 DEF TypeOK, Effects, Anchored
  <2>2. QED
    BY <1>3, <2>1
<1>5. ASSUME NEW j \in Job
      PROVE  IsPrefix(tracking'[j], remote')
  <2>1. tracking'[j] \in Seq(Commit) /\ tracking[j] \in Seq(Commit) /\ <<>> \in Seq(Commit)
    BY DEF TypeOK
  <2>2. IsPrefix(tracking[j], remote) /\ IsPrefix(<<>>, remote) /\ IsPrefix(remote, remote)
    BY <1>1, PrefixReflexive DEF Anchored
  <2>3. QED
    BY <1>1, <1>2, <2>1, <2>2 DEF Effects
<1>6. ASSUME NEW j \in Job, pc'[j] = "record"
      PROVE  IsPrefix(work'[j], remote')
  <2>1. work'[j] \in Seq(Commit) /\ IsPrefix(work'[j], remote)
    BY <1>6 DEF TypeOK, Effects, Anchored
  <2>2. QED
    BY <1>2, <2>1
<1>7. ASSUME NEW j \in Job, pc'[j] \in {"commit", "push"}
      PROVE  /\ Len(work'[j]) > 0
             /\ IsPrefix(SubSeq(work'[j], 1, Len(work'[j]) - 1), remote')
             /\ work'[j][Len(work'[j])].job = j
  <2>1. CASE pc[j] \in {"commit", "push"} /\ work'[j] = work[j]
    BY <1>3, <2>1 DEF TypeOK, Anchored
  <2>2. CASE RecordAdds(j)
    <3> DEFINE c == [job |-> j, try |-> attempt[j]]
    <3>1. c \in Commit /\ c.job = j
      BY DEF Commit, TypeOK
    <3>2. /\ work'[j] = Append(work[j], c)
          /\ work[j] \in Seq(Commit)
          /\ IsPrefix(work[j], remote)
      BY <2>2 DEF TypeOK, RecordAdds, Anchored
    <3>3. OneAhead(work'[j]) /\ work'[j][Len(work'[j])] = c
      BY <3>1, <3>2, AppendOneAhead
    <3>4. work'[j] \in Seq(Commit)
      BY DEF TypeOK
    <3>5. QED
      BY <1>3, <3>1, <3>3, <3>4
  <2>3. QED
    BY <1>7, <2>1, <2>2 DEF Effects
<1>8. QED
  BY <1>4, <1>5, <1>6, <1>7 DEF Anchored, OneAhead

LEMMA SafetyInvariance == Spec => []SafetyInv
<1>1. Init => SafetyInv
  <2> SUFFICES ASSUME Init PROVE Distinct /\ Anchored /\ TypeInv
    BY DEF SafetyInv
  <2>1. TypeInv
    BY ConstantsAssumption DEF Init, TypeInv, TypeOK, AttemptLeft
  <2>2. Distinct
    BY DEF Init, Distinct, NoDuplicates
  <2>3. IsPrefix(<<>>, <<>>)
    <3>1. <<>> \in Seq(Commit)
      OBVIOUS
    <3>2. QED
      BY <3>1, PrefixReflexive
  <2>4. Anchored
    BY <2>3 DEF Init, Anchored
  <2>5. QED
    BY <2>1, <2>2, <2>4
<1>2. SafetyInv /\ [Next]_vars => SafetyInv'
  <2> SUFFICES ASSUME SafetyInv, [Next]_vars PROVE SafetyInv'
    OBVIOUS
  <2>1. TypeOK /\ Distinct /\ Anchored
    BY DEF SafetyInv, TypeInv
  <2>2. TypeInv' /\ TypeOK'
    BY TypeStep, AttemptLeftStep DEF SafetyInv, TypeInv
  <2>3. Effects
    BY <2>1, StepEffects
  <2>4. QED
    BY <2>1, <2>2, <2>3, DistinctStep, AnchoredStep DEF SafetyInv
<1>3. QED
  BY <1>1, <1>2, PTL DEF Spec

\* The branch never holds two entries for one run_id and run_attempt, for any
\* number of jobs, retries and faults and whatever filelog does with an
\* orphan entry.
THEOREM AtMostOnceHolds == Spec => []AtMostOnce
<1>1. SafetyInv => AtMostOnce
  BY DEF SafetyInv, Distinct, NoDuplicates, AtMostOnce
<1>2. QED
  BY <1>1, SafetyInvariance, PTL
-----------------------------------------------------------------------------
(***************************************************************************)
(* What a job reports stays true.                                           *)
(***************************************************************************)
\* The history a job takes success from is in the branch after the step.
LEMMA ReportedFromBranch ==
    ASSUME TypeOK, TypeOK', Effects, Anchored,
           NEW j \in Job, RecordFindsEntry(j) \/ PushAccepted(j)
    PROVE  IsPrefix(work[j], remote')
<1>1. work[j] \in Seq(Commit) /\ remote \in Seq(Commit) /\ remote' \in Seq(Commit)
  BY DEF TypeOK
<1>2. CASE RecordFindsEntry(j)
  <2>1. IsPrefix(work[j], remote)
    BY <1>2 DEF RecordFindsEntry, Anchored
  <2>2. QED
    BY <1>1, <2>1, RemoteGrows, PrefixTransitive
<1>3. CASE PushAccepted(j)
  BY <1>1, <1>3, PrefixReflexive DEF PushAccepted
<1>4. QED
  BY <1>2, <1>3

\* Every checkpoint published in a run's summary stays a prefix of the
\* branch for ever, whatever later jobs push.
THEOREM PublishedCheckpointHoldsAlways == Spec => []PublishedCheckpointHolds
<1>1. Init => PublishedCheckpointHolds
  <2>1. <<>> \in Seq(Commit)
    OBVIOUS
  <2>2. IsPrefix(<<>>, <<>>)
    BY <2>1, PrefixReflexive
  <2>3. QED
    BY <2>2 DEF Init, PublishedCheckpointHolds
<1>2. SafetyInv /\ SafetyInv' /\ PublishedCheckpointHolds /\ [Next]_vars
          => PublishedCheckpointHolds'
  <2> SUFFICES ASSUME SafetyInv, SafetyInv', PublishedCheckpointHolds, [Next]_vars,
                      NEW j \in Job
               PROVE  IsPrefix(summary'[j], remote')
    BY DEF PublishedCheckpointHolds
  <2>1. TypeOK /\ TypeOK' /\ Anchored
    BY DEF SafetyInv, TypeInv
  <2>2. Effects
    BY <2>1, StepEffects
  <2>3. CASE summary'[j] = summary[j]
    <3>1. /\ summary[j] \in Seq(Commit)
          /\ remote \in Seq(Commit) /\ remote' \in Seq(Commit)
      BY <2>1 DEF TypeOK
    <3>2. QED
      BY <2>1, <2>2, <2>3, <3>1, RemoteGrows, PrefixTransitive
         DEF PublishedCheckpointHolds
  <2>4. CASE /\ RecordFindsEntry(j) \/ PushAccepted(j)
             /\ summary'[j] = work[j]
    BY <2>1, <2>2, <2>4, ReportedFromBranch
  <2>5. QED
    BY <2>2, <2>3, <2>4 DEF Effects
<1>3. QED
  BY <1>1, <1>2, SafetyInvariance, PTL DEF Spec

\* A job that exits 0 has its entry in the branch from then on, provided
\* filelog never counts an entry file that its checkpoint does not cover.
THEOREM ExitZeroMeansRecordedAlways ==
    ASSUME OrphanNotCounted
    PROVE  Spec => []ExitZeroMeansRecorded
<1>1. Init => ExitZeroMeansRecorded
  BY DEF Init, ExitZeroMeansRecorded
<1>2. SafetyInv /\ SafetyInv' /\ ExitZeroMeansRecorded /\ [Next]_vars
          => ExitZeroMeansRecorded'
  <2> SUFFICES ASSUME SafetyInv, SafetyInv', ExitZeroMeansRecorded, [Next]_vars,
                      NEW j \in Job, pc'[j] = "exit0"
               PROVE  j \in JobsIn(remote')
    BY DEF ExitZeroMeansRecorded, JobsIn
  <2>1. TypeOK /\ TypeOK' /\ Anchored
    BY DEF SafetyInv, TypeInv
  <2>2. Effects
    BY <2>1, StepEffects
  <2>3. /\ work[j] \in Seq(Commit)
        /\ remote \in Seq(Commit) /\ remote' \in Seq(Commit)
    BY <2>1 DEF TypeOK
  <2>4. CASE pc[j] = "exit0"
    <3>1. j \in JobsIn(remote)
      BY <2>4 DEF ExitZeroMeansRecorded
    <3>2. QED
      BY <2>1, <2>2, <2>3, <3>1, RemoteGrows, JobsInGrow
  <2>5. CASE RecordFindsEntry(j) \/ PushAccepted(j)
    <3>1. j \in JobsIn(work[j])
      <4>1. CASE RecordFindsEntry(j)
        BY <4>1 DEF RecordFindsEntry, AlreadyRecorded, OrphanNotCounted
      <4>2. CASE PushAccepted(j)
        <5>1. OneAhead(work[j]) /\ work[j][Len(work[j])].job = j
          BY <2>1, <4>2 DEF PushAccepted, Anchored
        <5>2. Len(work[j]) \in 1..Len(work[j])
          BY <2>3, <5>1 DEF OneAhead
        <5>3. QED
          BY <5>1, <5>2 DEF JobsIn
      <4>3. QED
        BY <2>5, <4>1, <4>2
    <3>2. QED
      BY <2>1, <2>2, <2>3, <2>5, <3>1, ReportedFromBranch, JobsInGrow
  <2>6. QED
    BY <2>2, <2>4, <2>5 DEF Effects
<1>3. QED
  BY <1>1, <1>2, SafetyInvariance, PTL DEF Spec
-----------------------------------------------------------------------------
(***************************************************************************)
(* Refinement of the abstract log.                                          *)
(***************************************************************************)
JobsOf(branch) == [i \in 1..Len(branch) |-> branch[i].job]

\* A push of a history one ahead of a part of the branch that is still a
\* fast-forward replaces the branch by itself, or adds one commit to it.
LEMMA FastForwardAddsOne ==
    ASSUME TypeOK, NEW c \in Seq(Commit), NoDuplicates(c), OneAhead(c), FastForward(c)
    PROVE  \/ c = remote
           \/ /\ JobsOf(c) = Append(JobsOf(remote), c[Len(c)].job)
              /\ c[Len(c)].job \in Job
              /\ c[Len(c)].job \notin JobsIn(remote)
<1> DEFINE n == Len(remote)
<1>1. /\ remote \in Seq(Commit)
      /\ n \in Nat /\ Len(c) \in Nat
      /\ Len(c) > 0
  BY DEF TypeOK, OneAhead
<1>2. n <= Len(c) /\ \A i \in 1..n : remote[i] = c[i]
  BY <1>1, PrefixPointwise DEF FastForward
<1>3. Len(c) - 1 <= n
  <2>1. /\ SubSeq(c, 1, Len(c) - 1) \in Seq(Commit)
        /\ Len(SubSeq(c, 1, Len(c) - 1)) = Len(c) - 1
    BY <1>1, ParentIsSeq
  <2>2. QED
    BY <1>1, <2>1, PrefixPointwise DEF OneAhead
<1>4. CASE n = Len(c)
  BY <1>1, <1>2, <1>4
<1>5. CASE Len(c) = n + 1
  <2>1. \A i \in 1..(n + 1) : c[i] \in Commit /\ c[i].job \in Job
    <3>1. \A i \in 1..(n + 1) : c[i] \in Commit
      BY <1>1, <1>5
    <3>2. \A d \in Commit : d.job \in Job
      BY DEF Commit
    <3>3. QED
      BY <3>1, <3>2
  <2>2. c[n + 1].job \notin JobsIn(remote)
    BY <1>1, <1>2, <1>5 DEF JobsIn, NoDuplicates
  <2>3. JobsOf(remote) \in Seq(Job) /\ Len(JobsOf(remote)) = n
    BY <1>1, <1>2, <1>5, <2>1 DEF JobsOf
  <2>4. JobsOf(c) = Append(JobsOf(remote), c[n + 1].job)
    <3>1. JobsOf(c) \in Seq(Job) /\ Len(JobsOf(c)) = n + 1
      BY <1>1, <1>5, <2>1 DEF JobsOf
    <3>2. /\ Append(JobsOf(remote), c[n + 1].job) \in Seq(Job)
          /\ Len(Append(JobsOf(remote), c[n + 1].job)) = n + 1
      BY <1>1, <2>1, <2>3
    <3>3. \A i \in 1..(n + 1) :
              JobsOf(c)[i] = Append(JobsOf(remote), c[n + 1].job)[i]
      BY <1>1, <1>2, <1>5, <2>1, <2>3 DEF JobsOf
    <3>4. QED
      BY <1>1, <3>1, <3>2, <3>3, SeqEqual
  <2>5. QED
    BY <1>1, <1>5, <2>1, <2>2, <2>4
<1>6. QED
  BY <1>1, <1>2, <1>3, <1>4, <1>5

\* The scripts of all jobs together implement the abstract evidence log:
\* every step adds one entry, of a job that had none, or none at all.
THEOREM ImplementsLogHolds == Spec => ImplementsLog
<1>1. Init => Log!Init
  BY DEF Init, Log!Init
<1>2. SafetyInv /\ SafetyInv' /\ [Next]_vars => [Log!Next]_(JobsOf(remote))
  <2> SUFFICES ASSUME SafetyInv, SafetyInv', [Next]_vars
               PROVE  \/ JobsOf(remote') = JobsOf(remote)
                      \/ \E j \in Job : Log!Add(j)
    BY DEF Log!Next, JobsOf
  <2>1. TypeOK /\ TypeOK' /\ Distinct /\ Anchored
    BY DEF SafetyInv, TypeInv
  <2>2. Effects
    BY <2>1, StepEffects
  <2>3. ASSUME NEW c \in Seq(Commit), NoDuplicates(c), OneAhead(c),
               FastForward(c), remote' = c
        PROVE  \/ JobsOf(remote') = JobsOf(remote)
               \/ \E j \in Job : Log!Add(j)
    <3>1. CASE c = remote
      BY <2>3, <3>1
    <3>2. CASE /\ JobsOf(c) = Append(JobsOf(remote), c[Len(c)].job)
               /\ c[Len(c)].job \in Job
               /\ c[Len(c)].job \notin JobsIn(remote)
      <4>1. Len(remote) \in Nat
        BY <2>1 DEF TypeOK
      <4>2. c[Len(c)].job \notin Log!Recorded
        BY <3>2, <4>1 DEF Log!Recorded, JobsIn
      <4>3. Log!Add(c[Len(c)].job)
        BY <2>3, <3>2, <4>2 DEF Log!Add, JobsOf
      <4>4. QED
        BY <3>2, <4>3
    <3>3. QED
      BY <2>1, <2>3, <3>1, <3>2, FastForwardAddsOne
  <2>4. CASE remote' = remote
    BY <2>4
  <2>5. ASSUME NEW j \in Job, PushAccepted(j)
        PROVE  \/ JobsOf(remote') = JobsOf(remote)
               \/ \E i \in Job : Log!Add(i)
    <3>1. /\ work[j] \in Seq(Commit)
          /\ NoDuplicates(work[j])
          /\ OneAhead(work[j])
          /\ FastForward(work[j])
          /\ remote' = work[j]
      BY <2>1, <2>5 DEF TypeOK, Distinct, Anchored, PushAccepted
    <3>2. QED
      BY <2>3, <3>1
  <2>6. ASSUME NEW c \in inflight, PushLands(c)
        PROVE  \/ JobsOf(remote') = JobsOf(remote)
               \/ \E i \in Job : Log!Add(i)
    <3>1. /\ c \in Seq(Commit)
          /\ NoDuplicates(c)
          /\ OneAhead(c)
          /\ FastForward(c)
          /\ remote' = c
      BY <2>1, <2>6 DEF TypeOK, Distinct, Anchored, PushLands
    <3>2. QED
      BY <2>3, <3>1
  <2>7. QED
    BY <2>2, <2>4, <2>5, <2>6 DEF Effects
<1>3. QED
  BY <1>1, <1>2, SafetyInvariance, PTL DEF Spec, ImplementsLog, Log!Spec, JobsOf
-----------------------------------------------------------------------------
(***************************************************************************)
(* The retry budget.  Without faults every failed attempt of a job is a     *)
(* rejected push, and what rejected it is an entry that another job added   *)
(* since the fetch: the number of failed attempts of a job is bounded by    *)
(* the length of the branch, which holds entries of other jobs only.        *)
(***************************************************************************)
NoFaults == Faults = {} /\ Cardinality(Job) <= MaxAttempts

JobBudget(j) ==
    /\ orphan[j] = 0
    /\ pc[j] \notin {"exit1", "cancelled"}
    /\ pc[j] # "exit0" => j \notin JobsIn(remote)
    /\ pc[j] = "idle" => attempt[j] = 1
    /\ pc[j] = "fetch" => attempt[j] - 1 <= Len(remote)
    /\ pc[j] = "reset" => attempt[j] - 1 <= Len(tracking[j])
    /\ pc[j] = "record" => attempt[j] - 1 <= Len(work[j])
    /\ pc[j] \in {"commit", "push"} => attempt[j] <= Len(work[j])
    /\ pc[j] = "sleep" => attempt[j] <= Len(remote)

Budget == inflight = {} /\ \A j \in Job : JobBudget(j)

LEMMA JobFinite == IsFiniteSet(Job)
<1>1. IsFiniteSet(1..MaxRunAttempts)
  BY ConstantsAssumption, FS_Interval
<1>2. QED
  BY <1>1, ConstantsAssumption, FS_Product DEF Job

\* A branch without duplicates and without j is shorter than the set of jobs.
LEMMA RoomForOneMore ==
    ASSUME TypeOK, Distinct, NEW j \in Job, j \notin JobsIn(remote)
    PROVE  Len(remote) < Cardinality(Job)
<1> DEFINE others == Job \ {j}
           n == Len(remote)
           f == [i \in 1..n |-> remote[i].job]
<1>1. /\ IsFiniteSet(others)
      /\ Cardinality(others) = Cardinality(Job) - 1
      /\ Cardinality(Job) \in Nat /\ Cardinality(others) \in Nat
  BY JobFinite, FS_RemoveElement, FS_CardinalityType
<1>2. n \in Nat /\ IsFiniteSet(1..n) /\ Cardinality(1..n) = n
  <2>1. n \in Nat
    BY DEF TypeOK
  <2>2. PICK m \in Nat : m = n
    BY <2>1
  <2>3. IsFiniteSet(1..m)
    BY FS_Interval
  <2>4. Cardinality(1..m) = IF 1 > m THEN 0 ELSE m - 1 + 1
    BY FS_Interval
  <2>5. Cardinality(1..m) = m
    BY <2>4
  <2>6. QED
    BY <2>2, <2>3, <2>5
<1>3. f \in [1..n -> others]
  <2>1. \A i \in 1..n : remote[i] \in Commit
    BY DEF TypeOK
  <2>2. \A i \in 1..n : remote[i].job \in Job /\ remote[i].job # j
    BY <2>1 DEF Commit, JobsIn
  <2>3. QED
    BY <2>2
<1>4. \A x, y \in 1..n : f[x] = f[y] => x = y
  BY DEF Distinct, NoDuplicates
<1>5. ~ (Cardinality(others) < Cardinality(1..n))
  <2> HIDE DEF f, others
  <2>1. SUFFICES ASSUME Cardinality(others) < Cardinality(1..n) PROVE FALSE
    OBVIOUS
  <2>2. \E x, y \in 1..n : x # y /\ f[x] = f[y]
    BY <1>1, <1>2, <1>3, <2>1, FS_PigeonHole
  <2>3. QED
    BY <1>4, <2>2
<1>6. QED
  BY <1>1, <1>2, <1>5
\* A history one ahead of a part of the branch holds its last job and jobs of
\* the branch only; if it is not a fast-forward the branch is at least as long.
LEMMA OneAheadContents ==
    ASSUME TypeOK, NEW c \in Seq(Commit), OneAhead(c)
    PROVE  /\ JobsIn(c) \subseteq JobsIn(remote) \cup {c[Len(c)].job}
           /\ ~FastForward(c) => Len(c) <= Len(remote)
<1> DEFINE p == SubSeq(c, 1, Len(c) - 1)
<1>1. /\ remote \in Seq(Commit)
      /\ Len(remote) \in Nat /\ Len(c) \in Nat /\ Len(c) > 0
      /\ IsPrefix(p, remote)
  BY DEF TypeOK, OneAhead
<1>2. /\ p \in Seq(Commit)
      /\ Len(p) = Len(c) - 1
      /\ \A i \in 1..(Len(c) - 1) : p[i] = c[i]
  BY <1>1, ParentIsSeq
<1>3. Len(p) <= Len(remote) /\ \A i \in 1..Len(p) : p[i] = remote[i]
  <2> HIDE DEF p
  <2>1. QED
    BY <1>1, <1>2, PrefixPointwise
<1>4. Len(c) - 1 <= Len(remote) /\ \A i \in 1..(Len(c) - 1) : c[i] = remote[i]
  BY <1>2, <1>3
<1>5. JobsIn(c) \subseteq JobsIn(remote) \cup {c[Len(c)].job}
  <2>1. ASSUME NEW i \in 1..Len(c)
        PROVE  c[i].job \in JobsIn(remote) \cup {c[Len(c)].job}
    <3>1. CASE i = Len(c)
      BY <3>1
    <3>2. CASE i # Len(c)
      <4>1. i \in 1..(Len(c) - 1) /\ i \in 1..Len(remote)
        BY <1>1, <1>4, <3>2
      <4>2. c[i] = remote[i]
        BY <1>4, <4>1
      <4>3. QED
        BY <4>1, <4>2 DEF JobsIn
    <3>3. QED
      BY <3>1, <3>2
  <2>2. QED
    BY <2>1 DEF JobsIn
<1>6. ASSUME Len(remote) < Len(c) PROVE FastForward(c)
  <2>1. Len(remote) = Len(c) - 1
    BY <1>1, <1>4, <1>6
  <2>2. Len(remote) <= Len(c) /\ \A i \in 1..Len(remote) : remote[i] = c[i]
    BY <1>1, <1>4, <2>1
  <2>3. QED
    BY <1>1, <2>2, PrefixPointwise DEF FastForward
<1>7. QED
  BY <1>1, <1>5, <1>6

\* A job that does not move keeps its budget while the branch only grows by
\* other jobs' entries.
LEMMA BudgetFrame ==
    ASSUME TypeOK, TypeOK', NEW i \in Job, JobBudget(i),
           Len(remote) <= Len(remote'),
           i \in JobsIn(remote') => i \in JobsIn(remote),
           pc'[i] = pc[i], attempt'[i] = attempt[i], orphan'[i] = orphan[i],
           tracking'[i] = tracking[i], work'[i] = work[i]
    PROVE  JobBudget(i)'
<1>1. /\ Len(remote) \in Nat /\ Len(remote') \in Nat
      /\ attempt[i] \in Nat
  BY DEF TypeOK
<1>2. QED
  BY <1>1 DEF JobBudget, JobsIn

LEMMA BudgetStep ==
    ASSUME NoFaults, TypeOK, TypeOK', Distinct, Anchored, Budget, [Next]_vars
    PROVE  Budget'
<1> USE DEF Goto
<1>1. /\ \A j \in Job : JobBudget(j) /\ attempt[j] \in Nat /\ attempt'[j] \in Nat
      /\ Len(remote) \in Nat /\ Len(remote') \in Nat
      /\ inflight = {}
      /\ Faults = {}
  BY DEF Budget, NoFaults, TypeOK
<1>2. ASSUME NEW j \in Job,
             UNCHANGED <<remote, inflight>>,
             \A i \in Job \ {j} :
                 /\ pc'[i] = pc[i] /\ attempt'[i] = attempt[i]
                 /\ orphan'[i] = orphan[i]
                 /\ tracking'[i] = tracking[i] /\ work'[i] = work[i],
             JobBudget(j)'
      PROVE  Budget'
  <2>1. ASSUME NEW i \in Job \ {j} PROVE JobBudget(i)'
    BY <1>1, <1>2, <2>1, BudgetFrame
  <2>2. QED
    BY <1>1, <1>2, <2>1 DEF Budget
<1>3. ASSUME NEW j \in Job, Start(j) PROVE Budget'
  <2>1. /\ UNCHANGED <<remote, inflight, orphan, attempt, tracking, work>>
        /\ pc[j] = "idle" /\ pc'[j] = "fetch"
        /\ \A i \in Job \ {j} :
               /\ pc'[i] = pc[i]
    BY <1>3 DEF TypeOK, Start
  <2>2. JobBudget(j)'
    BY <1>1, <2>1 DEF JobBudget, JobsIn
  <2>3. QED
    BY <1>2, <2>1, <2>2
<1>4. ASSUME NEW j \in Job, Fetch(j) PROVE Budget'
  <2>1. /\ UNCHANGED <<remote, inflight, orphan, attempt, work>>
        /\ pc[j] = "fetch" /\ pc'[j] = "reset"
        /\ tracking'[j] = remote
        /\ \A i \in Job \ {j} :
               /\ pc'[i] = pc[i]
               /\ tracking'[i] = tracking[i]
    BY <1>4 DEF TypeOK, Fetch
  <2>2. JobBudget(j)'
    BY <1>1, <2>1 DEF JobBudget, JobsIn
  <2>3. QED
    BY <1>2, <2>1, <2>2
<1>5. ASSUME NEW j \in Job, Reset(j) PROVE Budget'
  <2>1. Len(tracking[j]) \in Nat /\ orphan[j] = 0
    BY <1>1 DEF TypeOK, JobBudget
  <2>2. /\ UNCHANGED <<remote, inflight, attempt, tracking>>
        /\ pc[j] = "reset" /\ pc'[j] = "record"
        /\ work'[j] = tracking[j]
        /\ orphan'[j] = 0
        /\ \A i \in Job \ {j} :
               pc'[i] = pc[i] /\ work'[i] = work[i] /\ orphan'[i] = orphan[i]
    BY <1>5, <2>1 DEF TypeOK, Reset
  <2>3. JobBudget(j)'
    BY <1>1, <2>2 DEF JobBudget, JobsIn
  <2>4. QED
    BY <1>2, <2>2, <2>3
<1>6. ASSUME NEW j \in Job, RecordAdds(j) PROVE Budget'
  <2>1. /\ UNCHANGED <<remote, inflight, attempt, tracking>>
        /\ pc'[j] = "commit" /\ orphan'[j] = 0
        /\ pc[j] = "record"
        /\ \A i \in Job \ {j} : /\ pc'[i] = pc[i] /\ work'[i] = work[i]
                                /\ orphan'[i] = orphan[i]
    BY <1>6 DEF TypeOK, RecordAdds
  <2>2. Len(work'[j]) = Len(work[j]) + 1 /\ Len(work[j]) \in Nat
    <3>1. work[j] \in Seq(Commit) /\ [job |-> j, try |-> attempt[j]] \in Commit
      BY DEF TypeOK, Commit
    <3>2. work'[j] = Append(work[j], [job |-> j, try |-> attempt[j]])
      BY <1>6 DEF TypeOK, RecordAdds
    <3>3. QED
      BY <3>1, <3>2
  <2>3. JobBudget(j)'
    BY <1>1, <2>1, <2>2 DEF JobBudget, JobsIn
  <2>4. QED
    BY <1>2, <2>1, <2>3
<1>7. ASSUME NEW j \in Job, RecordFindsEntry(j) PROVE Budget'
  <2>1. /\ UNCHANGED <<remote, inflight, attempt>>
        /\ pc'[j] = "exit0" /\ orphan'[j] = 0
        /\ \A i \in Job \ {j} :
               /\ pc'[i] = pc[i] /\ orphan'[i] = orphan[i]
               /\ tracking'[i] = tracking[i] /\ work'[i] = work[i]
    BY <1>7 DEF TypeOK, RecordFindsEntry, ExitZero, Exit, DiscardWorkingCopy
  <2>2. JobBudget(j)'
    BY <2>1 DEF JobBudget
  <2>3. QED
    BY <1>2, <2>1, <2>2
<1>8. ASSUME NEW j \in Job, RecordErrs(j) PROVE Budget'
  BY <1>1, <1>8 DEF RecordErrs, JobBudget
<1>9. ASSUME NEW j \in Job, GitCommit(j) PROVE Budget'
  <2>1. /\ UNCHANGED <<remote, inflight, orphan, attempt, tracking, work>>
        /\ pc[j] = "commit" /\ pc'[j] = "push"
        /\ \A i \in Job \ {j} :
               /\ pc'[i] = pc[i]
    BY <1>9 DEF TypeOK, GitCommit
  <2>2. JobBudget(j)'
    BY <1>1, <2>1 DEF JobBudget, JobsIn
  <2>3. QED
    BY <1>2, <2>1, <2>2
<1>10. ASSUME NEW j \in Job, PushAccepted(j) PROVE Budget'
  <2>1. /\ UNCHANGED <<inflight, attempt>>
        /\ remote' = work[j] /\ pc[j] = "push"
        /\ pc'[j] = "exit0" /\ orphan'[j] = 0
        /\ \A i \in Job \ {j} :
               /\ pc'[i] = pc[i] /\ orphan'[i] = orphan[i]
               /\ tracking'[i] = tracking[i] /\ work'[i] = work[i]
    BY <1>10 DEF TypeOK, PushAccepted, ExitZero, Exit, DiscardWorkingCopy
  <2>2. work[j] \in Seq(Commit) /\ remote \in Seq(Commit)
    BY DEF TypeOK
  <2>3. OneAhead(work[j]) /\ work[j][Len(work[j])].job = j
    BY <2>1 DEF Anchored
  <2>4. JobsIn(remote') \subseteq JobsIn(remote) \cup {j}
    BY <2>1, <2>2, <2>3, OneAheadContents
  <2>5. Len(remote) <= Len(remote')
    BY <1>10, <2>1, <2>2, PrefixPointwise DEF PushAccepted, FastForward
  <2>6. ASSUME NEW i \in Job \ {j} PROVE JobBudget(i)'
    BY <1>1, <2>1, <2>4, <2>5, BudgetFrame
  <2>7. JobBudget(j)'
    BY <2>1 DEF JobBudget
  <2>8. QED
    BY <1>1, <2>1, <2>6, <2>7 DEF Budget
<1>11. ASSUME NEW j \in Job, PushRejected(j) PROVE Budget'
  <2>1. /\ pc[j] = "push" /\ ~FastForward(work[j])
        /\ AttemptFailed(j, orphan[j])
        /\ UNCHANGED <<remote, inflight>>
    BY <1>11 DEF PushRejected
  <2>2. work[j] \in Seq(Commit) /\ OneAhead(work[j]) /\ Len(work[j]) \in Nat
    BY <2>1 DEF TypeOK, Anchored
  <2>3. attempt[j] <= Len(remote) /\ j \notin JobsIn(remote) /\ orphan[j] = 0
    BY <1>1, <2>1, <2>2, OneAheadContents DEF JobBudget
  <2>4. attempt[j] # MaxAttempts
    <3>1. Len(remote) < Cardinality(Job) /\ Cardinality(Job) \in Nat
      BY <2>3, RoomForOneMore, JobFinite, FS_CardinalityType
    <3>2. MaxAttempts \in Nat
      BY ConstantsAssumption
    <3>3. QED
      BY <1>1, <2>3, <3>1, <3>2 DEF NoFaults
  <2>5. /\ pc' = [pc EXCEPT ![j] = "sleep"]
        /\ orphan' = [orphan EXCEPT ![j] = orphan[j]]
        /\ UNCHANGED <<attempt, tracking, work>>
    BY <2>1, <2>4 DEF AttemptFailed
  <2>6. JobBudget(j)'
    BY <2>1, <2>3, <2>5 DEF TypeOK, JobBudget, JobsIn
  <2>7. QED
    BY <1>2, <2>1, <2>5, <2>6 DEF TypeOK
<1>12. ASSUME NEW j \in Job, Wake(j) PROVE Budget'
  <2>1. /\ UNCHANGED <<remote, inflight, orphan, tracking, work>>
        /\ pc[j] = "sleep" /\ pc'[j] = "fetch"
        /\ attempt'[j] = attempt[j] + 1
        /\ \A i \in Job \ {j} :
               /\ pc'[i] = pc[i]
               /\ attempt'[i] = attempt[i]
    BY <1>12 DEF TypeOK, Wake
  <2>2. JobBudget(j)'
    BY <1>1, <2>1 DEF JobBudget, JobsIn
  <2>3. QED
    BY <1>2, <2>1, <2>2
<1>13. ASSUME NEW j \in Job,
              \/ FetchFails(j) \/ ResetFails(j) \/ AddFails(j)
              \/ CommitFails(j) \/ PushUnanswered(j) \/ Cancel(j)
              \/ SetupFails(j)
       PROVE  Budget'
  BY <1>1, <1>13 DEF SetupFails, FetchFails, ResetFails, AddFails, CommitFails,
                     PushUnanswered, Cancel
<1>14. CASE UNCHANGED vars
  BY <1>14 DEF vars, Budget, JobBudget, JobsIn
<1>15. QED
  BY <1>1, <1>3, <1>4, <1>5, <1>6, <1>7, <1>8, <1>9, <1>10, <1>11, <1>12,
     <1>13, <1>14 DEF Next, ScriptStep, Quiescent

\* Without faults, and with no more jobs than attempts, no job gives up: the
\* five attempts of the script are enough for any burst of five record jobs,
\* in any order of their steps.
THEOREM BurstWithinBudgetHolds == Spec => []BurstWithinBudget
<1>1. CASE NoFaults
  <2>1. Init => Budget
    BY DEF Init, Budget, JobBudget, JobsIn
  <2>2. SafetyInv /\ SafetyInv' /\ Budget /\ [Next]_vars => Budget'
    BY <1>1, BudgetStep DEF SafetyInv, TypeInv
  <2>3. Budget => BurstWithinBudget
    BY DEF Budget, JobBudget, BurstWithinBudget
  <2>4. QED
    BY <2>1, <2>2, <2>3, SafetyInvariance, PTL DEF Spec
<1>2. CASE ~NoFaults
  <2>1. BurstWithinBudget
    BY <1>2 DEF NoFaults, BurstWithinBudget
  <2>2. QED
    BY <2>1, PTL
<1>3. QED
  BY <1>1, <1>2
-----------------------------------------------------------------------------
(***************************************************************************)
(* The loop's variant: how many commands a job has left at most.            *)
(***************************************************************************)
\* The commands of one iteration, the delay included; before it, the start.
Stage == [idle |-> 7, fetch |-> 6, reset |-> 5, record |-> 4, commit |-> 3, push |-> 2,
          sleep |-> 1, exit0 |-> 0, exit1 |-> 0, cancelled |-> 0]

StepsLeft(j) == 6 * (MaxAttempts - attempt[j]) + Stage[pc[j]]

\* Every command uses up one, and nothing ever gives one back.
StepsRunOut ==
    [][\A j \in Job : /\ StepsLeft(j)' <= StepsLeft(j)
                      /\ ScriptStep(j) => StepsLeft(j)' < StepsLeft(j)]_vars

\* What a step does to the job that takes it: it gets to a later command of the
\* same iteration, or to the next iteration.
Onwards(j) ==
    \/ /\ attempt' = attempt
       /\ \E label \in DOMAIN Stage :
              Stage[label] < Stage[pc[j]] /\ pc' = [pc EXCEPT ![j] = label]
    \/ /\ pc[j] = "sleep" /\ pc' = [pc EXCEPT ![j] = "fetch"]
       /\ attempt' = [attempt EXCEPT ![j] = @ + 1]

LEMMA StepsGoOnwards ==
    ASSUME TypeOK, NEW j \in Job, Start(j) \/ SetupFails(j) \/ ScriptStep(j) \/ Cancel(j)
    PROVE  Onwards(j)
<1>1. /\ DOMAIN Stage = {"idle"} \cup Running \cup Exited
      /\ \A label \in DOMAIN Stage : Stage[label] \in 0..7
      /\ \A label \in Running : Stage[label] > 0
      /\ \A label \in Exited : Stage[label] = 0
  BY DEF Stage, Running, Exited
<1>2. ASSUME NEW label \in Exited, pc[j] \in {"idle"} \cup Running, attempt' = attempt,
             pc' = [pc EXCEPT ![j] = label]
      PROVE  Onwards(j)
  <2>1. Stage[pc[j]] > 0
    BY <1>1, <1>2 DEF Stage
  <2>2. QED
    BY <1>1, <1>2, <2>1 DEF Onwards
<1>3. ASSUME NEW code \in Exited, pc[j] \in Running, Exit(j, code) PROVE Onwards(j)
  BY <1>2, <1>3 DEF Exit
<1>4. ASSUME NEW leftover, AttemptFailed(j, leftover), pc[j] \in Running \ {"sleep"}
      PROVE  Onwards(j)
  <2>1. CASE pc' = [pc EXCEPT ![j] = "sleep"] /\ attempt' = attempt
    <3>1. "sleep" \in DOMAIN Stage /\ Stage["sleep"] = 1
      BY DEF Stage
    <3>2. \A label \in Running \ {"sleep"} : 1 < Stage[label]
      BY DEF Stage, Running
    <3>3. QED
      BY <1>4, <2>1, <3>1, <3>2 DEF Onwards
  <2>2. CASE Exit(j, "exit1")
    BY <1>3, <1>4, <2>2 DEF Exited
  <2>3. QED
    BY <1>4, <2>1, <2>2 DEF AttemptFailed
<1>5. CASE Start(j) \/ Fetch(j) \/ Reset(j) \/ RecordAdds(j) \/ GitCommit(j)
  BY <1>5 DEF Onwards, Stage, Start, Fetch, Reset, RecordAdds, GitCommit, Goto
<1>6. CASE SetupFails(j)
  BY <1>2, <1>6 DEF SetupFails, Goto, Exited
<1>7. CASE FetchFails(j) \/ ResetFails(j) \/ AddFails(j) \/ CommitFails(j)
           \/ PushRejected(j) \/ PushUnanswered(j)
  BY <1>4, <1>7 DEF FetchFails, ResetFails, AddFails, CommitFails, PushRejected,
                    PushUnanswered, Running
<1>8. CASE RecordFindsEntry(j) \/ RecordErrs(j) \/ PushAccepted(j) \/ Cancel(j)
  BY <1>3, <1>8 DEF RecordFindsEntry, RecordErrs, PushAccepted, Cancel, ExitZero, Exited, Running
<1>9. CASE Wake(j)
  BY <1>9 DEF Wake, Goto, Onwards
<1>10. QED
  BY <1>5, <1>6, <1>7, <1>8, <1>9 DEF ScriptStep

LEMMA OnwardsCounts ==
    ASSUME TypeInv, NEW j \in Job, Onwards(j)
    PROVE  /\ StepsLeft(j)' < StepsLeft(j)
           /\ \A i \in Job \ {j} : StepsLeft(i)' = StepsLeft(i)
<1>1. /\ attempt[j] \in Nat /\ MaxAttempts \in Nat
      /\ pc \in [Job -> {"idle"} \cup Running \cup Exited]
      /\ attempt \in [Job -> 1..MaxAttempts]
  BY ConstantsAssumption DEF TypeInv, TypeOK
<1>2. \A label \in {"idle"} \cup Running \cup Exited : Stage[label] \in Nat
  BY DEF Stage, Running, Exited
<1>3. Stage[pc[j]] \in Nat
  BY <1>1, <1>2
<1>4. ASSUME NEW label \in DOMAIN Stage, Stage[label] < Stage[pc[j]],
             attempt' = attempt, pc' = [pc EXCEPT ![j] = label]
      PROVE  StepsLeft(j)' < StepsLeft(j)
  <2>1. pc'[j] = label /\ Stage[label] \in Nat
    BY <1>1, <1>2, <1>4 DEF Stage, Running, Exited
  <2>2. QED
    BY <1>1, <1>3, <1>4, <2>1 DEF StepsLeft
<1>5. ASSUME pc[j] = "sleep", pc' = [pc EXCEPT ![j] = "fetch"],
             attempt' = [attempt EXCEPT ![j] = @ + 1]
      PROVE  StepsLeft(j)' < StepsLeft(j)
  <2>1. pc'[j] = "fetch" /\ attempt'[j] = attempt[j] + 1
    BY <1>1, <1>5
  <2>2. Stage[pc'[j]] = 6 /\ Stage[pc[j]] = 1
    BY <1>5, <2>1 DEF Stage
  <2>3. 6 * (MaxAttempts - attempt'[j]) = 6 * (MaxAttempts - attempt[j]) - 6
    BY <1>1, <2>1
  <2>4. 6 * (MaxAttempts - attempt[j]) \in Int
    BY <1>1
  <2>5. QED
    BY <2>2, <2>3, <2>4 DEF StepsLeft
<1>6. \A i \in Job \ {j} : pc'[i] = pc[i] /\ attempt'[i] = attempt[i]
  BY <1>1 DEF Onwards
<1>7. QED
  BY <1>4, <1>5, <1>6 DEF Onwards, StepsLeft

\* No job ever has more commands left than the start and six for each attempt,
\* nor fewer than none.
THEOREM StepsLeftBounded == Spec => [](\A j \in Job : StepsLeft(j) \in 0..(6 * MaxAttempts + 1))
<1>1. ASSUME TypeInv, NEW j \in Job PROVE StepsLeft(j) \in 0..(6 * MaxAttempts + 1)
  <2>1. /\ attempt[j] \in 1..MaxAttempts /\ MaxAttempts \in Nat
        /\ pc[j] \in {"idle"} \cup Running \cup Exited
    BY <1>1, ConstantsAssumption DEF TypeInv, TypeOK
  <2>2. Stage[pc[j]] \in 0..7
    BY <2>1 DEF Stage, Running, Exited
  <2>3. PICK a \in 1..MaxAttempts : a = attempt[j]
    BY <2>1
  <2>4. PICK s \in 0..7 : s = Stage[pc[j]]
    BY <2>2
  <2>5. 6 * (MaxAttempts - a) + s \in 0..(6 * MaxAttempts + 1)
    BY <2>1
  <2>6. QED
    BY <2>3, <2>4, <2>5 DEF StepsLeft
<1>2. TypeInv => \A j \in Job : StepsLeft(j) \in 0..(6 * MaxAttempts + 1)
  BY <1>1
<1>3. QED
  BY <1>2, TypeInvariance, PTL

\* The loop ends, whatever fails, races and lands late: each command brings a job
\* nearer to its exit and nothing takes it back, so that it runs at most six
\* commands for each of its MaxAttempts attempts (EveryJobEnds without the time
\* that a command takes).
THEOREM StepsRunOutHolds == Spec => StepsRunOut
<1>1. ASSUME TypeInv, Next, NEW j \in Job
      PROVE  /\ StepsLeft(j)' <= StepsLeft(j)
             /\ ScriptStep(j) => StepsLeft(j)' < StepsLeft(j)
  <2>0. TypeOK
    BY <1>1 DEF TypeInv
  <2>1. StepsLeft(j) \in Int /\ StepsLeft(j)' \in Int
    <3>1. TypeOK'
      BY <1>1, TypeStep
    <3>2. /\ pc \in [Job -> {"idle"} \cup Running \cup Exited] /\ attempt \in [Job -> 1..MaxAttempts]
          /\ pc' \in [Job -> {"idle"} \cup Running \cup Exited] /\ attempt' \in [Job -> 1..MaxAttempts]
      BY <2>0, <3>1 DEF TypeOK
    <3>3. \A label \in {"idle"} \cup Running \cup Exited : Stage[label] \in Nat
      BY DEF Stage, Running, Exited
    <3>4. /\ attempt[j] \in 1..MaxAttempts /\ attempt'[j] \in 1..MaxAttempts
          /\ pc[j] \in {"idle"} \cup Running \cup Exited
          /\ pc'[j] \in {"idle"} \cup Running \cup Exited
      BY <1>1, <3>2
    <3>5. Stage[pc[j]] \in Nat /\ Stage[pc'[j]] \in Nat
      BY <3>3, <3>4, Zenon
    <3>6. attempt[j] \in Nat /\ attempt'[j] \in Nat /\ MaxAttempts \in Nat
      BY <3>4, ConstantsAssumption
    <3>7. StepsLeft(j) \in Int
      BY <3>5, <3>6 DEF StepsLeft
    <3>8. StepsLeft(j)' \in Int
      BY <3>5, <3>6 DEF StepsLeft
    <3>9. QED
      BY <3>7, <3>8
  <2>2. ScriptStep(j) => StepsLeft(j)' < StepsLeft(j)
    BY <1>1, <2>0, StepsGoOnwards, OnwardsCounts
  <2>3. ASSUME NEW i \in Job, Onwards(i)
        PROVE  StepsLeft(j)' < StepsLeft(j) \/ StepsLeft(j)' = StepsLeft(j)
    BY <1>1, <2>3, OnwardsCounts
  <2>4. ASSUME UNCHANGED <<pc, attempt>> PROVE StepsLeft(j)' = StepsLeft(j)
    BY <2>4 DEF StepsLeft
  <2>5. (\E i \in Job : Onwards(i)) \/ UNCHANGED <<pc, attempt>>
    BY <1>1, <2>0, StepsGoOnwards DEF Next, PushLands, PushLost, Quiescent, vars
  <2>6. StepsLeft(j)' < StepsLeft(j) \/ StepsLeft(j)' = StepsLeft(j)
    BY <2>3, <2>4, <2>5
  <2>7. StepsLeft(j)' <= StepsLeft(j)
    BY <2>1, <2>6
  <2>8. QED
    BY <2>2, <2>7
<1>2. TypeInv /\ [Next]_vars =>
          [\A j \in Job : /\ StepsLeft(j)' <= StepsLeft(j)
                          /\ ScriptStep(j) => StepsLeft(j)' < StepsLeft(j)]_vars
  BY <1>1
<1>3. QED
  BY <1>2, TypeInvariance, PTL DEF Spec, StepsRunOut
=============================================================================
