---------------------------- MODULE EvidencePush ---------------------------
(***************************************************************************)
(* The record jobs of the Action mode, all appending to one evidence        *)
(* branch.  A job is one attempt of one workflow run; it executes           *)
(* scripts/evidence-push.sh: fetch the branch, reset the working copy to    *)
(* it, run "gatekeeper record" (internal/evidence), commit, push, and start *)
(* over when a git command fails or the push is rejected, MaxAttempts times *)
(* at most.  There is no lock between jobs: the git server's refusal of a   *)
(* push that is not a fast-forward is the only coordination.                *)
(*                                                                         *)
(* A branch is modelled as the sequence of its commits since the log was    *)
(* initialised.  Each commit adds exactly one entry file and moves the      *)
(* checkpoint, so a commit is named by the job that made it and the number  *)
(* of the attempt that made it: two attempts of one job write different     *)
(* commits for the same (run_id, run_attempt).                              *)
(***************************************************************************)
EXTENDS Naturals, FiniteSets, Sequences, SequencesExt

CONSTANTS
    Runs,            \* workflow runs of pushes to the default branch (run_id)
    MaxRunAttempts,  \* bound: how often a run is started (run_attempt)
    MaxAttempts,     \* max_attempts of the script; 5 in the code
    Faults,          \* which faults the environment may inject
    OrphanReaction   \* what trust-core's filelog may do with an orphan entry

FaultKinds == {"setup", "fetch", "reset", "record", "add", "commit", "push", "cancel"}
Reactions == {"refuse", "overwrite", "count"}

ASSUME ConstantsAssumption ==
    /\ IsFiniteSet(Runs)
    /\ MaxRunAttempts \in Nat
    /\ MaxAttempts \in Nat \ {0}
    /\ Faults \subseteq FaultKinds
    /\ OrphanReaction \subseteq Reactions

Job == Runs \X (1..MaxRunAttempts)
Commit == [job : Job, try : 1..MaxAttempts]

VARIABLES
    remote,    \* the branch on the server
    inflight,  \* pushes whose client saw an error but which may still land
    pc,        \* where each job is in the script
    attempt,   \* the loop counter of each job
    tracking,  \* each job's origin/$EVIDENCE_BRANCH
    work,      \* the commits (made or being made) of each job's working copy
    orphan,    \* index of an untracked entry file in the working copy, or 0
    summary    \* the history each job's published checkpoint stands for

vars == <<remote, inflight, pc, attempt, tracking, work, orphan, summary>>
-----------------------------------------------------------------------------
Exited == {"exit0", "exit1", "cancelled"}
Running == {"fetch", "reset", "record", "commit", "push", "sleep"}

\* The jobs a branch, or a working copy of it, holds an entry for.
JobsIn(branch) == {branch[i].job : i \in 1..Len(branch)}

TypeOK ==
    /\ remote \in Seq(Commit)
    /\ inflight \in SUBSET Seq(Commit)
    /\ pc \in [Job -> {"idle"} \cup Running \cup Exited]
    /\ attempt \in [Job -> 1..MaxAttempts]
    /\ tracking \in [Job -> Seq(Commit)]
    /\ work \in [Job -> Seq(Commit)]
    /\ orphan \in [Job -> Nat]
    /\ summary \in [Job -> Seq(Commit)]

Init ==
    /\ remote = <<>>
    /\ inflight = {}
    /\ pc = [j \in Job |-> "idle"]
    /\ attempt = [j \in Job |-> 1]
    /\ tracking = [j \in Job |-> <<>>]
    /\ work = [j \in Job |-> <<>>]
    /\ orphan = [j \in Job |-> 0]
    /\ summary = [j \in Job |-> <<>>]
-----------------------------------------------------------------------------
(***************************************************************************)
(* The script's exits.  The runner is ephemeral (runs-on: ubuntu-latest):   *)
(* its working copy is gone when the job ends.                              *)
(***************************************************************************)
DiscardWorkingCopy(j) ==
    /\ tracking' = [tracking EXCEPT ![j] = <<>>]
    /\ work' = [work EXCEPT ![j] = <<>>]
    /\ orphan' = [orphan EXCEPT ![j] = 0]

Exit(j, code) ==
    /\ pc' = [pc EXCEPT ![j] = code]
    /\ DiscardWorkingCopy(j)
    /\ UNCHANGED attempt

\* Success publishes the working copy's checkpoint in the run's summary.
ExitZero(j) ==
    /\ summary' = [summary EXCEPT ![j] = work[j]]
    /\ Exit(j, "exit0")

\* Mutant: "seq 0 max_attempts", one iteration too many.
AttemptFailed_OneMore(j, leftover) ==
    \/ /\ attempt[j] <= MaxAttempts
       /\ pc' = [pc EXCEPT ![j] = "sleep"]
       /\ orphan' = [orphan EXCEPT ![j] = leftover]
       /\ UNCHANGED <<attempt, tracking, work, summary>>
    \/ /\ attempt[j] > MaxAttempts
       /\ Exit(j, "exit1")
       /\ UNCHANGED summary

\* Mutant: the loop ends one iteration early.
AttemptFailed_OneLess(j, leftover) ==
    \/ /\ attempt[j] + 1 < MaxAttempts
       /\ pc' = [pc EXCEPT ![j] = "sleep"]
       /\ orphan' = [orphan EXCEPT ![j] = leftover]
       /\ UNCHANGED <<attempt, tracking, work, summary>>
    \/ /\ attempt[j] + 1 >= MaxAttempts
       /\ Exit(j, "exit1")
       /\ UNCHANGED summary

\* The end of a loop iteration that did not exit: sleep if an attempt is
\* left, else leave the loop and fail.  "leftover" is the index of an entry
\* file that git does not track and so survives the next reset, or 0.
AttemptFailed(j, leftover) ==
    \/ /\ attempt[j] < MaxAttempts
       /\ pc' = [pc EXCEPT ![j] = "sleep"]
       /\ orphan' = [orphan EXCEPT ![j] = leftover]
       /\ UNCHANGED <<attempt, tracking, work, summary>>
    \/ /\ attempt[j] = MaxAttempts
       /\ Exit(j, "exit1")
       /\ UNCHANGED summary

Goto(j, label) == pc' = [pc EXCEPT ![j] = label]
-----------------------------------------------------------------------------
(***************************************************************************)
(* GitHub starts the record job of a run, or starts it again: a re-run has  *)
(* the same run_id, the next run_attempt, and needs the earlier attempt to  *)
(* be over.  The checkout of the evidence branch that precedes the script   *)
(* is overwritten by the script's first fetch and reset.                    *)
(***************************************************************************)
Start(j) ==
    /\ pc[j] = "idle"
    /\ j[2] > 1 => pc[<<j[1], j[2] - 1>>] \in Exited
    /\ Goto(j, "fetch")
    /\ UNCHANGED <<remote, inflight, attempt, tracking, work, orphan, summary>>

\* A step before the script fails: a checkout, the artifact download, or
\* action.yml finding no signing key or no evidence branch to write to.
SetupFails(j) ==
    /\ "setup" \in Faults
    /\ pc[j] = "idle"
    /\ j[2] > 1 => pc[<<j[1], j[2] - 1>>] \in Exited
    /\ Goto(j, "exit1")
    /\ UNCHANGED <<remote, inflight, attempt, tracking, work, orphan, summary>>

(***************************************************************************)
(* git fetch origin "$EVIDENCE_BRANCH"                                      *)
(***************************************************************************)
Fetch(j) ==
    /\ pc[j] = "fetch"
    /\ tracking' = [tracking EXCEPT ![j] = remote]
    /\ Goto(j, "reset")
    /\ UNCHANGED <<remote, inflight, attempt, work, orphan, summary>>

FetchFails(j) ==
    /\ "fetch" \in Faults
    /\ pc[j] = "fetch"
    /\ AttemptFailed(j, orphan[j])
    /\ UNCHANGED <<remote, inflight>>

\* Mutant: a retry builds on what the last attempt left behind.
Reset_Skipped(j) ==
    /\ pc[j] = "reset"
    /\ work' = [work EXCEPT ![j] = IF @ = <<>> THEN tracking[j] ELSE @]
    /\ Goto(j, "record")
    /\ UNCHANGED <<remote, inflight, attempt, tracking, orphan, summary>>

(***************************************************************************)
(* git reset --hard "origin/$EVIDENCE_BRANCH": the commits and the staged   *)
(* files of an earlier attempt are gone.  An untracked entry file stays     *)
(* unless the branch now tracks a file of that name.                        *)
(***************************************************************************)
Reset(j) ==
    /\ pc[j] = "reset"
    /\ work' = [work EXCEPT ![j] = tracking[j]]
    /\ orphan' = [orphan EXCEPT ![j] = IF @ <= Len(tracking[j]) THEN 0 ELSE @]
    /\ Goto(j, "record")
    /\ UNCHANGED <<remote, inflight, attempt, tracking, summary>>

ResetFails(j) ==
    /\ "reset" \in Faults
    /\ pc[j] = "reset"
    /\ AttemptFailed(j, orphan[j])
    /\ UNCHANGED <<remote, inflight>>
-----------------------------------------------------------------------------
\* Mutant: record without its idempotency check.
AlreadyRecorded_Unchecked(j) == FALSE

\* An entry of this run_id and run_attempt is in the working copy.
AlreadyRecorded(j) == j \in JobsIn(work[j])

(***************************************************************************)
(* "gatekeeper record" appended an entry: exit code 0.  With an untracked   *)
(* entry file in the way this is filelog writing over it.                   *)
(***************************************************************************)
RecordAdds(j) ==
    /\ pc[j] = "record"
    /\ ~AlreadyRecorded(j)
    /\ orphan[j] # 0 => "overwrite" \in OrphanReaction
    /\ work' = [work EXCEPT ![j] = Append(@, [job |-> j, try |-> attempt[j]])]
    /\ orphan' = [orphan EXCEPT ![j] = 0]
    /\ Goto(j, "commit")
    /\ UNCHANGED <<remote, inflight, attempt, tracking, summary>>

(***************************************************************************)
(* Exit code 3, ErrAlreadyRecorded: the script reports success.  If filelog *)
(* counted an untracked entry file as part of the log, the entry this job   *)
(* failed to commit would be found too.                                     *)
(***************************************************************************)
RecordFindsEntry(j) ==
    /\ pc[j] = "record"
    /\ \/ AlreadyRecorded(j)
       \/ orphan[j] # 0 /\ "count" \in OrphanReaction
    /\ ExitZero(j)
    /\ UNCHANGED <<remote, inflight>>

(***************************************************************************)
(* Exit code 2: the key, the scan result, the epoch config or the log       *)
(* cannot be read or do not fit together, or filelog refuses a directory    *)
(* with an entry file its checkpoint does not cover.  Not retried.          *)
(***************************************************************************)
RecordErrs(j) ==
    /\ pc[j] = "record"
    /\ \/ "record" \in Faults
       \/ orphan[j] # 0 /\ "refuse" \in OrphanReaction
    /\ Exit(j, "exit1")
    /\ UNCHANGED <<remote, inflight, summary>>
-----------------------------------------------------------------------------
(***************************************************************************)
(* git add -A, then git commit.  If add fails the new entry file stays      *)
(* untracked; if commit fails the file is staged and the next reset         *)
(* removes it.                                                              *)
(***************************************************************************)
GitCommit(j) ==
    /\ pc[j] = "commit"
    /\ Goto(j, "push")
    /\ UNCHANGED <<remote, inflight, attempt, tracking, work, orphan, summary>>

AddFails(j) ==
    /\ "add" \in Faults
    /\ pc[j] = "commit"
    /\ AttemptFailed(j, Len(work[j]))
    /\ UNCHANGED <<remote, inflight>>

CommitFails(j) ==
    /\ "commit" \in Faults
    /\ pc[j] = "commit"
    /\ AttemptFailed(j, 0)
    /\ UNCHANGED <<remote, inflight>>
-----------------------------------------------------------------------------
\* Mutant: git push --force.
FastForward_Forced(commits) == TRUE

\* The server takes a push only if the pushed history contains the branch's
\* head: neither the script nor the branch's ruleset allows a forced push.
FastForward(commits) == IsPrefix(remote, commits)

(***************************************************************************)
(* git push origin "HEAD:$EVIDENCE_BRANCH", and what the job sees of it.    *)
(***************************************************************************)
PushAccepted(j) ==
    /\ pc[j] = "push"
    /\ FastForward(work[j])
    /\ remote' = work[j]
    /\ ExitZero(j)
    /\ UNCHANGED inflight

PushRejected(j) ==
    /\ pc[j] = "push"
    /\ ~FastForward(work[j])
    /\ AttemptFailed(j, orphan[j])
    /\ UNCHANGED <<remote, inflight>>

\* The connection breaks: the job cannot tell whether the server has acted,
\* will act, or never will.
PushUnanswered(j) ==
    /\ "push" \in Faults
    /\ pc[j] = "push"
    /\ inflight' = inflight \cup {work[j]}
    /\ AttemptFailed(j, orphan[j])
    /\ UNCHANGED remote

\* The server acts on such a push, by the same rule.
PushLands(commits) ==
    /\ commits \in inflight
    /\ FastForward(commits)
    /\ remote' = commits
    /\ inflight' = inflight \ {commits}
    /\ UNCHANGED <<pc, attempt, tracking, work, orphan, summary>>

PushLost(commits) ==
    /\ commits \in inflight
    /\ inflight' = inflight \ {commits}
    /\ UNCHANGED <<remote, pc, attempt, tracking, work, orphan, summary>>
-----------------------------------------------------------------------------
\* Mutant: a retry without a new fetch.
Wake_NoFetch(j) ==
    /\ pc[j] = "sleep"
    /\ attempt' = [attempt EXCEPT ![j] = @ + 1]
    /\ Goto(j, "reset")
    /\ UNCHANGED <<remote, inflight, tracking, work, orphan, summary>>

\* Mutant: a retry that is not counted.
Wake_NotCounted(j) ==
    /\ pc[j] = "sleep"
    /\ Goto(j, "fetch")
    /\ UNCHANGED <<remote, inflight, attempt, tracking, work, orphan, summary>>

\* The delay is over and the loop starts its next iteration.
Wake(j) ==
    /\ pc[j] = "sleep"
    /\ attempt' = [attempt EXCEPT ![j] = @ + 1]
    /\ Goto(j, "fetch")
    /\ UNCHANGED <<remote, inflight, tracking, work, orphan, summary>>

\* The job is cancelled, exceeds its time limit, or its runner is lost.
Cancel(j) ==
    /\ "cancel" \in Faults
    /\ pc[j] \in Running
    /\ Exit(j, "cancelled")
    /\ UNCHANGED <<remote, inflight, summary>>

\* One step of the script, faults included.
ScriptStep(j) ==
    \/ Fetch(j) \/ FetchFails(j)
    \/ Reset(j) \/ ResetFails(j)
    \/ RecordAdds(j) \/ RecordFindsEntry(j) \/ RecordErrs(j)
    \/ GitCommit(j) \/ AddFails(j) \/ CommitFails(j)
    \/ PushAccepted(j) \/ PushRejected(j) \/ PushUnanswered(j)
    \/ Wake(j)

\* Every job is over and no push is pending: the system may stop here only.
Quiescent ==
    /\ \A j \in Job : pc[j] \in Exited
    /\ inflight = {}
    /\ UNCHANGED vars

Next ==
    \/ \E j \in Job : Start(j) \/ SetupFails(j) \/ ScriptStep(j) \/ Cancel(j)
    \/ \E commits \in inflight : PushLands(commits) \/ PushLost(commits)
    \/ Quiescent

Spec == Init /\ [][Next]_vars

(***************************************************************************)
(* A started script keeps running: each of its commands returns, with       *)
(* success or failure.  Nothing makes GitHub start or cancel a job, and     *)
(* nothing makes a broken push land.                                        *)
(***************************************************************************)
FairSpec == Spec /\ \A j \in Job : WF_vars(ScriptStep(j))
-----------------------------------------------------------------------------
\* The branch holds at most one entry for a run_id and run_attempt, however
\* often the job retried and whatever became of its earlier pushes
\* (evidence.go, ErrAlreadyRecorded and the script's loop).
AtMostOnce ==
    \A i, k \in 1..Len(remote) : remote[i].job = remote[k].job => i = k

\* A job that reports success has its entry in the branch, and it stays
\* there: no other job's push ever drops it (the two "exit 0" of the script).
ExitZeroMeansRecorded ==
    \A j \in Job : pc[j] = "exit0" => j \in JobsIn(remote)

\* A checkpoint published in a run's summary stays a prefix of the branch, so
\* an auditor who saved it can always verify the log against it
\* (publish_checkpoint_summary).
PublishedCheckpointHolds ==
    \A j \in Job : IsPrefix(summary[j], remote)

\* Contention alone makes nobody give up while there are no more record jobs
\* than attempts: every rejected push of a job is paid for by the entry of
\* another job (the bound on the retry loop).
BurstWithinBudget ==
    (Faults = {} /\ Cardinality(Job) <= MaxAttempts) =>
        \A j \in Job : pc[j] # "exit1"

\* At most one entry per run_id, as docs/adr/0001-action-evidence.md:18 puts
\* it: restarting a job creates no duplicates.
OneEntryPerRun ==
    \A i, k \in 1..Len(remote) : remote[i].job[1] = remote[k].job[1] => i = k

\* The branch implements the abstract log: every step of every job, every
\* late push included, adds one entry of one job that had none, or leaves
\* the branch alone.
Log == INSTANCE EvidenceLog WITH
           Jobs <- Job,
           log <- [i \in 1..Len(remote) |-> remote[i].job]

ImplementsLog == Log!Spec

\* A started job ends: the loop and its retries terminate whatever fails.
EveryJobEnds ==
    \A j \in Job : pc[j] = "fetch" ~> pc[j] \in Exited

\* Without faults and within the retry budget a started job's entry reaches
\* the branch, however the jobs race.
EventuallyRecorded ==
    \A j \in Job : pc[j] = "fetch" ~> j \in JobsIn(remote)
=============================================================================
