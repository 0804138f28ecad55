--------------------------- MODULE EvidenceRotation -------------------------
(***************************************************************************)
(* Key rotation into a new evidence epoch while record jobs run.            *)
(*                                                                         *)
(* A record job gets its epoch and its key from different places: the epoch *)
(* is .gatekeeper/evidence.json in the commit it was started for, the key   *)
(* is the secret as it is when the job starts.  The owner changes the two   *)
(* one after the other, and the branch of the new epoch before either.      *)
(* Nothing stops jobs from starting, waiting or pushing between the steps.  *)
(*                                                                         *)
(* The retry loop of a job is EvidencePush; here an attempt that fails may  *)
(* be followed by another or be the last.  A key is named by the epoch it   *)
(* was made for.                                                            *)
(***************************************************************************)
EXTENDS Naturals, Sequences, SequencesExt, FiniteSets

CONSTANTS
    Runs,            \* workflow runs of pushes to the default branch
    MaxEpoch,        \* bound: the last epoch the owner rotates to
    Kinds,           \* the kinds of rotation the owner performs
    MaxRunAttempts   \* bound: how often each run is started

ASSUME ConstantsAssumption ==
    /\ IsFiniteSet(Runs)
    /\ MaxEpoch \in Nat \ {0}
    /\ Kinds \subseteq {"planned", "unplanned"}
    /\ MaxRunAttempts \in [Runs -> Nat \ {0}]

Epoch == 1..MaxEpoch
RunAttempt == UNION {1..MaxRunAttempts[r] : r \in Runs}
Entry == [run : Runs, attempt : RunAttempt, key : Epoch]

VARIABLES
    config,    \* the epoch in evidence.json at the head of the default branch
    secret,    \* the key in GATEKEEPER_SIGNING_KEY
    branch,    \* the entries of every epoch's branch
    inflight,  \* pushes whose client saw an error but which may still land
    published, \* the newest epoch that has a branch
    genesis,   \* what the genesis of every published epoch commits to
    rotation,  \* how far the owner is in the current rotation
    freeze,    \* the history frozen by the rotation in progress
    pc,        \* where every run's record job is
    runAttempt, \* how often the run has been started
    epochOf,   \* the epoch of every run: that of its commit
    keyOf,     \* the key its current job was started with
    work       \* its working copy of the branch

rotationVars == <<config, secret, published, genesis, rotation, freeze>>
runVars == <<pc, runAttempt, epochOf, keyOf, work>>
vars == <<branch, inflight, rotationVars, runVars>>

Exited == {"exit0", "exit1"}
HoldsKey == {"fetch", "record", "push"}

\* The entry the current job of a run makes or looks for; its key is the
\* signer's, and an entry of another key is not compared.
EntryOf(r) == [run |-> r, attempt |-> runAttempt[r], key |-> keyOf[r]]

TypeOK ==
    /\ config \in Epoch
    /\ secret \in Epoch
    /\ branch \in [Epoch -> Seq(Entry)]
    /\ inflight \in SUBSET [epoch : Epoch, commits : Seq(Entry)]
    /\ published \in Epoch
    /\ genesis \in [Epoch -> Seq(Entry)]
    /\ rotation \in {"none", "rotated", "published", "keyed"}
    /\ freeze \in Seq(Entry)
    /\ pc \in [Runs -> {"idle", "queued"} \cup HoldsKey \cup Exited]
    /\ runAttempt \in [Runs -> RunAttempt]
    /\ epochOf \in [Runs -> Epoch]
    /\ keyOf \in [Runs -> Epoch]
    /\ work \in [Runs -> Seq(Entry)]

Init ==
    /\ config = 1
    /\ secret = 1
    /\ branch = [e \in Epoch |-> <<>>]
    /\ inflight = {}
    /\ genesis = [e \in Epoch |-> <<>>]
    /\ published = 1
    /\ rotation = "none"
    /\ freeze = <<>>
    /\ pc = [r \in Runs |-> "idle"]
    /\ runAttempt = [r \in Runs |-> 1]
    /\ epochOf = [r \in Runs |-> 1]
    /\ keyOf = [r \in Runs |-> 1]
    /\ work = [r \in Runs |-> <<>>]
-----------------------------------------------------------------------------
(***************************************************************************)
(* The owner's steps, in the order of scripts/rotation_test.sh: clone the   *)
(* current branch and run "trustcore rotate" on the clone; push the branch  *)
(* of the new epoch; overwrite the secret; merge the new evidence.json.     *)
(***************************************************************************)

\* Planned: both keys, and the state of the clone is frozen.
RotatePlanned ==
    /\ "planned" \in Kinds
    /\ rotation = "none"
    /\ config < MaxEpoch
    /\ freeze' = branch[config]
    /\ rotation' = "rotated"
    /\ UNCHANGED <<config, secret, branch, inflight, published, genesis, runVars>>

\* Unplanned: without the old key, from a checkpoint somebody kept.
RotateUnplanned ==
    /\ "unplanned" \in Kinds
    /\ rotation = "none"
    /\ config < MaxEpoch
    /\ \E n \in 0..Len(branch[config]) : freeze' = SubSeq(branch[config], 1, n)
    /\ rotation' = "rotated"
    /\ UNCHANGED <<config, secret, branch, inflight, published, genesis, runVars>>

\* Mutant: the new epoch's number is not the old one plus one.
PublishBranch_SkipsEpoch ==
    /\ rotation = "rotated"
    /\ genesis' = [genesis EXCEPT ![config + 1] = freeze]
    /\ published' = config + 2
    /\ rotation' = "published"
    /\ UNCHANGED <<config, secret, branch, inflight, freeze, runVars>>

PublishBranch ==
    /\ rotation = "rotated"
    /\ genesis' = [genesis EXCEPT ![config + 1] = freeze]
    /\ published' = config + 1
    /\ rotation' = "published"
    /\ UNCHANGED <<config, secret, branch, inflight, freeze, runVars>>

OverwriteSecret ==
    /\ rotation = "published"
    /\ secret' = config + 1
    /\ rotation' = "keyed"
    /\ UNCHANGED <<config, branch, inflight, published, genesis, freeze, runVars>>

MergeConfig ==
    /\ rotation = "keyed"
    /\ config' = config + 1
    /\ rotation' = "none"
    /\ freeze' = <<>>
    /\ UNCHANGED <<secret, branch, inflight, published, genesis, runVars>>

OwnerStep ==
    RotatePlanned \/ RotateUnplanned \/ PublishBranch \/ OverwriteSecret \/ MergeConfig
-----------------------------------------------------------------------------
(***************************************************************************)
(* A push to the default branch starts a run.  LoadConfig and Target see    *)
(* evidence.json as it is in that commit, in this run attempt and in every  *)
(* later one.                                                               *)
(***************************************************************************)
PushCommit(r) ==
    /\ pc[r] = "idle"
    /\ epochOf' = [epochOf EXCEPT ![r] = config]
    /\ pc' = [pc EXCEPT ![r] = "queued"]
    /\ UNCHANGED <<rotationVars, branch, inflight, runAttempt, keyOf, work>>

\* Mutant: a re-run checks out the default branch instead of its commit.
Rerun_AtHead(r) ==
    /\ pc[r] \in Exited
    /\ runAttempt[r] < MaxRunAttempts[r]
    /\ runAttempt' = [runAttempt EXCEPT ![r] = @ + 1]
    /\ epochOf' = [epochOf EXCEPT ![r] = config]
    /\ pc' = [pc EXCEPT ![r] = "queued"]
    /\ UNCHANGED <<rotationVars, branch, inflight, keyOf, work>>

\* Somebody re-runs the jobs of a finished run: same commit, next attempt.
Rerun(r) ==
    /\ pc[r] \in Exited
    /\ runAttempt[r] < MaxRunAttempts[r]
    /\ runAttempt' = [runAttempt EXCEPT ![r] = @ + 1]
    /\ pc' = [pc EXCEPT ![r] = "queued"]
    /\ UNCHANGED <<rotationVars, branch, inflight, epochOf, keyOf, work>>

\* Mutant: every epoch keeps a secret of its own.
StartRecord_SecretPerEpoch(r) ==
    /\ pc[r] = "queued"
    /\ keyOf' = [keyOf EXCEPT ![r] = epochOf[r]]
    /\ pc' = [pc EXCEPT ![r] = "fetch"]
    /\ UNCHANGED <<rotationVars, branch, inflight, runAttempt, epochOf, work>>

\* The record job gets a runner, and with it the secret as it is now.
StartRecord(r) ==
    /\ pc[r] = "queued"
    /\ keyOf' = [keyOf EXCEPT ![r] = secret]
    /\ pc' = [pc EXCEPT ![r] = "fetch"]
    /\ UNCHANGED <<rotationVars, branch, inflight, runAttempt, epochOf, work>>

Exit(r, code) ==
    /\ pc' = [pc EXCEPT ![r] = code]
    /\ work' = [work EXCEPT ![r] = <<>>]
    /\ UNCHANGED <<rotationVars, runAttempt, epochOf, keyOf>>

\* The loop of evidence-push.sh: another attempt, or none left.
AttemptFailed(r) ==
    \/ /\ pc' = [pc EXCEPT ![r] = "fetch"]
       /\ work' = [work EXCEPT ![r] = <<>>]
       /\ UNCHANGED <<rotationVars, runAttempt, epochOf, keyOf>>
    \/ Exit(r, "exit1")

\* Fetch and reset of the branch that Target derives from the epoch.
Fetch(r) ==
    /\ pc[r] = "fetch"
    /\ work' = [work EXCEPT ![r] = branch[epochOf[r]]]
    /\ pc' = [pc EXCEPT ![r] = "record"]
    /\ UNCHANGED <<rotationVars, branch, inflight, runAttempt, epochOf, keyOf>>

\* A checkout, a fetch, a reset or a commit fails, or the job is cancelled.
JobFails(r) ==
    /\ pc[r] \in HoldsKey
    /\ AttemptFailed(r)
    /\ UNCHANGED <<branch, inflight>>
-----------------------------------------------------------------------------
\* Mutant: the log is opened without verifying its checkpoint.
Opens_Unverified(r) == TRUE

\* filelog.Open verifies the branch's checkpoint under the origin of the
\* job's epoch and the key the job holds: it opens only its own epoch's log.
Opens(r) == keyOf[r] = epochOf[r]

RecordRefused(r) ==
    /\ pc[r] = "record"
    /\ ~Opens(r)
    /\ Exit(r, "exit1")
    /\ UNCHANGED <<branch, inflight>>

RecordAdds(r) ==
    /\ pc[r] = "record"
    /\ Opens(r)
    /\ ~Contains(work[r], EntryOf(r))
    /\ work' = [work EXCEPT ![r] = Append(@, EntryOf(r))]
    /\ pc' = [pc EXCEPT ![r] = "push"]
    /\ UNCHANGED <<rotationVars, branch, inflight, runAttempt, epochOf, keyOf>>

RecordFindsEntry(r) ==
    /\ pc[r] = "record"
    /\ Opens(r)
    /\ Contains(work[r], EntryOf(r))
    /\ Exit(r, "exit0")
    /\ UNCHANGED <<branch, inflight>>
-----------------------------------------------------------------------------
\* Mutant: git push --force.
FastForward_Forced(e, commits) == TRUE

\* The server takes a push only if the pushed history contains the branch's
\* head: neither the script nor the branches' ruleset allows a forced push.
FastForward(e, commits) == IsPrefix(branch[e], commits)

PushAccepted(r) ==
    /\ pc[r] = "push"
    /\ FastForward(epochOf[r], work[r])
    /\ branch' = [branch EXCEPT ![epochOf[r]] = work[r]]
    /\ Exit(r, "exit0")
    /\ UNCHANGED inflight

PushRejected(r) ==
    /\ pc[r] = "push"
    /\ ~FastForward(epochOf[r], work[r])
    /\ AttemptFailed(r)
    /\ UNCHANGED <<branch, inflight>>

\* The connection breaks: the server may have acted, may yet act, or never.
PushUnanswered(r) ==
    /\ pc[r] = "push"
    /\ inflight' = inflight \cup {[epoch |-> epochOf[r], commits |-> work[r]]}
    /\ AttemptFailed(r)
    /\ UNCHANGED branch

PushLands(push) ==
    /\ FastForward(push.epoch, push.commits)
    /\ branch' = [branch EXCEPT ![push.epoch] = push.commits]
    /\ inflight' = inflight \ {push}
    /\ UNCHANGED <<rotationVars, runVars>>

PushLost(push) ==
    /\ inflight' = inflight \ {push}
    /\ UNCHANGED <<branch, rotationVars, runVars>>

JobStep(r) ==
    \/ StartRecord(r) \/ Fetch(r) \/ JobFails(r)
    \/ RecordRefused(r) \/ RecordAdds(r) \/ RecordFindsEntry(r)
    \/ PushAccepted(r) \/ PushRejected(r) \/ PushUnanswered(r)

Next ==
    \/ OwnerStep
    \/ \E r \in Runs : PushCommit(r) \/ Rerun(r) \/ JobStep(r)
    \/ \E push \in inflight : PushLands(push) \/ PushLost(push)

Spec == Init /\ [][Next]_vars
-----------------------------------------------------------------------------
\* A job that reports success has its entry, under the key it holds, in the
\* branch of its commit's epoch, whatever rotation step it overlapped.
ExitZeroMeansRecorded ==
    \A r \in Runs : pc[r] = "exit0" => Contains(branch[epochOf[r]], EntryOf(r))

\* Every entry of an epoch is signed with that epoch's key: a verifier who
\* knows one key per epoch can check every log to its end.
OneKeyPerEpoch ==
    \A e \in Epoch : \A i \in 1..Len(branch[e]) : branch[e][i].key = e

\* The attempts of one run never record in two epochs, even when a rotation
\* falls between them (the epoch comes from the commit, not from the head).
OneEpochPerRun ==
    \A d, e \in Epoch : \A i \in 1..Len(branch[d]), k \in 1..Len(branch[e]) :
        branch[d][i].run = branch[e][k].run => d = e

\* The chain of epochs implements the abstract one: logs only grow, and a
\* genesis commits to a state its predecessor's branch had and keeps as a
\* prefix.
Chain == INSTANCE EvidenceChain WITH
             Entries <- Entry, last <- published, logs <- branch, links <- genesis

ImplementsChain == Chain!Spec

\* Nobody is left who could write to an epoch: its key is out of the secret,
\* no running job was given it, and no push to its branch is under way.
Drained(e) ==
    /\ secret > e
    /\ \A r \in Runs : pc[r] \in HoldsKey => keyOf[r] # e
    /\ \A push \in inflight : push.epoch # e

\* Once the secret is overwritten and the jobs that were given the old key
\* are over, the old epoch is closed for good: no later run, re-run of an old
\* commit, or further rotation ever moves its branch again.
DrainedIsClosed ==
    [][\A e \in Epoch : Drained(e) => Drained(e)' /\ branch'[e] = branch[e]]_vars
=============================================================================
