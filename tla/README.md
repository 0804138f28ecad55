# Verification of DevSecOps Gatekeeper

TLA+ models of this repository, checked with TLC and, for the core, proved with
TLAPS. Paths below are relative to `src/`.

## 1. The system

Gatekeeper exists in two forms that share almost no code at run time.

**Action mode** (the product): a GitHub Action in the client's own CI. A workflow
run scans the tree with gitleaks and, for a push to the default branch, signs the
verdict and appends it to an *evidence log*, which is a branch of the client's
repository. **Cloud mode** (a prototype): an API that receives GitHub's and
Stripe's webhooks, a queue, and scanner processes.

### Components

| Component | State | Operations | Hard about it |
|---|---|---|---|
| Scan: `internal/engine`, `runScan` | the findings slice, `result.json`, exit code | Scan, sortAndDedupe (in place), write, exit 0/1/2 | result must not depend on gitleaks' order; the loop overwrites what it reads |
| Workflow: `action.yml`, `gatekeeper.yml` | outputs `code`, `result`; artifact | scan, target, record; the record job's `if` | the record job runs although the scan job failed |
| Record job: `scripts/evidence-push.sh`, `evidence.Record` | working copy, the branch, run summary | fetch, reset, record, commit, push, retry | concurrent writers, lost and late pushes, failures between any two steps, re-runs |
| Key rotation: `scripts/rotation_test.sh`, runbook, `LoadConfig`, `Target` | `evidence.json`, the secret, one branch per epoch | rotate (planned or not), publish, overwrite the secret, merge | epoch comes from the commit, key from the secret; jobs run meanwhile |
| API gateway: `cmd/api` | none of its own; queue, tables, SpiceDB | HandleWebhook, HandleGetFindings, HandleUpdateStatus | checks are read before they are used |
| Queue: NATS JetStream | stream, queue-group consumer | publish, deliver, ack, nak, redeliver | at-least-once; the consumer's lifetime is tied to one scanner |
| Scanner: `cmd/scanner`, `internal/github` | directory, tables, issues | the subscription handler, parseReport | crash before the ack, slow scans, single steps failing |
| Billing: `internal/billing` | `subscriptions`, a SpiceDB relation | HandleStripeWebhook, CancelSubscription, CheckSubscriptionAccess | repeated, overlapping and reordered deliveries |
| Token cache, middleware, unused packages, deployment | – | – | not modelled, see section 8 |

How they interact: the scan job hands `code` and `result.json` to the record job
(outputs, artifact); record jobs share one branch per epoch and nothing else; the
owner changes branch, secret and `evidence.json`, which record jobs read at
different times. In cloud mode the API and the scanners share the stream and
PostgreSQL; billing writes the row the API's admission reads, scanners add rows to the
table whose rows the findings API lists and changes, and an administrator changes the relations
in SpiceDB that the API asks for.

### What makes each correct

- *Scan*: equal sets of findings give equal results; a signed verdict is the
  verdict of that scan, and a scan that broke down is never signed.
- *Record job*: success means the entry is in the branch, for good; never two
  entries for one `run_id` and `run_attempt`; checkpoints already published stay
  valid; a burst of pushes does not exhaust the retries; the job ends.
- *Rotation*: each epoch's log has one key, links stay prefixes of what they froze, a run
  does not record in two epochs.
- *Billing*: a payment gives one period of access, unless its event is replayed; an acknowledged payment is
  not shortened or lost.
- *Scan pipeline*: a task is given up only when a handler is through with it, repetition needs a fault, and
  a task is not forgotten as long as scanners take part.
- *Admission*: only a push of somebody who may and has paid is queued, nobody who has paid is told
  to pay, what was accepted is queued, and its handling covers it, although every check may be stale when it is used.
- *Findings API*: a row changes only for a user with the right on its repository, lists are
  current, and a refusal has a cause.

## 2. The modules

| Module | Models | Composes |
|---|---|---|
| `EvidenceLog` | the abstract promise to an auditor: a log that grows by one new job at a time | |
| `EvidencePush` | all record jobs of one epoch | implements `EvidenceLog` (`ImplementsLog`) |
| `EvidencePushProofs` | proofs about it | |
| `EvidenceChain` | the abstract promise to a verifier of a chain of epochs | |
| `EvidenceRotation` | rotations overlapping record jobs | implements `EvidenceChain` (`ImplementsChain`) |
| `EvidenceRotationProofs` | proofs about it | |
| `EpochConfig` | how one record job finds its epoch | |
| `EpochConfigProofs` | proofs about it | |
| `ScanResult` | one scan, its hand-over and its verdict | |
| `ScanResultProofs` | proofs about it | |
| `Billing` | Stripe's deliveries and the subscriptions table | |
| `BillingProofs` | proofs about it | |
| `TaskQueue` | the abstract promise of the queue: nothing is lost, or retired before somebody handled it | |
| `ScanPipeline` | API publication, stream, consumer, scanners | implements `TaskQueue` (`ImplementsQueue`) |
| `ScanPipelineProofs` | proofs about it | |
| `Admission` | HandleWebhook, and what is scanned for it | `Billing` and `TaskQueue` |
| `AdmissionProofs` | proofs about it, on top of Billing's | `BillingProofs` |
| `Findings` | HandleGetFindings, HandleUpdateStatus and the scanners' inserts | |
| `FindingsProofs` | proofs about it | |
| `MC*` | the constants TLC needs; `MCAdmission` extends `AdmissionProofs`, so that TLC evaluates its assumption | |

`map` in `PROJECT.json` gives the source lines of every definition.

### EvidencePush

State: `remote` is the branch on the server, the sequence of its commits. A commit adds one
entry file and moves the checkpoint, so it is named by its job and the loop
attempt that made it. `inflight` holds pushes whose client saw an error; they may
still land. Per job: `pc` (the script's next command), `attempt` (the loop
counter), `tracking` (`origin/$EVIDENCE_BRANCH`), `work` (the working copy),
`orphan` (an untracked entry file), `summary` (the published checkpoint).
A job is a pair of `run_id` and `run_attempt`; a re-run starts when the attempt
before it is over.

Each command of `scripts/evidence-push.sh` is an action, and each of its failures
is another: `Fetch`/`FetchFails`, `Reset`/`ResetFails`,
`RecordAdds`/`RecordFindsEntry`/`RecordErrs` (exit codes 0, 3, 2),
`GitCommit`/`AddFails`/`CommitFails`,
`PushAccepted`/`PushRejected`/`PushUnanswered`, `Wake`, plus `Cancel` at any time.
`AttemptFailed` is the end of an iteration and includes giving up.

Two things are worth knowing. `git reset --hard` removes staged files but not
untracked ones, so a failing `git add` (line 83) leaves an entry file behind. What
trust-core's `filelog` does with it cannot be read off this repository, so
`OrphanReaction` lists the reactions to consider: refuse the directory, write
over the file, or count it as an entry. With `"count"`, a job could exit 0 without
having recorded; the tests of `internal/evidence/evidence_test.go` (a tampered or
incomplete log is refused) speak against it, and the property is claimed without it.
And the idempotency check of `record` matters for lost answers of
pushes: without it `AtMostOnce` fails as soon as a push lands unseen.

### EvidenceRotation

The owner's steps follow `scripts/rotation_test.sh` and
`docs/runbooks/key-rotation.md`: freeze (planned: the present state of the branch;
unplanned: an earlier checkpoint), publish the new branch with its genesis,
overwrite the secret, merge the new `evidence.json`. Keys are named by their
epoch. A job gets its epoch with its commit (`PushCommit`), its key when the
record job starts (`StartRecord`). Between the overwriting and the merge new runs have
the new key and the old epoch: `filelog.Open` refuses (`RecordRefused`), loudly,
and the commit stays without an entry. The same holds for re-runs of old commits
after the rotation.

The retry loop is abstracted: a failed attempt may be the last one. The details are
in `EvidencePush`.

The rotation freezes a state of the old branch, but nothing stops jobs that
already hold the old key from adding to it: the old branch may grow past what the
next genesis links to. The chain stays verifiable, since the link is a prefix
(`ImplementsChain`). `DrainedIsClosed` says from when on the old branch is really
closed: the key out of the secret, no running job with it, no push under way.

### EpochConfig

The job resolves the epoch three times: mode target (`TargetStep`, whose branch is checked
out), mode record (`ResolveBranch`, whose branch becomes `EVIDENCE_BRANCH`) and the
`gatekeeper record` that the script starts (`RecordOpens`, whose origin the log must have).
The config's path gets there by three ways: the `config` input of each of the two
`uses:` steps, the flag (`ConfigArgs`, `CheckConfigFlag`), and `EVIDENCE_CONFIG`
(`ExportConfig`, `ScriptArgs`), which the workflow may also have set by itself (`ambient`).
`LoadConfig` gives a set: the epoch, or nothing for an error. Content 0 stands for all that the
strict parser refuses. `Says` states what the client meant without reference to the way it is passed on.
A step fails when the command does, since `shell: bash` runs with `-eo pipefail`.

The two steps may be given different configs; that is harmless, because the script resets the
evidence directory to its own branch. `FailureHasCause` says so. The script's retries are
left to `EvidencePush`: here a missing branch simply ends the job.

### ScanResult

`raw` is what gitleaks reports, any sequence of findings. `Sort` chooses any sorted permutation
(`sort.Slice` is not stable). `Keep`, `Drop` and `EndDedupe` are the loop
of `sortAndDedupe`, position by position in the one array that both slices share.
`WriteResult`/`WriteFails` end `runScan`, `ScanJobLost` the job without an output.
`Record` signs, if `RecordJobRuns`. "push" stands for a push to the default
branch, "pull_request" for every event that is not one. Fingerprints are SHA-256
and taken to be injective. A write that fails may leave a whole `result.json` behind, and so may a job that is
cancelled after its write (a file cut short does not decode and counts as none); nobody signs it, since the code is 2 or missing.

### Billing

A delivery is an event and a number; deliveries overlap freely. `Receive` is the
handler up to the upsert, then `Upsert`/`UpsertFails`, `Grant`/`GrantFails`; an
upsert may be committed and still be reported as an error. `Crash` breaks the
connection. Time counts units much longer than a request.

Three observations that are no findings of a run: an error of `GrantAccess` is
logged and answered with 200, so the relation may be missing for good (the
package's `README.md:190` speaks of transactions being rolled back); `invoice.paid` and all
other types are answered 200 and ignored (`README.md:104-108` of the package
describes an extension); a repeated delivery activates a cancelled subscription again.

A delivery that comes again is applied again, and starts a fresh period nobody paid for: that is what `billing_once`
shows. So access cannot be bounded by payments alone. `OnePeriodPerPayment` bounds it by one period from the storing of the
checkout that the row names, and from its *first* storing as long as no other delivery of that event was
applied (`AppliedOnce`): a failure, a lost answer, a cancellation or another event adds nothing, only a replay does.
`GrantFollowsRow` says that a relation needs a row, and that an acknowledged payment has its relation unless some call failed.

### ScanPipeline

The stream is the sequence of published tasks. The consumer is JetStream's queue-group
consumer as nats.go makes it for `QueueSubscribe` without a durable option: it is created by
the first subscriber, bound to by the others, and deleted by the creator's
`Unsubscribe`; the next one starts at the first task of the stream, which has no
age limit (`AddStream` in `cmd/api` sets none). This library code is not in the repository; it
is modelled from its use and marked external. Handlers of one scanner run one at
a time, `held` is its buffer.

Every early return of the handler is an action. Apart from `MkdirAll` (`Nak`), every failure
ends in `Ack`: a clone that fails, gitleaks that cannot run, an unreadable report, a
database that is down. So `ImplementsQueue` says that a handler came to *an* end before the
task was retired, not that the repository was scanned. `handled` and the set of acknowledged tasks map to
`TaskQueue`'s variables; a new consumer is its `Restart`.

A scanner that finds a consumer joins it; when the one that made it is stopped, its `Unsubscribe` deletes the consumer and the
others stay running but detached, since the handler is subscribed once, at the start of the process. In a rolling
update of `k8s/scanner-deployment.yaml` (the default strategy) each replacement is attached before its predecessor gets the
signal, so the creator may well be stopped last, and nothing is started after it. Tasks then wait until somebody starts a scanner. That is why `EventuallyAcked`
is claimed under the premise that `attached` is not empty for good.

### Admission

One tenant's pushes to the default branch of one repository, from the request to the scan.
`Billing` is instantiated with its deliveries' `pc` renamed to `payment`: every step of Stripe, the clock and
a cancellation is a step `Bill` here, so the row that `CheckSubscription` reads is the one the
billing webhook writes. The queue is the abstract one, which `ScanPipeline` implements;
the scanner is reduced to what it clones and how it ends. `right` and `checked` are history: whether the
sender held the relation at some moment of the request, and when the subscription was found active.

HandleWebhook's first six refusals depend on the request alone; `TurnedAway` is their table.
After them it is one action per call: `CheckPermission` (any error is answered 403,
`PermissionUnknown`), `CheckSubscription` (an error is 500, `SubscriptionUnknown`), `Publish` (an
error is 500, and the task may be queued all the same). `clock` moves between any two.

`TaskWasAdmitted` speaks of the moment of admission. It does not say that the scan happens within
the paid period: the stream keeps tasks without limit and the scanner does not ask again.
`PaidFor` counts every applied delivery of a checkout, replays included, as Billing does.
`AcceptedIsCovered` is about a tree, not a history: the clone has depth 1 and takes the head, so a push is
covered by the scan of a later head. It holds of a push that was answered 500 and queued all the same, too. That a task is handled at all is left to
`EventuallyAcked` of the pipeline, with its premise: this module has no fairness.

### Findings

`rows` maps ids to rows. Ids come from a sequence and are taken before the insert is stored, so
`SaveFinding` may store any free id: rows appear out of order and failed inserts leave gaps.
A request is handled in up to three calls to two systems (`ReadRow`, `Check`, `Query` or
`Change`), each with its failure. `held` and `lacked` record whether the user of a request held, or lacked,
the right on its repository at some moment of it (`Watch`, part of every action).

`QueryBreaks` is a connection that breaks, or a row that cannot be decoded, within the loop over the rows, which does
not look at `rows.Err()`: the list is cut short and answered with 200. `ListIsCurrent` says that this is the
only way a finding stored before the request is missing, and that only the oldest are.
A row that cannot be decoded would leave out a single finding; columns are never NULL, so none is.

Observations that are no findings of a run: HandleWebhook asks SpiceDB for the repository's number,
and says why (`cmd/api/main.go:265-266`), while the findings API asks for its bare name (lines 148 and 356), and
`GrantAccess` writes its relation on a fixed name; so a right under one does not serve the other.
Listing asks for "writer", where `iam/schema.zed:23-24` lets readers read. Status is any string that fits. A push to
any branch is admitted, and the default branch is scanned for it.

## 3. Runs

| Run | Instance | Shows |
|---|---|---|
| `push_safety` | 2 runs, 3 loop attempts, all faults, fair | type, `AtMostOnce`, `ExitZeroMeansRecorded`, `PublishedCheckpointHolds`, `ImplementsLog`, `EveryJobEnds` (68,096 states) |
| `push_burst` | 3 runs, 3 attempts, no faults, fair | `BurstWithinBudget`, `EventuallyRecorded` |
| `push_rerun` | 2 runs started up to twice, lost pushes | violated: `OneEntryPerRun` |
| `rotation_safety` | 2 runs, one of them started up to twice, 3 epochs, both kinds of rotation | type, `ExitZeroMeansRecorded`, `OneKeyPerEpoch`, `OneEpochPerRun`, `ImplementsChain`, `DrainedIsClosed` (570,272 states) |
| `epoch_config` | 2 paths, 2 epochs, every combination of files, inputs, environment, key and branches | type, `BranchAndOriginAgree`, `RecordsWhereConfigSays`, `FailureHasCause` (18,510 states, 5,184 of them initial) |
| `scan_result` | up to 4 findings of 2 files, 2 rules, 2 fingerprints | type, `ResultIsCanonical`, `VerdictIsTheScans` (253,445 states) |
| `billing_safety` | 3 events, 2 deliveries each, 1 fault, clock to 2, fair | type, `OnePeriodPerPayment`, `AckedPeriodHolds`, `RowIsOneDelivery`, `GrantFollowsRow`, `EventuallyStored` (287,064 states) |
| `billing_once` | 2 events, 2 deliveries | violated: `EventAppliedOnce` |
| `pipeline_safety` | 1 push and a leftover task, 2 scanners, 2 leaks, 2 faults of 12 kinds, fair | type, `ReportIsComplete`, `RepeatsArePaid`, `ImplementsQueue`, `EventuallyAcked` (518,619 states) |
| `pipeline_network` | 1 scanner, 1 network fault | violated: `OnlyDeterministicFailuresDropped` |
| `admission` | 1 tenant, 1 payment, 2 pushes with a request each, 1 fault, clock to 2 | type, `TaskWasAdmitted`, `PaidIsNotRefused`, `AcceptedIsCovered` (348,402 states) |
| `findings` | 1 user, 2 repositories, 2 requests, 2 ids, 1 fault | type, `ListIsCurrent`, `RefusalHasCause`, `ChangeWasAllowed` (636,314 states) |

### Bounds and why they are enough

- *Runs, jobs*: two writers give every race of a pair; `push_burst` takes three, so that a job can
  lose twice. The theorems cover any number. Larger instances were tried once and showed no
  error: 3 runs with 2 attempts and all faults (649 thousand states), 2 runs with the real 5
  attempts (6.3 million), 2 runs started twice across one rotation (3.1 million), the findings API with
  3 ids (9.8 million) and with 2 users.
- *Loop attempts* 3 instead of 5: a first, a middle and a last one.
- *Epochs* 3: two rotations, so that a run may span both. One run is started twice, in any two epochs, while the
  other races it.
- *Paths* 2: the default one and another, each present, absent or unusable. Proved for any set.
- *Findings* 4: a repetition before, between and after other findings, and writes behind
  the read position by one and by two. Proved for any number.
- *Billing*: two payments of one tenant in every order; the period is shorter than the clock's
  range, so it ends during the run. Tenants share nothing, hence one.
- *Pipeline*: `MaxFaults` 2 gives a crash during the repetition that another fault caused;
  `MaxDeliveries` 3 is one more than two faults need.
- `CHECK_DEADLOCK FALSE` where everything may be over: all runs ended, all deliveries answered.
  `EvidencePush` has an explicit action for that and is checked for deadlock.
- *Admission*: one payment whose period ends before the clock does; two pushes, so that a scan may be of the other's
  head. Tenants share the queue and the branch only, and the order of tasks is not fixed, hence one.
- *Findings*: the same finding twice, or one of each repository; one request to change a row while another lists or
  changes it.
- *Symmetry* is used in `findings` only: it has no liveness property, and neither requests nor repositories are told apart.

### Fairness

- `EvidencePush`: every command of a started job returns, with success or failure (GitHub ends a
  job that hangs after its time limit), and a sleeping job wakes. Nobody has to push or
  re-run, no fault has to happen, no late push has to land.
- `Billing`: every statement of a handler returns; Stripe retries what was not acknowledged.
  Nothing makes it deliver for the first time, or again after a 200. The retries are
  more than the faults; otherwise `EventuallyStored` says nothing more than that Stripe gave up.
- `ScanPipeline`: a handler's calls return, the broker delivers what is due and notices a
  wait that is over. No scanner has to be started, for the first time or again: the pods of `k8s/scanner-deployment.yaml` are restarted
  when they die, but nothing makes a start follow the stop of the consumer's creator, and docker-compose names no restart policy.
  `EventuallyAcked` therefore has a premise of its own, `[]<>(attached # {})`. Two things it does not cover. `git clone` has no time limit;
  that it returns is assumed. And faults are finitely many (`MaxFaults`): the manifest makes the container's root read-only (line 33) and
  mounts nothing at `/tmp`, where the handler makes its directory, so unless the cluster adds a volume `MkdirAll` fails on every delivery and
  the task is sent back for ever. That is no interleaving to be checked but a deployment in which no scan runs; it is listed under
  "hazards" without a property.
- `Admission` and `Findings` have no liveness property and assume no fairness.

## 4. Where documents and code differ

| Run | Document | Code |
|---|---|---|
| `push_rerun` | `docs/adr/0001-action-evidence.md:18`, "restarting a job creates no duplicates" | `internal/evidence/evidence.go:350` compares `run_attempt` too, which a restart increments; the entries differ in it |
| `billing_once` | `internal/billing/IMPLEMENTATION_GUIDE.md:119`, `README.md:193`, events are processed exactly once | `internal/billing/webhook.go:108` applies every delivery; `stripe_processed_events` has no writer |
| `pipeline_network` | comment at `cmd/scanner/main.go:133`, a deterministic failure (404) | every failure of the clone is acknowledged |

## 5. What is proved

`EvidencePushProofs`, for any finite set of runs and any bounds:

- `TypeCorrect`, `AtMostOnceHolds`, `PublishedCheckpointHoldsAlways`,
  `ExitZeroMeansRecordedAlways` (assuming `"count" \notin OrphanReaction`),
  `ImplementsLogHolds`, `BurstWithinBudgetHolds`.

The inductive invariant is `SafetyInv`, three parts: `TypeInv` (types, and a job
sleeps only when an attempt is left); `Distinct`: no history anywhere, the branch, a working
copy, a fetched copy, a push under way, has two entries of one job; `Anchored`: what a
job fetched is a prefix of the branch, and what it pushes is one commit ahead of
such a prefix, its own. `AtMostOnce` alone is not inductive: a push may land that was made from an
old state, and the refusal of anything that is not a fast-forward helps only because
the pushed history is itself free of duplicates and extends the branch by exactly one commit
(`FastForwardAddsOne`, which also gives `ImplementsLogHolds`). `Budget` counts: when nothing
fails by itself, each failed attempt of a job is paid for by an entry of another job that was not in
the branch before, so attempts cannot run out before jobs do.

- `StepsLeftBounded`, `StepsRunOutHolds`: what can be proved of termination without fairness. A job
  has at most one start and six commands for each attempt ahead of it (`StepsLeft`); every command uses up one, and no step of
  another job, the server or GitHub gives one back. That a command returns at all is the fairness `EveryJobEnds` needs.

`ScanResultProofs`, for any number of findings:

- `CanonicalIsUnique`: a set of findings has exactly one canonical form (by least difference of two
  forms); so the result depends on what gitleaks reports only, not on order or repetition.
- `TypeCorrect`, `ResultIsCanonicalHolds`, `VerdictIsTheScansHolds`, from `IInv`. Its
  core is `LoopInv`: the kept prefix is strictly increasing, the unread suffix is sorted
  and not before anything kept, and the two together hold what was reported. It says nothing
  of the positions in between, which is why overwriting them is harmless.

`EpochConfigProofs`, for any set of paths and any number of epochs:

- `TypeCorrect`, `BranchAndOriginAgreeHolds`, `RecordsWhereConfigSaysHolds`,
  `FailureHasCauseHolds`, from `IInv`. The lemma they rest on is `ResolveIsSays`: what a step
  resolves is exactly what its client says, flag or no flag. `IInv` carries that along: from its
  resolution on the branch is what the client says (`BranchIsSaid`), and the script's process has the
  path it came from (`ConfigIsPassedOn`); so `record` can only resolve the same (`RecordResolves`).

`EvidenceRotationProofs`, for any runs, epochs, re-runs and kinds of rotation:

- `TypeCorrect`, `ExitZeroMeansRecordedHolds`, `OneKeyPerEpochHolds`, `OneEpochPerRunHolds`,
  `DrainedIsClosedHolds`, `ImplementsChainHolds`, from `IInv`. Its parts: `OwnerInv`, branch, secret
  and config move in step and what is frozen is a part of the branch; `LogsInv` and `PushesInv`, every entry of a log
  and at the head of a push under way is `Proper`, signed with its epoch's key for a run of that epoch;
  `JobInv`, what a job pushes is one entry ahead of a part of its branch. The branch alone is not
  inductive, since a push made long ago may land. `StepAdds` says what any step does to the branches:
  nothing, or it adds one proper entry on behalf of a job or push that holds that epoch's key. Closing a drained epoch
  and the refinement both follow from it.

`BillingProofs`, for any tenants, events and bounds:

- `TypeCorrect`, `GrantFollowsRowHolds`, `RowIsOneDeliveryHolds`, `OnePeriodPerPaymentHolds`,
  `AckedPeriodHoldsAlways`. The core of `IInv` is a pair: `Stored`, every delivery that was applied
  is covered by the end of its tenant's row, and `Written`, every row's session and end are those of one applied
  delivery. The upsert keeps the first because the clock does not run backwards and every period is equally long:
  the delivery applied last ends last, whatever its event's age. A third part, `OncePerDelivery`, says that a delivery is
  applied at most once and not before its upsert; so where one delivery of an event was applied, its row's end is one period from its only storing.

`ScanPipelineProofs`, for any pushes, scanners, leaks and faults:

- `TypeCorrect`, `ReportIsCompleteHolds`, `ImplementsQueueHolds`. `IInv` says of each scanner
  (`Sane`) that its handler has a task, that parseReport has tried every finding before the next one, and that an end is
  noted before `m.Ack()`. It needs no word about the other scanners, because results are only added to (`StepGrows`);
  that is why a second delivery does no harm.
- `RepeatsArePaidHolds`, by counting, from `PaidInv` on top of `IInv`. `RepeatsArePaid` alone is not inductive: that a
  row or an issue may still be added is decided by the copies of the task in the scanners' hands. For each finding, its rows
  plus the copies that have not got past it (`Pending`) are at most its task's deliveries (`FindingPaid`); the same for the
  issue (`IssuePaid`). A delivery adds one copy, an attempt uses up one, the end of a handler moves the others up
  (an injection, `PendingMovesUp`), the end of a process drops them. `DeliveryPaid` counts in advance: if the consumer may
  deliver a task without a further fault (`MayComeAgain`: there is no consumer, or it has not sent the task, owes it, or waits for
  somebody who no longer has it), the faults so far pay for that delivery too.

`AdmissionProofs`, for any hooks, pushes, tenants, events and bounds:

- `TypeCorrect`, `TaskWasAdmittedHolds`, `PaidIsNotRefusedHolds`, `AcceptedIsCoveredHolds`, `BillingKept`, `QueueIsUsed`. Billing is not proved
  again: `BP` is `BillingProofs` with `pc` renamed to `payment`, its invariant is the first conjunct of `IInv`, and a step
  of Billing keeps it by Billing's own lemma. The others are `Watched` (who may read while his request is handled is known to have
  had the right), `Checked` (past the first check the right was there, past the second the payment was, and a payment once
  made stays in the history) and `QueuedOnce` (a queued hook has its answer), which bounds the queue. For `AcceptedIsCovered` there are `Told` (a hook past the reading of
  its request tells of a push that is in the branch, so of every commit cloned later) and `Cloned` (a clone taken for a task reaches at least the task's commit).
  `BillingKept` says that Billing's promises survive the composition, although requests share its faults;
  `QueueIsUsed`, that API and scanners take no step the abstract queue has not. Since
  `ScanPipeline` implements that queue, what is proved here does not depend on how it is made.

`FindingsProofs`, for any users, repositories, requests and rows:

- `RefusalHasCauseHolds`, `ChangeWasAllowedHolds`. `IInv` has the types of requests, `Watched` (while it is handled, a
  request has seen whether its user may act now, so the answer of the check is among what it has seen) and
  `Phase` (the row that was read is there and still of the repository that is asked for).
- `TypeCorrect`, `ListIsCurrentHolds`, from `ListInv`, which adds the types of the rest and `Listing`: an answered list
  has the user's right behind it, is in order, and misses nothing, or only the oldest if the connection broke
  (`IsCurrentList`). The order of a list is a `CHOOSE`; that there is one to choose (`ListExists`) is shown without
  induction over data, which the prover does not have: a smallest set of ids without a list would have one without its
  least id, and the least id comes last. Rows keep their repository and are never deleted, so what was
  there when the request came is there when it is answered (`RequestEffects`).

The assumptions are the modules' `ConstantsAssumption`s (finite sets of runs, bounds that are
numbers, names and fingerprints ordered like numbers), `NoResultAssumption`, `NoRowAssumption`, `PathsAssumption`, `EpochAssumption` and `HooksAssumption`;
`BillingAssumption` says that Admission's constants are such as Billing's assumptions ask for. TLC evaluates them in each run.

## 6. Only model-checked

Liveness (`EveryJobEnds`, `EventuallyRecorded`, `EventuallyStored`, `EventuallyAcked`):
the prover has no support for reasoning about `ENABLED` and fairness. And what is violated (section 4).
Every invariant, action property and refinement that a passing run checks is also proved.

## 7. Plan

Done: `EvidenceLog`, `EvidencePush` and proofs; `EvidenceChain`, `EvidenceRotation` and proofs;
`EpochConfig`, `ScanResult`, `Billing`, `Findings` and proofs; `TaskQueue`, `ScanPipeline` and proofs; `Admission` and proofs.
What may follow, in this order:

1. variants like `StepsLeft` for the handlers of the scanner and of Stripe's deliveries, the part of their liveness that
   needs no fairness;
2. `Admission` with the stream and consumers of `ScanPipeline` in place of the abstract queue, should TLC manage the product.

## 8. Not modelled

- trust-core (`filelog`, DSSE, `trustcore rotate`), gitleaks, nats.go, stripe-go, SpiceDB,
  PostgreSQL, git and GitHub: outside the repository, present as environment actions.
- `--sarif` of the scan command; `version`, which only prints.
- `NewNATSBroker`, the token cache, `internal/auth`, `internal/handler`, `internal/authz`,
  `internal/scanner`: nothing in the binaries calls them, so nobody interleaves with them and no state of the
  system depends on them. The permissions of `iam/schema.zed` and its tenants: no code asks for or writes them.
- Request validation and signatures: checks of one request without state; their outcome is `TurnAway`.
- Configuration, images, deployment, simulators, linting: static.
