----------------------------- MODULE EpochConfig ----------------------------
(***************************************************************************)
(* How one record job finds the epoch it records in.                        *)
(*                                                                         *)
(* The epoch is resolved three times, by three processes: the target step   *)
(* (whose branch is checked out), the record step (whose branch the script  *)
(* fetches and pushes) and "gatekeeper record" (whose origin the log must   *)
(* have).  The path of the config reaches them through the inputs of two    *)
(* steps, a command line flag and the variable EVIDENCE_CONFIG.  "" is an   *)
(* input that is not set and a variable that is unset or empty.             *)
(*                                                                         *)
(* The commit, the workflow, the secret and the branches are what the       *)
(* client made them; nothing changes them during the job.  The retries of   *)
(* the script are EvidencePush.                                             *)
(***************************************************************************)
EXTENDS Naturals

CONSTANTS
    DefaultConfigPath,  \* .gatekeeper/evidence.json
    Paths,              \* the paths a config is looked for at
    MaxEpoch            \* bound: the last epoch of the client's logs

ASSUME PathsAssumption ==
    /\ DefaultConfigPath \in Paths
    /\ "" \notin Paths

ASSUME EpochAssumption == MaxEpoch \in Nat \ {0}

Epoch == 1..MaxEpoch

\* What a file may say: an epoch, or 0, the epoch of {}.  0 also stands for
\* everything else the strict parser refuses.
Content == 0..MaxEpoch

Step == {"target", "record"}

VARIABLES
    files,       \* the config files in the job's commit: existing paths only
    input,       \* the config input of each uses: step
    ambient,     \* EVIDENCE_CONFIG as the workflow's env: sets it
    secret,      \* the epoch of the key in GATEKEEPER_SIGNING_KEY; 0: no key
    branches,    \* the epochs that have a branch
    pc,          \* where the job is
    dir,         \* the epoch of the log in the evidence directory; 0: none
    target,      \* output "branch" of the target step; 0: none
    evidenceBranch,  \* EVIDENCE_BRANCH; 0: not set
    evidenceConfig,  \* EVIDENCE_CONFIG of the script's process
    origin,      \* the origin record derived, if it got as far
    pushed       \* the branches this job added an entry to

client == <<files, input, ambient, secret, branches>>
job == <<dir, target, evidenceBranch, evidenceConfig, origin, pushed>>
vars == <<client, pc, job>>

TypeOK ==
    /\ DOMAIN files \subseteq Paths
    /\ \A p \in DOMAIN files : files[p] \in Content
    /\ input \in [Step -> Paths \cup {""}]
    /\ ambient \in Paths \cup {""}
    /\ secret \in Epoch \cup {0}
    /\ branches \subseteq Epoch
    /\ pc \in {"target", "checkout", "key", "resolve", "export", "script",
               "fetched", "opened", "exit0", "exit1"}
    /\ {dir, target, evidenceBranch} \subseteq Epoch \cup {0}
    /\ origin \subseteq Epoch
    /\ evidenceConfig \in Paths \cup {""}
    /\ pushed \subseteq Epoch

Init ==
    /\ \E present \in SUBSET Paths : files \in [present -> Content]
    /\ input \in [Step -> Paths \cup {""}]
    /\ ambient \in Paths \cup {""}
    /\ secret \in Epoch \cup {0}
    /\ branches \in SUBSET Epoch
    /\ pc = "target"
    /\ dir = 0 /\ target = 0 /\ evidenceBranch = 0
    /\ origin = {}
    /\ evidenceConfig = ambient
    /\ pushed = {}
-----------------------------------------------------------------------------
(***************************************************************************)
(* Reading the config.  A result is the set of the one epoch found, or {}   *)
(* for an error.                                                            *)
(***************************************************************************)

\* Mutant: the default path counts as not named even when it is named.
LoadConfig_DefaultIsImplicit(path) ==
    LET implicit == path \in {"", DefaultConfigPath}
        file == IF implicit THEN DefaultConfigPath ELSE path
    IN  IF file \in DOMAIN files
        THEN {files[file]} \cap (Nat \ {0})
        ELSE IF implicit THEN {1} ELSE {}

\* Mutant: an epoch below 1 is not refused.
LoadConfig_AnyNumber(path) ==
    LET file == IF path = "" THEN DefaultConfigPath ELSE path
    IN  IF file \in DOMAIN files
        THEN {files[file]}
        ELSE IF path = "" THEN {1} ELSE {}

LoadConfig(path) ==
    LET implicit == path = ""
        file == IF implicit THEN DefaultConfigPath ELSE path
    IN  IF file \in DOMAIN files
        THEN {files[file]} \cap (Nat \ {0})
        ELSE IF implicit THEN {1} ELSE {}

\* A command line: no --config, or --config with a path.
NoFlag == <<>>
Flag(path) == <<path>>

\* config_args: the flag is passed only when there is a path to pass.
ConfigArgs(path) == IF path = "" THEN NoFlag ELSE Flag(path)

\* An explicit empty --config is refused.
CheckConfigFlag(args) == args # Flag("")

\* "evidence-target" and "record" read the epoch in the same way.
Resolve(args) ==
    IF ~CheckConfigFlag(args) THEN {}
    ELSE LoadConfig(IF args = NoFlag THEN "" ELSE args[1])

\* The epochs name both branch and origin: epoch 1 has the plain ones.
BranchOf(epoch) == IF epoch <= 1 THEN 1 ELSE epoch
OriginOf(epoch) == epoch
-----------------------------------------------------------------------------
Fail ==
    /\ pc' = "exit1"
    /\ UNCHANGED <<client, job>>

\* mode: target.
TargetStep ==
    /\ pc = "target"
    /\ \E epoch \in Resolve(ConfigArgs(input["target"])) : target' = BranchOf(epoch)
    /\ pc' = "checkout"
    /\ UNCHANGED <<client, dir, evidenceBranch, evidenceConfig, origin, pushed>>

TargetStepFails ==
    /\ pc = "target"
    /\ Resolve(ConfigArgs(input["target"])) = {}
    /\ Fail

\* actions/checkout of the target's branch into the evidence directory, with
\* the other branches fetched too.
CheckoutEvidence ==
    /\ pc = "checkout"
    /\ target \in branches
    /\ dir' = target
    /\ pc' = "key"
    /\ UNCHANGED <<client, target, evidenceBranch, evidenceConfig, origin, pushed>>

CheckoutFails ==
    /\ pc = "checkout"
    /\ target \notin branches
    /\ Fail

\* mode: record.  The key first, before anything is resolved.
KeyIsSet ==
    /\ pc = "key"
    /\ secret # 0
    /\ pc' = "resolve"
    /\ UNCHANGED <<client, job>>

KeyIsMissing ==
    /\ pc = "key"
    /\ secret = 0
    /\ Fail

ResolveBranch ==
    /\ pc = "resolve"
    /\ \E epoch \in Resolve(ConfigArgs(input["record"])) :
           evidenceBranch' = BranchOf(epoch)
    /\ pc' = "export"
    /\ UNCHANGED <<client, dir, target, evidenceConfig, origin, pushed>>

ResolveFails ==
    /\ pc = "resolve"
    /\ Resolve(ConfigArgs(input["record"])) = {}
    /\ Fail

\* Mutant: without an input the variable stays as the workflow set it.
ExportConfig_KeepsAmbient ==
    /\ pc = "export"
    /\ evidenceConfig' = IF input["record"] = "" THEN evidenceConfig ELSE input["record"]
    /\ pc' = "script"
    /\ UNCHANGED <<client, dir, target, evidenceBranch, origin, pushed>>

\* EVIDENCE_CONFIG is exported when the input is set, unset otherwise.
ExportConfig ==
    /\ pc = "export"
    /\ evidenceConfig' = input["record"]
    /\ pc' = "script"
    /\ UNCHANGED <<client, dir, target, evidenceBranch, origin, pushed>>
-----------------------------------------------------------------------------
\* evidence-push.sh: fetch EVIDENCE_BRANCH and reset the directory to it.
FetchAndReset ==
    /\ pc = "script"
    /\ evidenceBranch \in branches
    /\ dir' = evidenceBranch
    /\ pc' = "fetched"
    /\ UNCHANGED <<client, target, evidenceBranch, evidenceConfig, origin, pushed>>

FetchFails ==
    /\ pc = "script"
    /\ evidenceBranch \notin branches
    /\ Fail

\* Mutant: the script passes --config "$EVIDENCE_CONFIG" in any case.
ScriptArgs_AlwaysFlag == Flag(evidenceConfig)

\* The flag the script gives to record.
ScriptArgs == ConfigArgs(evidenceConfig)

\* filelog.Open takes the log only under its own origin and key.
Opens(epoch) == OriginOf(epoch) = dir /\ OriginOf(epoch) = secret

RecordOpens ==
    /\ pc = "fetched"
    /\ \E epoch \in Resolve(ScriptArgs) :
           /\ Opens(epoch)
           /\ origin' = {OriginOf(epoch)}
    /\ pc' = "opened"
    /\ UNCHANGED <<client, dir, target, evidenceBranch, evidenceConfig, pushed>>

\* No usable config, or the log is another epoch's or another key's: record
\* exits with 2, and the script does not retry.
RecordRefuses ==
    /\ pc = "fetched"
    /\ \A epoch \in Resolve(ScriptArgs) : ~Opens(epoch)
    /\ origin' = {OriginOf(epoch) : epoch \in Resolve(ScriptArgs)}
    /\ pc' = "exit1"
    /\ UNCHANGED <<client, dir, target, evidenceBranch, evidenceConfig, pushed>>

\* The entry is appended, committed and pushed to EVIDENCE_BRANCH.
Push ==
    /\ pc = "opened"
    /\ pushed' = pushed \cup {evidenceBranch}
    /\ pc' = "exit0"
    /\ UNCHANGED <<client, dir, target, evidenceBranch, evidenceConfig, origin>>

Next ==
    \/ TargetStep \/ TargetStepFails
    \/ CheckoutEvidence \/ CheckoutFails
    \/ KeyIsSet \/ KeyIsMissing
    \/ ResolveBranch \/ ResolveFails
    \/ ExportConfig
    \/ FetchAndReset \/ FetchFails
    \/ RecordOpens \/ RecordRefuses
    \/ Push

Spec == Init /\ [][Next]_vars
-----------------------------------------------------------------------------
(***************************************************************************)
(* What the client said, independently of how it is passed on: the step's   *)
(* input names a file that holds the epoch, or names none and the default   *)
(* file holds it, or there is no default file and the epoch is 1.           *)
(***************************************************************************)
Holds(path, epoch) == path \in DOMAIN files /\ files[path] = epoch

Says(step, epoch) ==
    /\ epoch \in Epoch
    /\ \/ Holds(input[step], epoch)
       \/ input[step] = "" /\ Holds(DefaultConfigPath, epoch)
       \/ input[step] = "" /\ DefaultConfigPath \notin DOMAIN files /\ epoch = 1

\* The branch the action exported and the origin record derived in a process
\* of its own are of one epoch, whatever EVIDENCE_CONFIG the workflow sets
\* and whatever the target step was given (action.yml 197-204).
BranchAndOriginAgree == origin \subseteq {evidenceBranch}

\* An entry only ever reaches the branch of the epoch the client's config
\* says; a named config that does not exist never selects epoch 1 (the
\* comments of LoadConfig and of the action's config input).
RecordsWhereConfigSays == \A epoch \in pushed : Says("record", epoch)

\* A job fails only for a reason the client can see in its own repository: a
\* step's config that says nothing, an epoch without a branch, or a key that
\* is not the epoch's.  Two steps that name different epochs are no reason:
\* the script leaves the checked-out branch for the one it was given.
FailureHasCause ==
    pc = "exit1" =>
        \/ \E step \in Step : \A epoch \in Epoch : ~Says(step, epoch)
        \/ \E step \in Step, epoch \in Epoch :
               Says(step, epoch) /\ epoch \notin branches
        \/ ~Says("record", secret)
=============================================================================
