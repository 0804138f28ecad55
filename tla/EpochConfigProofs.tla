-------------------------- MODULE EpochConfigProofs -------------------------
(***************************************************************************)
(* EpochConfig for any set of paths and any number of epochs.               *)
(***************************************************************************)
EXTENDS EpochConfig, TLAPS

\* The job's configuration was resolved, and where it stands since.
Resolved == {"export", "script", "fetched", "opened", "exit0"}
Exported == {"script", "fetched", "opened", "exit0"}

\* The branch is what the config says from its resolution on.
BranchIsSaid == pc \in Resolved => Says("record", evidenceBranch)

\* The script's process has the path the branch was resolved from.
ConfigIsPassedOn == pc \in Exported => evidenceConfig = input["record"]

\* The checked-out branch is what the target step's config says, until the
\* script replaces it by its own.
TargetIsSaid == pc = "checkout" => Says("target", target)
DirIsBranch == pc = "fetched" => dir = evidenceBranch

IInv ==
    /\ TypeOK
    /\ BranchIsSaid
    /\ ConfigIsPassedOn
    /\ TargetIsSaid
    /\ DirIsBranch
    /\ BranchAndOriginAgree
    /\ pc \notin {"opened", "exit0", "exit1"} => origin = {}
    /\ RecordsWhereConfigSays
    /\ FailureHasCause

\* A file's content that is no refusal is an epoch.
LEMMA Epochs ==
    /\ 1 \in Epoch
    /\ Content \cap (Nat \ {0}) = Epoch
PROOF
  BY EpochAssumption DEF Epoch, Content

\* LoadConfig finds an epoch e at a path that is named or is the default.
LEMMA LoadConfigFinds ==
    ASSUME NEW path, TypeOK, NEW e \in LoadConfig(path)
    PROVE  /\ e \in Epoch
           /\ \/ Holds(path, e)
              \/ path = "" /\ Holds(DefaultConfigPath, e)
              \/ path = "" /\ DefaultConfigPath \notin DOMAIN files /\ e = 1
PROOF
  <1>1. CASE path = ""
    <2>1. CASE DefaultConfigPath \in DOMAIN files
      <3>1. LoadConfig(path) = {files[DefaultConfigPath]} \cap (Nat \ {0})
        BY <1>1, <2>1 DEF LoadConfig
      <3>2. e = files[DefaultConfigPath] /\ e \in Nat \ {0}
        BY <3>1
      <3>3. e \in Content
        BY <2>1, <3>2 DEF TypeOK
      <3>4. e \in Epoch
        BY <3>2, <3>3, Epochs
      <3>5. Holds(DefaultConfigPath, e)
        BY <2>1, <3>2 DEF Holds
      <3> QED BY <1>1, <3>4, <3>5
    <2>2. CASE DefaultConfigPath \notin DOMAIN files
      <3>1. LoadConfig(path) = {1}
        BY <1>1, <2>2 DEF LoadConfig
      <3>2. e = 1
        BY <3>1
      <3> QED BY <1>1, <2>2, <3>2, Epochs
    <2> QED BY <2>1, <2>2
  <1>2. CASE path # ""
    <2>1. path \in DOMAIN files /\ LoadConfig(path) = {files[path]} \cap (Nat \ {0})
      BY <1>2 DEF LoadConfig
    <2>2. e = files[path] /\ e \in Nat \ {0}
      BY <2>1
    <2>3. e \in Content
      BY <2>1, <2>2 DEF TypeOK
    <2>4. e \in Epoch
      BY <2>2, <2>3, Epochs
    <2>5. Holds(path, e)
      BY <2>1, <2>2 DEF Holds
    <2> QED BY <2>4, <2>5
  <1> QED BY <1>1, <1>2

\* ... and every epoch that is found there.
LEMMA LoadConfigMisses ==
    ASSUME NEW path, NEW e \in Epoch,
           \/ path # "" /\ Holds(path, e)
           \/ path = "" /\ Holds(DefaultConfigPath, e)
           \/ path = "" /\ DefaultConfigPath \notin DOMAIN files /\ e = 1
    PROVE  e \in LoadConfig(path)
PROOF
  <1>1. e \in Nat \ {0}
    BY Epochs
  <1>2. CASE path # ""
    <2>1. path \in DOMAIN files /\ files[path] = e
      BY <1>2 DEF Holds
    <2>2. LoadConfig(path) = {files[path]} \cap (Nat \ {0})
      BY <1>2, <2>1 DEF LoadConfig
    <2> QED BY <1>1, <2>1, <2>2
  <1>3. CASE path = "" /\ DefaultConfigPath \in DOMAIN files
    <2>1. files[DefaultConfigPath] = e
      BY <1>3 DEF Holds
    <2>2. LoadConfig(path) = {files[DefaultConfigPath]} \cap (Nat \ {0})
      BY <1>3 DEF LoadConfig
    <2> QED BY <1>1, <2>1, <2>2
  <1>4. CASE path = "" /\ DefaultConfigPath \notin DOMAIN files
    <2>1. e = 1
      BY <1>4 DEF Holds
    <2>2. LoadConfig(path) = {1}
      BY <1>4 DEF LoadConfig
    <2> QED BY <2>1, <2>2
  <1> QED BY <1>2, <1>3, <1>4

\* The flag of a path and the flag left out both lead LoadConfig to the path.
LEMMA ArgsResolve ==
    ASSUME NEW path
    PROVE  Resolve(ConfigArgs(path)) = LoadConfig(path)
PROOF
  <1>1. CASE path = ""
    <2>1. ConfigArgs(path) = <<>>
      BY <1>1 DEF ConfigArgs, NoFlag
    <2>2. <<>> # <<"">>
      OBVIOUS
    <2> QED BY <1>1, <2>1, <2>2 DEF Resolve, CheckConfigFlag, NoFlag, Flag
  <1>2. CASE path # ""
    <2>1. ConfigArgs(path) = <<path>>
      BY <1>2 DEF ConfigArgs, Flag
    <2>2. <<path>> # <<>> /\ <<path>>[1] = path
      OBVIOUS
    <2>3. <<path>> # <<"">>
      BY <1>2
    <2> QED BY <2>1, <2>2, <2>3 DEF Resolve, CheckConfigFlag, NoFlag, Flag
  <1> QED BY <1>1, <1>2

\* What a step resolves is exactly what its client says.
LEMMA ResolveIsSays ==
    ASSUME TypeOK, NEW step \in Step
    PROVE  \A e : e \in Resolve(ConfigArgs(input[step])) <=> Says(step, e)
PROOF
  <1>1. \A e \in LoadConfig(input[step]) : Says(step, e)
    BY LoadConfigFinds DEF Says
  <1>2. ASSUME NEW e, Says(step, e)
        PROVE  e \in LoadConfig(input[step])
    <2>1. e \in Epoch /\ ("" \notin DOMAIN files)
      BY <1>2, PathsAssumption DEF Says, TypeOK
    <2>2. Holds(input[step], e) => input[step] # ""
      BY <2>1 DEF Holds
    <2> QED BY <1>2, <2>1, <2>2, LoadConfigMisses DEF Says
  <1> QED BY <1>1, <1>2, ArgsResolve

\* Of an epoch a client says, branch and origin carry the number.
LEMMA SaidIsTarget ==
    ASSUME NEW step, NEW e, Says(step, e)
    PROVE  e \in Epoch /\ BranchOf(e) = e /\ OriginOf(e) = e
PROOF
  <1>1. e \in Epoch
    BY DEF Says
  <1> QED BY <1>1 DEF BranchOf, OriginOf, Epoch
\* A client says one epoch at most.
LEMMA SaysIsUnique ==
    ASSUME TypeOK, NEW step \in Step, NEW d, NEW e, Says(step, d), Says(step, e)
    PROVE  d = e
PROOF
  <1>1. "" \notin DOMAIN files
    BY PathsAssumption DEF TypeOK
  <1>2. CASE input[step] # ""
    <2>1. Holds(input[step], d) /\ Holds(input[step], e)
      BY <1>2 DEF Says
    <2> QED BY <2>1 DEF Holds
  <1>3. CASE input[step] = "" /\ DefaultConfigPath \in DOMAIN files
    <2>1. Holds(DefaultConfigPath, d) /\ Holds(DefaultConfigPath, e)
      BY <1>1, <1>3 DEF Says, Holds
    <2> QED BY <2>1 DEF Holds
  <1>4. CASE input[step] = "" /\ DefaultConfigPath \notin DOMAIN files
    <2>1. ~Holds(input[step], d) /\ ~Holds(input[step], e)
      BY <1>1, <1>4 DEF Holds
    <2>2. ~Holds(DefaultConfigPath, d) /\ ~Holds(DefaultConfigPath, e)
      BY <1>4 DEF Holds
    <2>3. d = 1 /\ e = 1
      BY <2>1, <2>2 DEF Says
    <2> QED BY <2>3
  <1> QED BY <1>2, <1>3, <1>4

-----------------------------------------------------------------------------
\* What the client made is not touched, so what it says stays said.
LEMMA SaysIsStable ==
    ASSUME UNCHANGED client
    PROVE  \A step, e : Says(step, e)' <=> Says(step, e)
PROOF
  BY DEF client, Says, Holds

\* The initial states satisfy the invariant.
LEMMA InitEstablishes == Init => IInv
PROOF
  <1> SUFFICES ASSUME Init PROVE IInv
    OBVIOUS
  <1>1. TypeOK
    BY DEF Init, TypeOK
  <1>2. BranchIsSaid /\ ConfigIsPassedOn /\ TargetIsSaid /\ DirIsBranch
    BY DEF Init, BranchIsSaid, ConfigIsPassedOn, TargetIsSaid, DirIsBranch,
           Resolved, Exported
  <1>3. BranchAndOriginAgree /\ RecordsWhereConfigSays /\ FailureHasCause /\ origin = {}
    BY DEF Init, BranchAndOriginAgree, RecordsWhereConfigSays, FailureHasCause
  <1> QED BY <1>1, <1>2, <1>3 DEF IInv

\* Why a job may fail, as FailureHasCause lists it.
Cause ==
    \/ \E step \in Step : \A epoch \in Epoch : ~Says(step, epoch)
    \/ \E step \in Step, epoch \in Epoch :
           Says(step, epoch) /\ epoch \notin branches
    \/ ~Says("record", secret)

\* Giving up for a cause preserves the invariant.
LEMMA FailPreserves ==
    ASSUME IInv, Fail, Cause
    PROVE  IInv'
PROOF
  <1>1. TypeOK'
    BY DEF IInv, Fail, TypeOK, client, job
  <1>2. (BranchIsSaid /\ ConfigIsPassedOn /\ TargetIsSaid /\ DirIsBranch)'
    BY DEF Fail, BranchIsSaid, ConfigIsPassedOn, TargetIsSaid, DirIsBranch,
           Resolved, Exported
  <1>3. (BranchAndOriginAgree /\ RecordsWhereConfigSays)'
    BY SaysIsStable DEF IInv, Fail, BranchAndOriginAgree, RecordsWhereConfigSays, job
  <1>4. FailureHasCause'
    BY SaysIsStable DEF Fail, Cause, FailureHasCause, client
  <1> QED BY <1>1, <1>2, <1>3, <1>4 DEF IInv, Fail

\* A step whose config resolves to nothing has a client who said nothing.
LEMMA NothingSaid ==
    ASSUME TypeOK, NEW step \in Step, Resolve(ConfigArgs(input[step])) = {}
    PROVE  Cause
PROOF
  BY ResolveIsSays DEF Cause

\* What record resolves is the branch's epoch: it reads the same config.
LEMMA RecordResolves ==
    ASSUME IInv, pc = "fetched"
    PROVE  Says("record", evidenceBranch) /\ Resolve(ScriptArgs) = {evidenceBranch}
PROOF
  <1>1. Says("record", evidenceBranch)
    BY DEF IInv, BranchIsSaid, Resolved
  <1>2. ScriptArgs = ConfigArgs(input["record"])
    BY DEF IInv, ConfigIsPassedOn, Exported, ScriptArgs
  <1>3. \A e : e \in Resolve(ScriptArgs) <=> Says("record", e)
    BY <1>2, ResolveIsSays DEF IInv, Step
  <1> QED BY <1>1, <1>3, SaysIsUnique DEF IInv, Step

\* Every step of the job preserves the invariant.
LEMMA NextPreserves == IInv /\ [Next]_vars => IInv'
PROOF
  <1> SUFFICES ASSUME IInv, [Next]_vars PROVE IInv'
    OBVIOUS
  <1> USE DEF IInv
  <1>1. CASE TargetStep
    <2>1. UNCHANGED client
      BY <1>1 DEF TargetStep
    <2>2. Says("target", target') /\ target' \in Epoch
      BY <1>1, ResolveIsSays, SaidIsTarget DEF TargetStep, Step
    <2>3. TypeOK'
      BY <1>1, <2>2 DEF TargetStep, TypeOK, client
    <2>4. (BranchIsSaid /\ ConfigIsPassedOn /\ TargetIsSaid /\ DirIsBranch)'
      BY <1>1, <2>1, SaysIsStable, <2>2
         DEF TargetStep, BranchIsSaid, ConfigIsPassedOn, TargetIsSaid, DirIsBranch,
             Resolved, Exported, client
    <2>5. (BranchAndOriginAgree /\ RecordsWhereConfigSays /\ FailureHasCause)'
      BY <1>1, <2>1, SaysIsStable
         DEF TargetStep, BranchAndOriginAgree, RecordsWhereConfigSays, FailureHasCause
    <2> QED BY <1>1, <2>3, <2>4, <2>5 DEF TargetStep
  <1>2. CASE TargetStepFails
    BY <1>2, NothingSaid, FailPreserves DEF TargetStepFails, Step
  <1>3. CASE CheckoutEvidence
    <2>1. UNCHANGED client
      BY <1>3 DEF CheckoutEvidence
    <2>3. TypeOK'
      BY <1>3 DEF CheckoutEvidence, TypeOK, client
    <2>4. (BranchIsSaid /\ ConfigIsPassedOn /\ TargetIsSaid /\ DirIsBranch)'
      BY <1>3, <2>1, SaysIsStable
         DEF CheckoutEvidence, BranchIsSaid, ConfigIsPassedOn, TargetIsSaid, DirIsBranch,
             Resolved, Exported, client
    <2>5. (BranchAndOriginAgree /\ RecordsWhereConfigSays /\ FailureHasCause)'
      BY <1>3, <2>1, SaysIsStable
         DEF CheckoutEvidence, BranchAndOriginAgree, RecordsWhereConfigSays, FailureHasCause
    <2> QED BY <1>3, <2>3, <2>4, <2>5 DEF CheckoutEvidence
  <1>4. CASE CheckoutFails
    <2>1. Says("target", target) /\ target \in Epoch
      BY <1>4, SaidIsTarget DEF CheckoutFails, TargetIsSaid
    <2> QED BY <1>4, <2>1, FailPreserves DEF CheckoutFails, Cause, Step
  <1>5. CASE KeyIsSet
    <2>1. UNCHANGED client
      BY <1>5 DEF KeyIsSet, job
    <2>3. TypeOK'
      BY <1>5 DEF KeyIsSet, TypeOK, client, job
    <2>4. (BranchIsSaid /\ ConfigIsPassedOn /\ TargetIsSaid /\ DirIsBranch)'
      BY <1>5, <2>1, SaysIsStable
         DEF KeyIsSet, BranchIsSaid, ConfigIsPassedOn, TargetIsSaid, DirIsBranch,
             Resolved, Exported, client, job
    <2>5. (BranchAndOriginAgree /\ RecordsWhereConfigSays /\ FailureHasCause)'
      BY <1>5, <2>1, SaysIsStable
         DEF KeyIsSet, BranchAndOriginAgree, RecordsWhereConfigSays, FailureHasCause, job
    <2> QED BY <1>5, <2>3, <2>4, <2>5 DEF KeyIsSet, job
  <1>6. CASE KeyIsMissing
    <2>1. ~Says("record", secret)
      BY <1>6, EpochAssumption DEF KeyIsMissing, Says, Epoch
    <2> QED BY <1>6, <2>1, FailPreserves DEF KeyIsMissing, Cause
  <1>7. CASE ResolveBranch
    <2>1. UNCHANGED client
      BY <1>7 DEF ResolveBranch
    <2>2. Says("record", evidenceBranch') /\ evidenceBranch' \in Epoch
      BY <1>7, ResolveIsSays, SaidIsTarget DEF ResolveBranch, Step
    <2>3. TypeOK'
      BY <1>7, <2>2 DEF ResolveBranch, TypeOK, client
    <2>4. (BranchIsSaid /\ ConfigIsPassedOn /\ TargetIsSaid /\ DirIsBranch)'
      BY <1>7, <2>1, SaysIsStable, <2>2
         DEF ResolveBranch, BranchIsSaid, ConfigIsPassedOn, TargetIsSaid, DirIsBranch,
             Resolved, Exported, client
    <2>5. (BranchAndOriginAgree /\ RecordsWhereConfigSays /\ FailureHasCause)'
      BY <1>7, <2>1, SaysIsStable
         DEF ResolveBranch, BranchAndOriginAgree, RecordsWhereConfigSays, FailureHasCause
    <2> QED BY <1>7, <2>3, <2>4, <2>5 DEF ResolveBranch
  <1>8. CASE ResolveFails
    BY <1>8, NothingSaid, FailPreserves DEF ResolveFails, Step
  <1>9. CASE ExportConfig
    <2>1. UNCHANGED client
      BY <1>9 DEF ExportConfig
    <2>3. TypeOK'
      BY <1>9 DEF ExportConfig, TypeOK, client, Step
    <2>4. (BranchIsSaid /\ ConfigIsPassedOn /\ TargetIsSaid /\ DirIsBranch)'
      BY <1>9, <2>1, SaysIsStable
         DEF ExportConfig, BranchIsSaid, ConfigIsPassedOn, TargetIsSaid, DirIsBranch,
             Resolved, Exported, client
    <2>5. (BranchAndOriginAgree /\ RecordsWhereConfigSays /\ FailureHasCause)'
      BY <1>9, <2>1, SaysIsStable
         DEF ExportConfig, BranchAndOriginAgree, RecordsWhereConfigSays, FailureHasCause
    <2> QED BY <1>9, <2>3, <2>4, <2>5 DEF ExportConfig
  <1>10. CASE FetchAndReset
    <2>1. UNCHANGED client
      BY <1>10 DEF FetchAndReset
    <2>3. TypeOK'
      BY <1>10 DEF FetchAndReset, TypeOK, client
    <2>4. (BranchIsSaid /\ ConfigIsPassedOn /\ TargetIsSaid /\ DirIsBranch)'
      BY <1>10, <2>1, SaysIsStable
         DEF FetchAndReset, BranchIsSaid, ConfigIsPassedOn, TargetIsSaid, DirIsBranch,
             Resolved, Exported, client
    <2>5. (BranchAndOriginAgree /\ RecordsWhereConfigSays /\ FailureHasCause)'
      BY <1>10, <2>1, SaysIsStable
         DEF FetchAndReset, BranchAndOriginAgree, RecordsWhereConfigSays, FailureHasCause
    <2> QED BY <1>10, <2>3, <2>4, <2>5 DEF FetchAndReset
  <1>11. CASE FetchFails
    <2>1. Says("record", evidenceBranch) /\ evidenceBranch \in Epoch
      BY <1>11, SaidIsTarget DEF FetchFails, BranchIsSaid, Resolved
    <2> QED BY <1>11, <2>1, FailPreserves DEF FetchFails, Cause, Step
  <1>12. CASE RecordOpens
    <2>1. UNCHANGED client
      BY <1>12 DEF RecordOpens
    <2>2. evidenceBranch \in Epoch /\ origin' = {evidenceBranch}
      BY <1>12, RecordResolves, SaidIsTarget DEF RecordOpens
    <2>3. TypeOK'
      BY <1>12, <2>2 DEF RecordOpens, TypeOK, client
    <2>4. (BranchIsSaid /\ ConfigIsPassedOn /\ TargetIsSaid /\ DirIsBranch)'
      BY <1>12, <2>1, SaysIsStable
         DEF RecordOpens, BranchIsSaid, ConfigIsPassedOn, TargetIsSaid, DirIsBranch,
             Resolved, Exported, client
    <2>5. (BranchAndOriginAgree /\ RecordsWhereConfigSays /\ FailureHasCause)'
      BY <1>12, <2>1, <2>2, SaysIsStable
         DEF RecordOpens, BranchAndOriginAgree, RecordsWhereConfigSays, FailureHasCause
    <2> QED BY <1>12, <2>3, <2>4, <2>5 DEF RecordOpens
  <1>13. CASE RecordRefuses
    <2>1. UNCHANGED client
      BY <1>13 DEF RecordRefuses
    <2>2. evidenceBranch \in Epoch /\ origin' = {evidenceBranch}
      BY <1>13, RecordResolves, SaidIsTarget DEF RecordRefuses
    <2>3. TypeOK'
      BY <1>13, <2>2 DEF RecordRefuses, TypeOK, client
    <2>4. (BranchIsSaid /\ ConfigIsPassedOn /\ TargetIsSaid /\ DirIsBranch)'
      BY <1>13, <2>1, SaysIsStable
         DEF RecordRefuses, BranchIsSaid, ConfigIsPassedOn, TargetIsSaid, DirIsBranch,
             Resolved, Exported, client
    <2>5. (BranchAndOriginAgree /\ RecordsWhereConfigSays)'
      BY <1>13, <2>1, <2>2, SaysIsStable
         DEF RecordRefuses, BranchAndOriginAgree, RecordsWhereConfigSays
    <2>6. ~Says("record", secret)
      <3> SUFFICES ASSUME Says("record", secret) PROVE FALSE
        OBVIOUS
      <3>1. secret = evidenceBranch
        BY <1>13, RecordResolves, SaysIsUnique DEF RecordRefuses, Step
      <3>2. Opens(evidenceBranch)
        BY <1>13, <3>1, RecordResolves, SaidIsTarget
           DEF RecordRefuses, Opens, DirIsBranch
      <3> QED BY <1>13, <3>2, RecordResolves DEF RecordRefuses
    <2>7. FailureHasCause'
      BY <2>1, <2>6, SaysIsStable DEF FailureHasCause, client
    <2> QED BY <1>13, <2>3, <2>4, <2>5, <2>7 DEF RecordRefuses
  <1>14. CASE Push
    <2>1. UNCHANGED client
      BY <1>14 DEF Push
    <2>2. Says("record", evidenceBranch) /\ evidenceBranch \in Epoch
      BY <1>14, SaidIsTarget DEF Push, BranchIsSaid, Resolved
    <2>3. TypeOK'
      BY <1>14, <2>2 DEF Push, TypeOK, client
    <2>4. (BranchIsSaid /\ ConfigIsPassedOn /\ TargetIsSaid /\ DirIsBranch)'
      BY <1>14, <2>1, SaysIsStable
         DEF Push, BranchIsSaid, ConfigIsPassedOn, TargetIsSaid, DirIsBranch,
             Resolved, Exported, client
    <2>5. (BranchAndOriginAgree /\ RecordsWhereConfigSays /\ FailureHasCause)'
      BY <1>14, <2>1, <2>2, SaysIsStable
         DEF Push, BranchAndOriginAgree, RecordsWhereConfigSays, FailureHasCause
    <2> QED BY <1>14, <2>3, <2>4, <2>5 DEF Push
  <1>15. CASE UNCHANGED vars
    <2>1. UNCHANGED client /\ UNCHANGED job /\ pc' = pc
      BY <1>15 DEF vars
    <2>2. TypeOK'
      BY <2>1 DEF TypeOK, client, job
    <2>3. (BranchIsSaid /\ ConfigIsPassedOn /\ TargetIsSaid /\ DirIsBranch)'
      BY <2>1, SaysIsStable
         DEF BranchIsSaid, ConfigIsPassedOn, TargetIsSaid, DirIsBranch, client, job
    <2>4. (BranchAndOriginAgree /\ RecordsWhereConfigSays)'
      BY <2>1, SaysIsStable DEF BranchAndOriginAgree, RecordsWhereConfigSays, job
    <2>5. FailureHasCause'
      BY <2>1, SaysIsStable DEF FailureHasCause, client
    <2> QED BY <2>1, <2>2, <2>3, <2>4, <2>5 DEF job
  <1> QED
    BY <1>1, <1>2, <1>3, <1>4, <1>5, <1>6, <1>7, <1>8, <1>9, <1>10, <1>11,
       <1>12, <1>13, <1>14, <1>15 DEF Next

\* The job's invariant holds in every state.
THEOREM Invariance == Spec => []IInv
PROOF
  BY InitEstablishes, NextPreserves, PTL DEF Spec

\* Type correctness for any number of paths and epochs.
THEOREM TypeCorrect == Spec => []TypeOK
PROOF
  <1>1. IInv => TypeOK
    BY DEF IInv
  <1> QED BY <1>1, Invariance, PTL

\* The branch exported by the action and the origin derived by record are of
\* one epoch, for any environment, any config paths and any number of epochs.
THEOREM BranchAndOriginAgreeHolds == Spec => []BranchAndOriginAgree
PROOF
  <1>1. IInv => BranchAndOriginAgree
    BY DEF IInv
  <1> QED BY <1>1, Invariance, PTL

\* An entry only reaches the branch of the epoch the client's config says; a
\* config that is named and missing never selects epoch 1.
THEOREM RecordsWhereConfigSaysHolds == Spec => []RecordsWhereConfigSays
PROOF
  <1>1. IInv => RecordsWhereConfigSays
    BY DEF IInv
  <1> QED BY <1>1, Invariance, PTL

\* A job fails only for a reason the client can see in its own repository.
THEOREM FailureHasCauseHolds == Spec => []FailureHasCause
PROOF
  <1>1. IInv => FailureHasCause
    BY DEF IInv
  <1> QED BY <1>1, Invariance, PTL
=============================================================================
