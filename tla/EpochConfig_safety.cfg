SPECIFICATION Spec
CONSTANTS
    DefaultConfigPath = ".gatekeeper/evidence.json"
    Paths = {".gatekeeper/evidence.json", "custom"}
    MaxEpoch = 2
\* A job ends.
CHECK_DEADLOCK FALSE
INVARIANTS
    TypeOK
    BranchAndOriginAgree
    RecordsWhereConfigSays
    FailureHasCause
