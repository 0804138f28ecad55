SPECIFICATION Spec
CONSTANTS
    r1 = r1
    r2 = r2
    Runs = {r1, r2}
    MaxEpoch = 3
    MaxRunAttempts <- MCMaxRunAttempts
    Kinds = {"planned", "unplanned"}
\* The system may stop: every run is over and every rotation is done.
CHECK_DEADLOCK FALSE
INVARIANTS
    TypeOK
    ExitZeroMeansRecorded
    OneKeyPerEpoch
    OneEpochPerRun
PROPERTIES
    ImplementsChain
    DrainedIsClosed
