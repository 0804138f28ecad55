SPECIFICATION FairSpec
CONSTANTS
    r1 = r1
    r2 = r2
    r3 = r3
    Runs = {r1, r2}
    MaxRunAttempts = 1
    MaxAttempts = 3
    Faults = {"setup", "fetch", "reset", "record", "add", "commit", "push", "cancel"}
    OrphanReaction = {"refuse", "overwrite"}
INVARIANTS
    TypeOK
    AtMostOnce
    ExitZeroMeansRecorded
    PublishedCheckpointHolds
PROPERTIES
    ImplementsLog
    EveryJobEnds
