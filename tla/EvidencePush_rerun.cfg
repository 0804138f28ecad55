SPECIFICATION Spec
CONSTANTS
    r1 = r1
    r2 = r2
    r3 = r3
    Runs = {r1, r2}
    MaxRunAttempts = 2
    MaxAttempts = 2
    Faults = {"push"}
    OrphanReaction = {"refuse", "overwrite"}
INVARIANT OneEntryPerRun
