SPECIFICATION FairSpec
CONSTANTS
    r1 = r1
    r2 = r2
    r3 = r3
    Runs = {r1, r2, r3}
    MaxRunAttempts = 1
    MaxAttempts = 3
    Faults = {}
    OrphanReaction = {"refuse", "overwrite"}
INVARIANT BurstWithinBudget
PROPERTY EventuallyRecorded
