SPECIFICATION Spec
CONSTANTS
    p1 = p1
    p2 = p2
    w1 = w1
    w2 = w2
    Poison = Poison
    Kept = Kept
    NoConsumer = NoConsumer
    Pushes = {p1}
    Workers = {w1}
    Leaks = 1
    Faults = {"network"}
    MaxFaults = 1
    MaxDeliveries = 2
    MaxTasks = 2
\* The system may stop: no push is left and every task is acknowledged.
CHECK_DEADLOCK FALSE
INVARIANT OnlyDeterministicFailuresDropped
