SPECIFICATION FairSpec
CONSTANTS
    p1 = p1
    p2 = p2
    w1 = w1
    w2 = w2
    Poison = Poison
    Kept = Kept
    NoConsumer = NoConsumer
    Pushes = {p1}
    Workers = {w1, w2}
    Leaks = 2
    Faults = {"publish", "mkdir", "gone", "network", "engine", "report", "db", "github", "ack", "slow", "crash", "stop"}
    MaxFaults = 2
    MaxDeliveries = 3
    MaxTasks = 2
\* The system may stop: no push is left and every task is acknowledged.
CHECK_DEADLOCK FALSE
INVARIANTS
    TypeOK
    ReportIsComplete
    RepeatsArePaid
PROPERTIES
    ImplementsQueue
    EventuallyAcked
