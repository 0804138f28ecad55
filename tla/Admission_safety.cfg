SPECIFICATION Spec
CONSTANTS
    t1 = t1
    pay1 = pay1
    p1 = p1
    p2 = p2
    h1 = h1
    h2 = h2
    NoTenant = NoTenant
    NoRow = NoRow
    Pushes = {p1, p2}
    Hooks = {h1, h2}
    PushOf <- MCPushOf
    SenderOf <- MCSenderOf
    Tenants = {t1}
    Events = {pay1}
    TenantOf <- MCTenantOf
    TypeOf <- MCTypeOf
    Period = 1
    MaxTime = 2
    MaxDeliveries = 1
    MaxFaults = 1
\* The system may stop: every request is answered and every task is retired.
CHECK_DEADLOCK FALSE
INVARIANTS
    TypeOK
    TaskWasAdmitted
    AcceptedIsCovered
PROPERTY PaidIsNotRefused
