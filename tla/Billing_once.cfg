SPECIFICATION Spec
CONSTANTS
    t1 = t1
    pay1 = pay1
    pay2 = pay2
    anonymous = anonymous
    invoice = invoice
    Tenants = {t1}
    Events = {pay1, invoice}
    TenantOf <- MCTenantOf
    TypeOf <- MCTypeOf
    NoTenant = NoTenant
    NoRow = NoRow
    Period = 2
    MaxTime = 1
    MaxDeliveries = 2
    MaxFaults = 1
\* The system may stop: every delivery is over and the clock is at its bound.
CHECK_DEADLOCK FALSE
INVARIANT EventAppliedOnce
