SPECIFICATION Spec
CONSTANTS
    Files = {1, 2}
    RuleIDs = {1, 2}
    Fingerprints = {1, 2}
    MaxFindings = 4
    NoResult = NoResult
\* The system may stop: a workflow run ends.
CHECK_DEADLOCK FALSE
INVARIANTS
    TypeOK
    ResultIsCanonical
    VerdictIsTheScans
