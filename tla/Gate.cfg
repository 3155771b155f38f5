\* Every verdict on four days in a row.  A check that refused its input, or
\* the check of the last day, ends: no deadlock check.
SPECIFICATION Spec
CONSTANTS
    Unset = Unset
    NoBaseline = NoBaseline
    NoEnvironment = NoEnvironment
    Unlimited = Unlimited
    NoRequest = NoRequest
    Policies <- MCPolicies
    Baselines <- MCBaselines
    Options <- MCOptions
    Requests <- MCRequests
    MaxDay = 4
INVARIANTS
    TypeOK
    BlocksAsDocumented
    OrganisationControlsSurvive
    PassingDaysAreConsecutive
    UnusedIsUnneeded
CHECK_DEADLOCK FALSE
