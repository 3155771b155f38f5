\* Two reviewers, a plan that needs both, and crashes anywhere.
\* Nothing more happens once the log has MaxEvents events: no deadlock check.
SPECIFICATION Spec
CONSTANTS
    alice = alice
    bob = bob
    carol = carol
    p1 = p1
    p2 = p2
    b1 = b1
    b2 = b2
    c1 = c1
    c2 = c2
    c3 = c3
    Authors = {alice}
    Approvers = {alice, bob, carol}
    Deployers = {ci}
    Policies = {p1}
    Pins = {1}
    Baselines = {b1, b2}
    Configs = {c1}
    Keys = {k1}
    NoFile = NoFile
    Partial = Partial
    NoBaseline = NoBaseline
    NoKey = NoKey
    Unsigned = Unsigned
    Render <- MCRender
    Passes <- MCPasses
    Required <- TwoOrOne
    Signs <- SignedUnderB1
    PlanOptions = {TRUE}
    Shells <- ToFile
    MaxDay = 1
    MaxEdits = 1
    MaxEvents = 4
CONSTRAINTS
    BeforeDeployment
    TwoPlans
SYMMETRY ReviewerSymmetry
INVARIANTS
    CommittedHasQuorum
    PlanFileIsOnRecord
CHECK_DEADLOCK FALSE
