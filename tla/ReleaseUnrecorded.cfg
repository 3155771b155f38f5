\* Is every deployment on record as long as nothing crashes?
SPECIFICATION Spec
CONSTANTS
    alice = alice
    bob = bob
    carol = carol
    p1 = p1
    p2 = p2
    b1 = b1
    b2 = b2
    c1 = c1
    c2 = c2
    c3 = c3
    Authors = {alice}
    Approvers = {}
    Deployers = {ci}
    Policies = {p1, p2}
    Pins = {1}
    Baselines = {b1}
    Configs = {c1, c2, c3}
    Keys = {}
    NoFile = NoFile
    Partial = Partial
    NoBaseline = NoBaseline
    NoKey = NoKey
    Unsigned = Unsigned
    Render <- MCRender
    Passes <- MCPasses
    Required <- NoApproval
    Signs <- NeverSigned
    PlanOptions = {TRUE}
    Shells <- ToFileAndRun
    MaxDay = 1
    MaxEdits = 0
    MaxEvents = 3
INVARIANTS
    EveryDeploymentIsRecorded
CHECK_DEADLOCK FALSE
