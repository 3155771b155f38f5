\* One reviewer; the policy, the baseline, the lock file and the plan file
\* change under the commands, and an exception expires.
\* Nothing more happens once the log has MaxEvents events: no deadlock check.
SPECIFICATION Spec
CONSTANTS
    alice = alice
    bob = bob
    carol = carol
    p1 = p1
    p2 = p2
    b1 = b1
    b2 = b2
    c1 = c1
    c2 = c2
    c3 = c3
    Authors = {alice}
    Approvers = {alice, bob}
    Deployers = {ci}
    Policies = {p1, p2}
    Pins = {1, 2}
    Baselines = {b1, b2}
    Configs = {c1, c2, c3}
    Keys = {}
    NoFile = NoFile
    Partial = Partial
    NoBaseline = NoBaseline
    NoKey = NoKey
    Unsigned = Unsigned
    Render <- MCRender
    Passes <- MCPasses
    Required <- One
    Signs <- NeverSigned
    PlanOptions = {TRUE}
    Shells <- ToFile
    MaxDay = 2
    MaxEdits = 1
    MaxEvents = 3
INVARIANTS
    TypeOK
    DeploymentsAreJustified
    DestinationWasReviewed
    CommittedPassedTheGate
CHECK_DEADLOCK FALSE
