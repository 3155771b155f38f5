\* Every way to run deploy, with commands that fail or do not start, crashes
\* and edits of the policy.
\* Nothing more happens once the log has MaxEvents events: no deadlock check.
SPECIFICATION Spec
CONSTANTS
    alice = alice
    bob = bob
    carol = carol
    p1 = p1
    p2 = p2
    b1 = b1
    b2 = b2
    c1 = c1
    c2 = c2
    c3 = c3
    Authors = {alice}
    Approvers = {}
    Deployers = {ci}
    Policies = {p1, p2}
    Pins = {1}
    Baselines = {b1}
    Configs = {c1, c2, c3}
    Keys = {}
    NoFile = NoFile
    Partial = Partial
    NoBaseline = NoBaseline
    NoKey = NoKey
    Unsigned = Unsigned
    Render <- MCRender
    Passes <- MCPasses
    Required <- NoApproval
    Signs <- NeverSigned
    PlanOptions = {TRUE}
    Shells <- AnyOutlet
    MaxDay = 1
    MaxEdits = 1
    MaxEvents = 4
INVARIANTS
    DeploymentsAreAudited
    SnapshotIsLastDeploy
CHECK_DEADLOCK FALSE
