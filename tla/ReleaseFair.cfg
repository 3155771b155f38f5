\* Two deploys at a time, each taking its next step unless it crashes.
\* Nothing more happens once the log has MaxEvents events: no deadlock check.
SPECIFICATION FairSpec
CONSTANTS
    alice = alice
    bob = bob
    carol = carol
    p1 = p1
    p2 = p2
    b1 = b1
    b2 = b2
    c1 = c1
    c2 = c2
    c3 = c3
    Authors = {alice}
    Approvers = {}
    Deployers = {ci, cd}
    Policies = {p1}
    Pins = {1}
    Baselines = {b1}
    Configs = {c1}
    Keys = {}
    NoFile = NoFile
    Partial = Partial
    NoBaseline = NoBaseline
    NoKey = NoKey
    Unsigned = Unsigned
    Render <- MCRender
    Passes <- MCPasses
    Required <- NoApproval
    Signs <- NeverSigned
    PlanOptions = {TRUE, FALSE}
    Shells <- ToFileAndRun
    MaxDay = 1
    MaxEdits = 0
    MaxEvents = 2
PROPERTIES
    PublishedIsRecorded
CHECK_DEADLOCK FALSE
