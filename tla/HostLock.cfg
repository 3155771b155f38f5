\* Compiles of every kind, overlapping and crashing, under a DNS that changes.
SPECIFICATION Spec
CONSTANTS
    Compiles = {c1, c2}
    Hosts = {1, 2}
    NameSets = {{1, 2}, {2}}
    Addresses = {a1, a2}
    NoAnswer = NoAnswer
    NoFile = NoFile
    Torn = Torn
    Literal = Literal
    Modes = {"literal", "resolve", "refresh"}
CONSTRAINT OneDisturbance
SYMMETRY Symmetry
INVARIANTS
    TypeOK
    LastUseIsPinned
PROPERTIES
    PinsAreKept
    NoAnswerLosesNoPin
