\* Two commands that overlap, crash and restart, and one change by hand.  The log stops growing
\* at MaxEntries lines, so the model stops there.
SPECIFICATION Spec
CONSTANTS
    Writers = {w1, w2}
    Events = {plan, deploy, note}
    Splitting = {note}
    Torn = Torn
    Garbled = Garbled
    Joined = Joined
    Split = Split
    Void = Void
    MaxEntries = 4
SYMMETRY WriterSymmetry
INVARIANTS
    TypeOK
    IntactUnlessDisturbed
    InnerEditDetected
    EveryEntryExtendsAnEarlierLine
    DamageIsLast
PROPERTY ImplementsEventLog
CHECK_DEADLOCK FALSE
