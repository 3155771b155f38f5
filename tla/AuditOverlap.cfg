\* Two commands, nobody edits the file: does the chain still verify?
SPECIFICATION CommandsSpec
CONSTANTS
    Writers = {w1, w2}
    Events = {plan, deploy}
    Splitting = {}
    Torn = Torn
    Garbled = Garbled
    Joined = Joined
    Split = Split
    Void = Void
    MaxEntries = 3
INVARIANT OnlyTamperingIsReported
CHECK_DEADLOCK FALSE
