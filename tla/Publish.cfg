\* Two deploys to one destination, overlapping in every way, and crashes.
SPECIFICATION Spec
CONSTANTS
    Deployers = {ci, cd}
    long = long
    short = short
    Texts = {long, short}
    Files = {f1, f2, f3, f4}
    Outlets = {TRUE, FALSE}
    Blocks = 4
    Length <- LongAndShort
    Hole = Hole
    NoFile = NoFile
    Nothing = Nothing
    Void = Void
SYMMETRY Symmetry
INVARIANTS
    TypeOK
    NothingIsMissingAtRest
    CommandReadsItsPlan
PROPERTY ImplementsAtomicFile
