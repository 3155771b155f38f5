------------------------------ MODULE Publish ------------------------------
(***************************************************************************)
(* How deploy_plan of release/plan.py puts a configuration in place, at    *)
(* the grain of the file system.                                           *)
(*                                                                         *)
(* The text is written to a staged copy, which is named after the plan,    *)
(* and with --to to a temporary file, which is named after the destination *)
(* and therefore the same for every deploy to it; os.replace then gives    *)
(* the temporary file the destination's name.  A deploy that has opened a  *)
(* file keeps writing to it whatever name it has by then.  With --run a    *)
(* command reads the destination, or the staged copy without --to.         *)
(*                                                                         *)
(* A text is written block by block, so that a crash or another process    *)
(* can come in between, and a text may be longer than another.  Every plan *)
(* has a text of its own.                                                  *)
(***************************************************************************)
EXTENDS Naturals, FiniteSets

CONSTANTS
    Deployers,   \* deploy processes, each run again after it has ended
    Texts,       \* configurations
    Files,       \* inodes for the destination and its temporary file
    Outlets,     \* bound: TRUE with --to, FALSE without it
    Blocks,      \* bound: how many blocks the longest text has
    Length,      \* how many blocks each text has
    Hole,        \* no block here: not written, or behind the end
    NoFile,      \* there is no file of this name
    Nothing,     \* no text
    Void         \* the state of AtomicFile after an overlap

ASSUME BlocksAssumption == Blocks \in Nat \ {0}
ASSUME LengthAssumption == Length \in [Texts -> 1..Blocks]
ASSUME FilesAssumption ==
    IsFiniteSet(Files) /\ Cardinality(Files) >= Cardinality(Deployers) + 2
ASSUME OutletsAssumption == Outlets \subseteq BOOLEAN
ASSUME NamesAssumption ==
    /\ NoFile \notin Files /\ Nothing \notin Texts /\ Hole \notin Texts
    /\ Void # NoFile /\ Void \notin [1..Blocks -> Texts \cup {Hole}]

VARIABLES
    content,      \* what each file holds, block by block
    staged,       \* what the staged copy of each text holds
    temporary,    \* the file named <destination>.py2fw-tmp
    destination,  \* the file named <destination>
    pc,           \* where each deploy is
    text, to,     \* the text it deploys, and whether it was run with --to
    handle,       \* the file it has open
    written,      \* how many blocks it has written to it
    applied,      \* what the command of its last run has read
    disturbed     \* history: "overlap" if two deploys were on their way at
                  \* once, "crash" if one has stopped

vars == <<content, staged, temporary, destination, pc, text, to, handle,
          written, applied, disturbed>>

Data  == [1..Blocks -> Texts \cup {Hole}]
Empty == [k \in 1..Blocks |-> Hole]
Whole(t) == [k \in 1..Blocks |-> IF k <= Length[t] THEN t ELSE Hole]

Ended == {"idle", "published", "error", "crashed"}

Active == {d \in Deployers : pc[d] \notin Ended}

\* A file that has no name and that nobody has open.
Unused(f) ==
    /\ f \notin {temporary, destination}
    /\ \A d \in Deployers : handle[d] # f

\* A file that has lost its last name and its last user is gone.
Freed ==
    [f \in Files |-> IF f \in {temporary', destination'} \/ \E d \in Deployers : handle'[d] = f
                     THEN content[f] ELSE Empty]

Close(d) ==
    /\ handle' = [handle EXCEPT ![d] = NoFile]
    /\ written' = [written EXCEPT ![d] = 0]

\* The process has ended before its command has run.
Abandon(d) ==
    /\ Close(d)
    /\ text' = [text EXCEPT ![d] = Nothing]
    /\ to' = [to EXCEPT ![d] = FALSE]

Goes(d, from, next) == pc[d] = from /\ pc' = [pc EXCEPT ![d] = next]

-----------------------------------------------------------------------------
TypeOK ==
    /\ content \in [Files -> Data]
    /\ staged \in [Texts -> Data]
    /\ temporary \in Files \cup {NoFile}
    /\ destination \in Files \cup {NoFile}
    /\ pc \in [Deployers -> Ended \cup {"staging", "staged", "writing", "replaced"}]
    /\ text \in [Deployers -> Texts \cup {Nothing}]
    /\ to \in [Deployers -> BOOLEAN]
    /\ handle \in [Deployers -> Files \cup {NoFile}]
    /\ written \in [Deployers -> 0..Blocks]
    /\ applied \in [Deployers -> Data]
    /\ disturbed \in SUBSET {"overlap", "crash"}

Init ==
    /\ content = [f \in Files |-> Empty]
    /\ staged = [t \in Texts |-> Empty]
    /\ temporary = NoFile /\ destination = NoFile
    /\ pc = [d \in Deployers |-> "idle"]
    /\ text = [d \in Deployers |-> Nothing]
    /\ to = [d \in Deployers |-> FALSE]
    /\ handle = [d \in Deployers |-> NoFile]
    /\ written = [d \in Deployers |-> 0]
    /\ applied = [d \in Deployers |-> Empty]
    /\ disturbed = {}

\* A verified deploy empties the staged copy.
Stage(d, t, withTo) ==
    /\ pc[d] \in Ended
    /\ pc' = [pc EXCEPT ![d] = "staging"]
    /\ staged' = [staged EXCEPT ![t] = Empty]
    /\ text' = [text EXCEPT ![d] = t]
    /\ to' = [to EXCEPT ![d] = withTo]
    /\ applied' = [applied EXCEPT ![d] = Empty]
    /\ disturbed' = IF Active = {} THEN disturbed ELSE disturbed \cup {"overlap"}
    /\ UNCHANGED <<content, temporary, destination, handle, written>>

WriteStaged(d) ==
    /\ Goes(d, "staging", IF to[d] THEN "staged" ELSE "replaced")
    /\ staged' = [staged EXCEPT ![text[d]] = Whole(text[d])]
    /\ UNCHANGED <<content, temporary, destination, text, to, handle, written, applied, disturbed>>

\* Mutant: the destination itself is opened for writing.
OpenInPlace(d) ==
    \E f \in Files :
        /\ IF destination = NoFile THEN Unused(f) ELSE f = destination
        /\ Goes(d, "staged", "writing")
        /\ destination' = f
        /\ content' = [content EXCEPT ![f] = Empty]
        /\ handle' = [handle EXCEPT ![d] = f]
        /\ written' = [written EXCEPT ![d] = 0]
        /\ UNCHANGED <<staged, temporary, text, to, applied, disturbed>>

\* Mutant: the temporary file is opened for appending.
OpenToAppend(d) ==
    \E f \in Files :
        /\ IF temporary = NoFile THEN Unused(f) ELSE f = temporary
        /\ Goes(d, "staged", "writing")
        /\ temporary' = f
        /\ content' = IF f = temporary THEN content ELSE [content EXCEPT ![f] = Empty]
        /\ handle' = [handle EXCEPT ![d] = f]
        /\ written' = [written EXCEPT ![d] =
                         Cardinality({k \in 1..Blocks : content'[f][k] # Hole})]
        /\ UNCHANGED <<staged, destination, text, to, applied, disturbed>>

\* open(temporary, "w"): the file of that name is emptied, or one is made.
Open(d) ==
    \E f \in Files :
        /\ IF temporary = NoFile THEN Unused(f) ELSE f = temporary
        /\ Goes(d, "staged", "writing")
        /\ temporary' = f
        /\ content' = [content EXCEPT ![f] = Empty]
        /\ handle' = [handle EXCEPT ![d] = f]
        /\ written' = [written EXCEPT ![d] = 0]
        /\ UNCHANGED <<staged, destination, text, to, applied, disturbed>>

\* All of its text.
AllOf(d) == Length[text[d]]

\* Mutant: one block too many.
WritePastTheEnd(d) ==
    /\ pc[d] = "writing"
    /\ written[d] <= AllOf(d)
    /\ content' = [content EXCEPT ![handle[d]] =
                     [k \in 1..Blocks |-> IF k = written[d] + 1 THEN text[d] ELSE @[k]]]
    /\ written' = [written EXCEPT ![d] = @ + 1]
    /\ UNCHANGED <<staged, temporary, destination, pc, text, to, handle, applied, disturbed>>

Write(d) ==
    /\ pc[d] = "writing"
    /\ written[d] < AllOf(d)
    /\ content' = [content EXCEPT ![handle[d]][written[d] + 1] = text[d]]
    /\ written' = [written EXCEPT ![d] = @ + 1]
    /\ UNCHANGED <<staged, temporary, destination, pc, text, to, handle, applied, disturbed>>

\* Mutant: the file is replaced before all of it is written.
ReplaceEarly(d) ==
    /\ Goes(d, "writing", "replaced")
    /\ temporary # NoFile
    /\ destination' = temporary
    /\ temporary' = NoFile
    /\ Close(d)
    /\ content' = Freed
    /\ UNCHANGED <<staged, text, to, applied, disturbed>>

\* os.replace: whatever has the temporary name now becomes the destination.
Replace(d) ==
    /\ Goes(d, "writing", "replaced")
    /\ written[d] = AllOf(d)
    /\ temporary # NoFile
    /\ destination' = temporary
    /\ temporary' = NoFile
    /\ Close(d)
    /\ content' = Freed
    /\ UNCHANGED <<staged, text, to, applied, disturbed>>

\* os.replace raises FileNotFoundError: another deploy has taken the file.
ReplaceRaises(d) ==
    /\ Goes(d, "writing", "error")
    /\ written[d] = AllOf(d)
    /\ temporary = NoFile
    /\ Abandon(d)
    /\ UNCHANGED <<staged, temporary, destination, applied, disturbed>>
    /\ content' = Freed

\* The command reads the path it was given; without --run nothing is read.
Apply(d) ==
    /\ Goes(d, "replaced", "published")
    /\ applied' \in {applied, [applied EXCEPT ![d] = IF to[d] THEN content[destination]
                                                              ELSE staged[text[d]]]}
    /\ to' = [to EXCEPT ![d] = FALSE]
    /\ UNCHANGED <<content, staged, temporary, destination, text, handle, written, disturbed>>

Crash(d) ==
    /\ pc[d] \notin Ended
    /\ pc' = [pc EXCEPT ![d] = "crashed"]
    /\ Abandon(d)
    /\ disturbed' = disturbed \cup {"crash"}
    /\ UNCHANGED <<staged, temporary, destination, applied>>
    /\ content' = Freed

Step(d) ==
    \/ \E t \in Texts, withTo \in Outlets : Stage(d, t, withTo)
    \/ WriteStaged(d)
    \/ Open(d)
    \/ Write(d)
    \/ Replace(d)
    \/ ReplaceRaises(d)
    \/ Apply(d)
    \/ Crash(d)

Next == \E d \in Deployers : Step(d)

Spec == Init /\ [][Next]_vars

-----------------------------------------------------------------------------
(* Properties.                                                             *)

\* What a reader of the destination finds.
Found == IF destination = NoFile THEN NoFile ELSE content[destination]

ATOMIC == INSTANCE AtomicFile
            WITH Texts <- {Whole(t) : t \in Texts},
                 file <- IF "overlap" \in disturbed THEN Void ELSE Found

\* While one deploy at a time writes to it, and whatever a crash left behind
\* under the temporary name, the destination changes from one whole
\* configuration to the next.
ImplementsAtomicFile == ATOMIC!Spec

\* A deploy that nobody overlaps hands its command the text of its own plan.
CommandReadsItsPlan ==
    "overlap" \notin disturbed =>
        \A d \in Deployers : applied[d] # Empty => applied[d] = Whole(text[d])

\* However deploys overlap, once all of them have ended and none has crashed,
\* the destination is as long as the shortest text and no part of it is
\* missing up to there: nothing is, where all texts have one length.  Behind
\* it a longer text may have been cut off by a shorter one.
NothingIsMissingAtRest ==
    destination # NoFile /\ Active = {} /\ "crash" \notin disturbed
    => \A k \in 1..Blocks :
          content[destination][k] = Hole => \E t \in Texts : Length[t] < k

-----------------------------------------------------------------------------
(* What the documentation says and the code does not do.                   *)

\* "Only then does it write the config atomically": a reader of the
\* destination finds no file or a whole configuration.
DestinationIsWhole == destination # NoFile => \E t \in Texts : Found = Whole(t)

\* The same sentence, of what deploys leave behind that all came to their end:
\* no part is missing before the end of the file.
NoHoleAtRest ==
    destination # NoFile /\ Active = {} /\ "crash" \notin disturbed
    => \A j, k \in 1..Blocks :
          j < k /\ content[destination][k] # Hole => content[destination][j] # Hole
=============================================================================
