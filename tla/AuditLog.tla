----------------------------- MODULE AuditLog -----------------------------
(***************************************************************************)
(* The hash-chained audit log of release/audit.py, at the grain at which   *)
(* it can go wrong: append_event first reads the whole file to find its    *)
(* predecessor and only then opens the file for appending, without a lock. *)
(*                                                                         *)
(* A writer is a py2fw command (plan, approve, deploy) that records one    *)
(* event at a time.  A command can stop between the two steps, and it can  *)
(* stop inside the write of an entry and its newline.  Cut inside the      *)
(* entry, that leaves a line that is no JSON; cut just before the newline, *)
(* a whole entry that can be read, until the next append is joined to it   *)
(* and neither can.  An entry is written without escaping U+0085, U+2028   *)
(* and U+2029, at which read_log breaks lines: an entry that has one of    *)
(* them in a name, a comment or the output of a command is read as two     *)
(* lines that are no JSON.  Behind a line that is no JSON, read_log raises *)
(* in every command.                                                       *)
(*                                                                         *)
(* Somebody may also change the file by hand, once: change what a line     *)
(* says, exchange two lines, or remove a line.  These are the changes the  *)
(* module docstring says verify_log detects.                               *)
(***************************************************************************)
EXTENDS Naturals, Sequences

CONSTANTS
    Writers,     \* the commands that append
    Events,      \* what an entry says: event, actor and details
    Splitting,   \* the events at whose text read_log breaks the line
    Torn,        \* an unfinished entry
    Garbled,     \* a line that was no JSON, with another behind it on the line
    Joined,      \* an entry without its newline, with another behind it
    Split,       \* an entry that read_log reads as two lines
    Void,        \* the state of EventLog after an overlap or an edit
    MaxEntries   \* bound: no command starts to append to a longer log

ASSUME MaxEntriesAssumption == MaxEntries \in Nat
ASSUME SplittingAssumption == Splitting \subseteq Events
ASSUME DamageAssumption ==
    /\ Joined \notin {Torn, Garbled, Split}
    /\ \A damage \in {Torn, Garbled, Joined, Split} :
          damage \notin [seq : Nat, event : Events, prev : Seq(Nat \X Events),
                        hash : Seq(Nat \X Events)]

VARIABLES
    log,         \* the lines of audit.jsonl
    unended,     \* the last of them has no newline
    pc,          \* "idle", "append" (has read, has not written) or "failed"
    pending,     \* the entry a writer built from what it read
    overlapped,  \* history: two commands were inside append_event at once
    edit         \* history: the change made by hand, "none" if none was

vars == <<log, unended, pc, pending, overlapped, edit>>

-----------------------------------------------------------------------------
(* Entries and their digests.  SHA-256 is taken to be injective: a digest  *)
(* is the digest of the previous entry followed by what it adds to it, so  *)
(* equal digests commit to equal pasts.                                    *)

Hash == Seq(Nat \X Events)

GENESIS == <<>>

\* Mutant: the digest does not cover what the entry says.
DigestOfPlace(seq, event, prev) == Append(prev, <<seq, seq>>)

Digest(seq, event, prev) == Append(prev, <<seq, event>>)

Entry == [seq : Nat, event : Events, prev : Hash, hash : Hash]

Damage == {Torn, Garbled, Joined, Split}

Readable(l) == \A i \in 1..Len(l) : l[i] \notin Damage

\* Mutant: the link is taken from the previous entry's own link.
UnlinkedEntry(l, event) ==
    LET seq  == IF l = <<>> THEN 1 ELSE l[Len(l)].seq + 1
        prev == IF l = <<>> THEN GENESIS ELSE l[Len(l)].prev
    IN  [seq |-> seq, event |-> event, prev |-> prev,
         hash |-> Digest(seq, event, prev)]

\* Mutant: the number of the previous entry is used again.
UncountedEntry(l, event) ==
    LET seq  == IF l = <<>> THEN 1 ELSE l[Len(l)].seq
        prev == IF l = <<>> THEN GENESIS ELSE l[Len(l)].hash
    IN  [seq |-> seq, event |-> event, prev |-> prev,
         hash |-> Digest(seq, event, prev)]

\* Mutant: the entry is written without its hash.
UnsealedEntry(l, event) ==
    [seq |-> Len(l) + 1, event |-> event, prev |-> GENESIS]

\* The entry append_event builds from the log it has read.
NewEntry(l, event) ==
    LET seq  == IF l = <<>> THEN 1 ELSE l[Len(l)].seq + 1
        prev == IF l = <<>> THEN GENESIS ELSE l[Len(l)].hash
    IN  [seq |-> seq, event |-> event, prev |-> prev,
         hash |-> Digest(seq, event, prev)]

\* The three checks verify_log makes on the i-th entry.
Numbered(l, i) == l[i].seq = i
Linked(l, i)   == l[i].prev = IF i = 1 THEN GENESIS ELSE l[i-1].hash
Sealed(l, i)   == l[i].hash = Digest(l[i].seq, l[i].event, l[i].prev)

\* verify_log(l).ok
Intact(l) ==
    /\ Readable(l)
    /\ \A i \in 1..Len(l) : Numbered(l, i) /\ Linked(l, i) /\ Sealed(l, i)

-----------------------------------------------------------------------------
TypeOK ==
    /\ log \in Seq(Entry \cup Damage)
    /\ unended \in BOOLEAN /\ (unended => log # <<>>)
    /\ pc \in [Writers -> {"idle", "append", "failed"}]
    /\ pending \in [Writers -> Entry \cup {GENESIS}]
    /\ \A w \in Writers : pc[w] = "append" => pending[w] \in Entry
    /\ overlapped \in BOOLEAN
    /\ edit \in {"none", "inner", "tail"}

Init ==
    /\ log = <<>>
    /\ unended = FALSE
    /\ pc = [w \in Writers |-> "idle"]
    /\ pending = [w \in Writers |-> GENESIS]
    /\ overlapped = FALSE
    /\ edit = "none"

\* Mutant: read_log skips the lines it cannot parse.
ReadSkippingDamage(w, event) ==
    /\ pc[w] = "idle"
    /\ Len(log) < MaxEntries
    /\ pc' = [pc EXCEPT ![w] = "append"]
    /\ pending' = [pending EXCEPT ![w] =
                     NewEntry(SelectSeq(log, LAMBDA line : line \notin Damage), event)]
    /\ overlapped' = (overlapped \/ \E v \in Writers \ {w} : pc[v] = "append")
    /\ UNCHANGED <<log, unended, edit>>

\* read_log succeeds and the new entry is built in memory.
Read(w, event) ==
    /\ pc[w] = "idle"
    /\ Readable(log)
    /\ Len(log) < MaxEntries
    /\ pc' = [pc EXCEPT ![w] = "append"]
    /\ pending' = [pending EXCEPT ![w] = NewEntry(log, event)]
    /\ overlapped' = (overlapped \/ \E v \in Writers \ {w} : pc[v] = "append")
    /\ UNCHANGED <<log, unended, edit>>

\* read_log raises on an unreadable line, and the command ends with it.
ReadFails(w) ==
    /\ pc[w] = "idle"
    /\ ~Readable(log)
    /\ pc' = [pc EXCEPT ![w] = "failed"]
    /\ UNCHANGED <<log, unended, pending, overlapped, edit>>

\* What read_log will find of an entry.
Written(entry) == IF entry.event \in Splitting THEN Split ELSE entry

\* What read_log will find of a line without newline once an entry, or part
\* of one, is written behind it.
Spoilt(line) == IF line \in {Torn, Garbled, Split} THEN Garbled ELSE Joined

SpoilLast == [log EXCEPT ![Len(log)] = Spoilt(log[Len(log)])]

\* The entry and its newline are appended at the end of the file as it is
\* now; a last line without newline takes the entry in.
Write(w) ==
    /\ pc[w] = "append"
    /\ log' = IF unended THEN SpoilLast ELSE Append(log, Written(pending[w]))
    /\ unended' = FALSE
    /\ pc' = [pc EXCEPT ![w] = "idle"]
    /\ UNCHANGED <<pending, overlapped, edit>>

\* The process stops inside the write, at a character of the entry or just
\* before the newline.
Tear(w) ==
    /\ pc[w] = "append"
    /\ IF unended THEN log' = SpoilLast
                  ELSE \E line \in {Torn, Written(pending[w])} : log' = Append(log, line)
    /\ unended' = TRUE
    /\ pc' = [pc EXCEPT ![w] = "failed"]
    /\ UNCHANGED <<pending, overlapped, edit>>

\* The process stops between reading and writing.
Crash(w) ==
    /\ pc[w] = "append"
    /\ pc' = [pc EXCEPT ![w] = "failed"]
    /\ UNCHANGED <<log, unended, pending, overlapped, edit>>

Restart(w) ==
    /\ pc[w] = "failed"
    /\ pc' = [pc EXCEPT ![w] = "idle"]
    /\ UNCHANGED <<log, unended, pending, overlapped, edit>>

Steps(w) ==
    \/ \E event \in Events : Read(w, event)
    \/ ReadFails(w)
    \/ Write(w)
    \/ Tear(w)
    \/ Crash(w)
    \/ Restart(w)

-----------------------------------------------------------------------------
(* Changes made by hand to a readable log; the editor may leave the file   *)
(* with or without a newline at its end.                                   *)

RemoveLine(l, i) == [k \in 1..(Len(l) - 1) |-> IF k < i THEN l[k] ELSE l[k+1]]

ByHand(kind, l) ==
    /\ edit = "none"
    /\ log' = l
    /\ unended' \in {FALSE, l # <<>>}
    /\ edit' = kind
    /\ UNCHANGED <<pc, pending, overlapped>>

EditLine(i, event) ==
    /\ i \in 1..Len(log)
    /\ event # log[i].event
    /\ ByHand("inner", [log EXCEPT ![i].event = event])

SwapLines(i, j) ==
    /\ i \in 1..Len(log) /\ j \in 1..Len(log) /\ i < j
    /\ ByHand("inner", [log EXCEPT ![i] = log[j], ![j] = log[i]])

DropLine(i) ==
    /\ i \in 1..Len(log)
    /\ ByHand(IF i < Len(log) THEN "inner" ELSE "tail", RemoveLine(log, i))

Tamper ==
    Readable(log) /\ \E i \in 1..Len(log) :
        \/ \E event \in Events \ Splitting : EditLine(i, event)
        \/ \E j \in 1..Len(log) : SwapLines(i, j)
        \/ DropLine(i)

-----------------------------------------------------------------------------
Commands == \E w \in Writers : Steps(w)

Next == Commands \/ Tamper

Spec == Init /\ [][Next]_vars

\* The log when nobody changes it by hand.
CommandsSpec == Init /\ [][Commands]_vars

-----------------------------------------------------------------------------
(* Properties.                                                             *)

\* Nothing but two overlapping appends, a change by hand or an unreadable
\* line makes `audit verify` fail: a log that commands wrote one after the
\* other verifies, also after crashes between its reads and its writes.
IntactUnlessDisturbed ==
    ~overlapped /\ edit = "none" /\ Readable(log) => Intact(log)

\* Once a line was edited, two lines were exchanged, or a line that is not
\* the last was removed, `audit verify` reports it, whatever is appended
\* to the log afterwards.
InnerEditDetected ==
    ~overlapped /\ edit = "inner" => ~Intact(log)

\* Even when appends overlap, every entry extends a line that stands before
\* it: commands fork the chain without losing what it was built on.  Only an
\* entry cut off just before its newline can be lost from under another, and
\* then the line it was joined to stands there.
ExtendsEarlierLine(i) ==
    \/ log[i].seq = 1 /\ log[i].prev = GENESIS
    \/ \E j \in 1..(i-1) :
          \/ log[j] = Joined
          \/ /\ log[j] \notin Damage
             /\ log[i].prev = log[j].hash
             /\ log[i].seq = log[j].seq + 1

EveryEntryExtendsAnEarlierLine ==
    edit = "none" =>
        \A i \in 1..Len(log) : log[i] \notin Damage => ExtendsEarlierLine(i)

\* Damage is the last line, and final: nothing is ever written behind an
\* unreadable line, nor a second line damaged, unless appends overlapped.
DamageIsLast ==
    ~overlapped => \A i \in 1..Len(log) : log[i] \in Damage => i = Len(log)

\* The numbers and events of the entries that can be read, by their place.
RecordedEvents ==
    [i \in {k \in 1..Len(log) : log[k] \notin Damage} |->
        [seq |-> log[i].seq, event |-> log[i].event]]

Disturbed == overlapped \/ edit # "none"

RECORD == INSTANCE EventLog
            WITH events <- IF Disturbed THEN Void ELSE RecordedEvents,
                 closed <- Disturbed \/ ~Readable(log)

\* While commands append one after the other, every step of append_event
\* records one numbered event behind all others, leaves the recorded events
\* alone, or, by a crash inside a write or a text that splits, ends the log,
\* which costs the last event at most.
ImplementsEventLog == RECORD!Spec

-----------------------------------------------------------------------------
(* What the documentation says and the code does not do.                   *)

\* `audit verify` is described as a check for tampering: a log that nobody
\* changed by hand, in which no write was interrupted, should verify.
OnlyTamperingIsReported ==
    edit = "none" /\ Readable(log) => Intact(log)

\* The log is "JSON Lines": one that holds nothing but whole entries, as
\* commands wrote them, can be read again.
WholeEntriesAreReadable ==
    edit = "none" /\ (\A i \in 1..Len(log) : log[i] \notin {Torn, Garbled, Joined}) => Readable(log)

\* "An append-only log": an entry that could be read can be read from then
\* on, as long as nobody changes the file by hand.
RecordedForGood ==
    [][edit' = "none" =>
          \A i \in 1..Len(log) : log[i] \notin Damage => log'[i] = log[i]]_vars

\* "Editing, reordering or deleting any line breaks the chain."
EveryEditDetected ==
    edit # "none" => ~Intact(log)
=============================================================================
