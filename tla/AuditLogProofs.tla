-------------------------- MODULE AuditLogProofs --------------------------
(***************************************************************************)
(* Proofs about AuditLog, for any set of commands, any events and any      *)
(* length of the log.                                                      *)
(***************************************************************************)
EXTENDS AuditLog, SequenceTheorems, TLAPS

Line == Entry \cup Damage

-----------------------------------------------------------------------------
(* Lemmas about entries and logs.                                          *)

\* An entry that append_event builds from a readable log is an entry.
LEMMA NewEntryType ==
    ASSUME NEW l \in Seq(Line), Readable(l), NEW event \in Events
    PROVE  NewEntry(l, event) \in Entry
<1>1. CASE l = <<>>
  BY <1>1, SMT DEF NewEntry, Entry, Hash, GENESIS, Digest
<1>2. CASE l # <<>>
  <2>1. l[Len(l)] \in Entry
    BY <1>2 DEF Readable, Line
  <2>2. l[Len(l)].seq + 1 \in Nat /\ l[Len(l)].hash \in Seq(Nat \X Events)
    BY <2>1 DEF Entry, Hash
  <2>3. Append(l[Len(l)].hash, <<l[Len(l)].seq + 1, event>>) \in Seq(Nat \X Events)
    BY <2>2
  <2> QED
    BY <1>2, <2>2, <2>3 DEF NewEntry, Entry, Hash, Digest
<1> QED
  BY <1>1, <1>2

\* Damage is never an entry.
LEMMA DamageIsNoEntry == Entry \cap Damage = {}
BY DamageAssumption DEF Entry, Damage, Hash

\* Removing a line leaves a sequence of lines.
LEMMA RemoveLineType ==
    ASSUME NEW l \in Seq(Line), NEW i \in 1..Len(l)
    PROVE  /\ RemoveLine(l, i) \in Seq(Line)
           /\ Len(RemoveLine(l, i)) = Len(l) - 1
           /\ \A k \in 1..(Len(l) - 1) :
                 RemoveLine(l, i)[k] = IF k < i THEN l[k] ELSE l[k+1]
<1>1. Len(l) - 1 \in Nat
  BY LenProperties
<1>2. \A k \in 1..(Len(l) - 1) : l[k] \in Line /\ l[k+1] \in Line
  BY LenProperties, ElementOfSeq
<1>3. RemoveLine(l, i) \in [1..(Len(l) - 1) -> Line]
  BY <1>2 DEF RemoveLine
<1>4. RemoveLine(l, i) \in Seq(Line)
  BY <1>1, <1>3
<1> QED
  BY <1>1, <1>3, <1>4, LenProperties DEF RemoveLine

\* What is written onto a line without newline changes that line only, and
\* makes it unreadable.
LEMMA SpoiltLog ==
    ASSUME TypeOK, unended
    PROVE  /\ Len(log) \in 1..Len(log)
           /\ SpoilLast \in Seq(Line)
           /\ Len(SpoilLast) = Len(log)
           /\ \A k \in 1..Len(log) :
                 SpoilLast[k] = IF k = Len(log) THEN Spoilt(log[k]) ELSE log[k]
<1>1. log \in Seq(Line) /\ Len(log) \in 1..Len(log)
  BY LenProperties, EmptySeq DEF TypeOK, Line
<1>2. Spoilt(log[Len(log)]) \in Line
  BY DEF Spoilt, Damage, Line
<1> QED
  BY <1>1, <1>2, ExceptSeq DEF SpoilLast

\* What a step of a command can do to the file: nothing, one line more, or
\* a last line without newline that is spoilt.
LEMMA CommandWrites ==
    ASSUME TypeOK, NEW w \in Writers, Steps(w)
    PROVE  \/ log' = log
           \/ \E line \in Line :
                 /\ ~unended
                 /\ pc[w] = "append"
                 /\ log' = Append(log, line)
                 /\ line \notin Damage => line = pending[w]
           \/ unended /\ pc[w] = "append" /\ log' = SpoilLast
<1>1. CASE Write(w)
  <2>1. pending[w] \in Entry
    BY <1>1 DEF Write, TypeOK
  <2>2. Written(pending[w]) \in Line
    BY <2>1 DEF Written, Damage, Line
  <2>3. Written(pending[w]) \notin Damage => Written(pending[w]) = pending[w]
    BY DEF Written, Damage
  <2> QED
    BY <1>1, <2>2, <2>3 DEF Write
<1>2. CASE Tear(w)
  <2>1. pending[w] \in Entry
    BY <1>2 DEF Tear, TypeOK
  <2>2. Written(pending[w]) \in Line /\ Torn \in Damage /\ Torn \in Line
    BY <2>1 DEF Written, Damage, Line
  <2>3. Written(pending[w]) \notin Damage => Written(pending[w]) = pending[w]
    BY DEF Written, Damage
  <2> QED
    BY <1>2, <2>2, <2>3 DEF Tear
<1>3. CASE ~Write(w) /\ ~Tear(w)
  BY <1>3 DEF Steps, Read, ReadFails, Crash, Restart
<1> QED
  BY <1>1, <1>2, <1>3

-----------------------------------------------------------------------------
(* What verify_log sees of a change by hand, on any log that verifies.     *)

\* A line whose content changed no longer matches its hash.
LEMMA EditedLineIsSeen ==
    ASSUME NEW l \in Seq(Line), Intact(l), NEW i \in 1..Len(l),
           NEW event \in Events, event # l[i].event
    PROVE  ~Intact([l EXCEPT ![i].event = event])
<1> DEFINE m == [l EXCEPT ![i].event = event]
<1>1. l[i] \in Entry
  BY DEF Intact, Readable, Line
<1>2. Len(m) = Len(l) /\ m[i] = [l[i] EXCEPT !.event = event]
  BY LenProperties
<1>3. m[i].seq = l[i].seq /\ m[i].prev = l[i].prev /\ m[i].hash = l[i].hash
  BY <1>1, <1>2 DEF Entry
<1>4. m[i].event = event
  BY <1>1, <1>2 DEF Entry
<1>5. l[i].hash = Append(l[i].prev, <<l[i].seq, l[i].event>>)
  BY DEF Intact, Sealed, Digest
<1>6. Append(l[i].prev, <<l[i].seq, l[i].event>>) # Append(l[i].prev, <<l[i].seq, event>>)
  <2>1. l[i].prev \in Seq(Nat \X Events)
    BY <1>1 DEF Entry, Hash
  <2> DEFINE p == l[i].prev
             x == <<l[i].seq, l[i].event>>
             y == <<l[i].seq, event>>
  <2>2. x \in Nat \X Events /\ y \in Nat \X Events /\ x # y
    BY <1>1 DEF Entry
  <2> HIDE DEF p, x, y
  <2>3. Append(p, x)[Len(p) + 1] = x /\ Append(p, y)[Len(p) + 1] = y
    BY <2>1, <2>2, AppendProperties DEF p
  <2>4. Append(p, x) # Append(p, y)
    BY <2>2, <2>3
  <2> QED
    BY <2>4 DEF p, x, y
<1>7. ~Sealed(m, i)
  BY <1>3, <1>4, <1>5, <1>6 DEF Sealed, Digest
<1> QED
  BY <1>2, <1>7 DEF Intact

\* Two lines that changed places carry the wrong numbers.
LEMMA SwappedLinesAreSeen ==
    ASSUME NEW l \in Seq(Line), Intact(l),
           NEW i \in 1..Len(l), NEW j \in 1..Len(l), i < j
    PROVE  ~Intact([l EXCEPT ![i] = l[j], ![j] = l[i]])
<1> DEFINE m == [l EXCEPT ![i] = l[j], ![j] = l[i]]
<1>1. Len(m) = Len(l) /\ m[i] = l[j]
  BY LenProperties
<1>2. l[j].seq = j
  BY DEF Intact, Numbered
<1>3. ~Numbered(m, i)
  BY <1>1, <1>2 DEF Numbered
<1> QED
  BY <1>1, <1>3 DEF Intact

\* When a line before the last is gone, its successor has its place but not
\* its number.
LEMMA MissingLineIsSeen ==
    ASSUME NEW l \in Seq(Line), Intact(l), NEW i \in 1..Len(l), i < Len(l)
    PROVE  ~Intact(RemoveLine(l, i))
<1>1. i \in 1..Len(RemoveLine(l, i)) /\ RemoveLine(l, i)[i] = l[i+1]
  <2>1. Len(l) \in Nat /\ i \in 1..(Len(l) - 1)
    BY LenProperties
  <2>2. /\ Len(RemoveLine(l, i)) = Len(l) - 1
        /\ \A k \in 1..(Len(l) - 1) : RemoveLine(l, i)[k] = IF k < i THEN l[k] ELSE l[k+1]
    BY RemoveLineType
  <2> QED
    BY <2>1, <2>2
<1>2. l[i+1].seq = i + 1
  BY LenProperties DEF Intact, Numbered
<1>3. ~Numbered(RemoveLine(l, i), i)
  BY <1>1, <1>2 DEF Numbered
<1> QED
  BY <1>1, <1>3 DEF Intact

\* Nothing written behind a log that does not verify makes it verify.
LEMMA BrokenStaysBroken ==
    ASSUME NEW l \in Seq(Line), ~Intact(l), NEW line \in Line
    PROVE  ~Intact(Append(l, line))
<1>1. Append(l, line) \in Seq(Line) /\ Len(Append(l, line)) = Len(l) + 1
  BY AppendProperties
<1>2. \A k \in 1..Len(l) : Append(l, line)[k] = l[k]
  BY AppendProperties
<1>3. ASSUME Intact(Append(l, line)) PROVE Intact(l)
  <2>1. Readable(l)
    BY <1>1, <1>2, <1>3, LenProperties DEF Intact, Readable
  <2>2. ASSUME NEW k \in 1..Len(l) PROVE Numbered(l, k) /\ Linked(l, k) /\ Sealed(l, k)
    <3>1. k \in 1..Len(Append(l, line))
      BY <1>1, LenProperties
    <3>2. k # 1 => k - 1 \in 1..Len(l)
      BY LenProperties
    <3> QED
      BY <1>2, <1>3, <3>1, <3>2 DEF Intact, Numbered, Linked, Sealed
  <2> QED
    BY <2>1, <2>2 DEF Intact
<1> QED
  BY <1>3
-----------------------------------------------------------------------------
(* Type correctness.                                                       *)

\* Every step of a command and every change by hand keeps the types.
LEMMA TypeStep == TypeOK /\ [Next]_vars => TypeOK'
<1> SUFFICES ASSUME TypeOK, [Next]_vars PROVE TypeOK'
  OBVIOUS
<1> USE DEF TypeOK
<1>1. ASSUME NEW w \in Writers, NEW event \in Events, Read(w, event) PROVE TypeOK'
  <2>1. NewEntry(log, event) \in Entry
    BY <1>1, NewEntryType DEF Read, Line
  <2> QED
    BY <1>1, <2>1 DEF Read
<1>2. ASSUME NEW w \in Writers, ReadFails(w) PROVE TypeOK'
  BY <1>2 DEF ReadFails
<1>3. ASSUME NEW w \in Writers, Write(w) \/ Tear(w) PROVE TypeOK'
  <2>1. log' \in Seq(Entry \cup Damage) /\ log' # <<>>
    <3>1. CASE unended
      BY <1>3, <3>1, SpoiltLog, EmptySeq DEF Write, Tear, Line
    <3>2. CASE ~unended
      <4>1. Torn \in Line /\ Written(pending[w]) \in Line
        BY <1>3 DEF Write, Tear, Written, Damage, Line
      <4>2. \E line \in Line : log' = Append(log, line)
        BY <1>3, <3>2, <4>1 DEF Write, Tear
      <4> QED
        BY <4>2, AppendProperties, EmptySeq DEF Line
    <3> QED
      BY <3>1, <3>2
  <2>2. unended' \in BOOLEAN
    BY <1>3 DEF Write, Tear
  <2>3. pc' \in [Writers -> {"idle", "append", "failed"}] /\ pending' = pending
        /\ overlapped' = overlapped /\ edit' = edit
    BY <1>3 DEF Write, Tear
  <2>4. \A v \in Writers : pc'[v] = "append" => pc[v] = "append"
    BY <1>3 DEF Write, Tear
  <2> QED
    BY <2>1, <2>2, <2>3, <2>4
<1>5. ASSUME NEW w \in Writers, Crash(w) \/ Restart(w) PROVE TypeOK'
  BY <1>5 DEF Crash, Restart
<1>6. ASSUME NEW i \in 1..Len(log), NEW event \in Events, Readable(log), EditLine(i, event)
      PROVE  TypeOK'
  <2>1. log[i] \in Entry
    BY <1>6 DEF Readable
  <2>2. [log[i] EXCEPT !.event = event] \in Entry
    BY <2>1 DEF Entry
  <2>3. log' = [log EXCEPT ![i] = [log[i] EXCEPT !.event = event]]
    BY <1>6 DEF EditLine, ByHand
  <2>4. log' \in Seq(Entry \cup Damage)
    BY <2>2, <2>3
  <2> QED
    BY <1>6, <2>4 DEF EditLine, ByHand
<1>7. ASSUME NEW i \in 1..Len(log), NEW j \in 1..Len(log), SwapLines(i, j) PROVE TypeOK'
  <2>1. log' = [log EXCEPT ![i] = log[j], ![j] = log[i]]
    BY <1>7 DEF SwapLines, ByHand
  <2>2. log' \in Seq(Entry \cup Damage)
    BY <2>1
  <2> QED
    BY <1>7, <2>2 DEF SwapLines, ByHand
<1>8. ASSUME NEW i \in 1..Len(log), DropLine(i) PROVE TypeOK'
  <2>1. log' = RemoveLine(log, i)
    BY <1>8 DEF DropLine, ByHand
  <2>2. log' \in Seq(Entry \cup Damage)
    BY <2>1, RemoveLineType DEF Line
  <2> QED
    BY <1>8, <2>2 DEF DropLine, ByHand
<1>9. CASE UNCHANGED vars
  BY <1>9 DEF vars
<1> QED
  BY <1>1, <1>2, <1>3, <1>5, <1>6, <1>7, <1>8, <1>9
     DEF Next, Commands, Steps, Tamper

LEMMA TypeCorrectInit == Init => TypeOK
<1>1. <<>> \in Seq(Entry \cup Damage)
  OBVIOUS
<1>2. [w \in Writers |-> GENESIS] \in [Writers -> Entry \cup {GENESIS}]
  OBVIOUS
<1>3. [w \in Writers |-> "idle"] \in [Writers -> {"idle", "append", "failed"}]
  OBVIOUS
<1>4. ASSUME Init PROVE \A w \in Writers : pc[w] = "append" => pending[w] \in Entry
  BY <1>4, <1>3 DEF Init
<1>5. ASSUME Init PROVE overlapped \in BOOLEAN /\ edit \in {"none", "inner", "tail"}
  BY <1>5 DEF Init
<1>6. ASSUME Init
      PROVE  /\ log \in Seq(Entry \cup Damage)
             /\ pc \in [Writers -> {"idle", "append", "failed"}]
             /\ pending \in [Writers -> Entry \cup {GENESIS}]
  BY <1>1, <1>2, <1>3, <1>6 DEF Init
<1> QED
  BY <1>4, <1>5, <1>6 DEF TypeOK, Init

\* The log and the commands have their types in every reachable state.
THEOREM TypeCorrect == Spec => []TypeOK
BY TypeCorrectInit, TypeStep, PTL DEF Spec

-----------------------------------------------------------------------------
(* The log verifies unless it was disturbed.                               *)

\* What a command that has read the log holds in memory, as long as nobody
\* else is between reading and writing: the entry that belongs next.
NextEntry(w) ==
    /\ pending[w].seq = Len(log) + 1
    /\ pending[w].prev = IF log = <<>> THEN GENESIS ELSE log[Len(log)].hash
    /\ pending[w].hash = Digest(pending[w].seq, pending[w].event, pending[w].prev)

OneInside ==
    ~overlapped =>
        \A v, w \in Writers : pc[v] = "append" /\ pc[w] = "append" => v = w

PendingFits ==
    ~overlapped /\ edit = "none" /\ Readable(log) =>
        \A w \in Writers : pc[w] = "append" => NextEntry(w)

\* IntactUnlessDisturbed is inductive only together with what is in flight.
ChainInv ==
    TypeOK /\ OneInside /\ PendingFits /\ IntactUnlessDisturbed

\* Reading keeps the invariant: a second reader sets overlapped, a single
\* one takes its number and its link from the last line.
LEMMA ReadKeepsChain ==
    ASSUME ChainInv, NEW w \in Writers, NEW event \in Events, Read(w, event)
    PROVE  OneInside' /\ PendingFits' /\ IntactUnlessDisturbed'
<1> USE DEF ChainInv
<1>1. log' = log /\ edit' = edit
  BY DEF Read
<1>2. IntactUnlessDisturbed'
  BY <1>1 DEF Read, IntactUnlessDisturbed, Readable, Intact, Numbered, Linked, Sealed
<1>3. ASSUME ~overlapped'
      PROVE  \A v \in Writers : pc'[v] = "append" => v = w
  BY <1>3 DEF Read, TypeOK
<1>4. OneInside'
  BY <1>3 DEF OneInside
<1>5. ASSUME ~overlapped', edit' = "none", Readable(log)'
      PROVE  NextEntry(w)'
  <2>1. Intact(log)
    BY <1>1, <1>5 DEF Read, IntactUnlessDisturbed, Readable
  <2>2. pending'[w] = NewEntry(log, event)
    BY DEF Read, TypeOK
  <2>3. CASE log = <<>>
    BY <1>1, <2>2, <2>3 DEF NextEntry, NewEntry
  <2>4. CASE log # <<>>
    <3>1. Len(log) \in 1..Len(log)
      BY <2>4, LenProperties, EmptySeq DEF TypeOK
    <3>2. log[Len(log)].seq = Len(log)
      BY <2>1, <3>1 DEF Intact, Numbered
    <3> QED
      BY <1>1, <2>2, <2>4, <3>2 DEF NextEntry, NewEntry
  <2> QED
    BY <2>3, <2>4
<1>6. PendingFits'
  BY <1>3, <1>5 DEF PendingFits
<1> QED
  BY <1>2, <1>4, <1>6

\* Writing keeps the invariant, whole or cut off: what can be read of it is
\* the entry in memory, which is still the next one, because nobody else was
\* inside, and then nobody is.
LEMMA WriteKeepsChain ==
    ASSUME ChainInv, NEW w \in Writers, Write(w) \/ Tear(w)
    PROVE  OneInside' /\ PendingFits' /\ IntactUnlessDisturbed'
<1> USE DEF ChainInv
<1>1. OneInside'
  BY DEF Write, Tear, OneInside, TypeOK
<1>2. ASSUME ~overlapped' PROVE \A v \in Writers : pc'[v] # "append"
  BY <1>2 DEF Write, Tear, OneInside, TypeOK
<1>3. PendingFits'
  BY <1>2 DEF PendingFits
<1>4. ASSUME ~overlapped', edit' = "none", Readable(log)'
      PROVE  Intact(log)'
  <2>1. ~unended
    <3>1. ASSUME unended PROVE FALSE
      <4>1. Len(log) \in 1..Len(log') /\ log'[Len(log)] \in Damage
        BY <3>1, SpoiltLog DEF Write, Tear, Spoilt, Damage
      <4> QED
        BY <1>4, <4>1 DEF Readable
    <3> QED
      BY <3>1
  <2>2. log' = Append(log, pending[w]) /\ pending[w] \in Entry
    <3>1. pending[w] \in Entry
      BY DEF Write, Tear, TypeOK
    <3>2. PICK line \in {Torn, Written(pending[w])} : log' = Append(log, line)
      BY <2>1 DEF Write, Tear
    <3>3. line \in Line
      BY <3>1, <3>2 DEF Written, Damage, Line
    <3>4. Len(log) + 1 \in 1..Len(log') /\ log'[Len(log) + 1] = line
      BY <3>2, <3>3, AppendProperties, LenProperties DEF TypeOK, Line
    <3>5. line \notin Damage
      BY <1>4, <3>4 DEF Readable
    <3> QED
      BY <3>1, <3>2, <3>5 DEF Written, Damage
  <2>3. /\ Len(log') = Len(log) + 1
        /\ log'[Len(log) + 1] = pending[w]
        /\ \A k \in 1..Len(log) : log'[k] = log[k]
        /\ Len(log) \in Nat
    BY <2>2, AppendProperties, LenProperties DEF TypeOK
  <2>4. Readable(log)
    BY <1>4, <2>3 DEF Readable
  <2>5. Intact(log) /\ NextEntry(w)
    BY <1>4, <2>4 DEF Write, Tear, IntactUnlessDisturbed, PendingFits
  <2>6. ASSUME NEW k \in 1..Len(log)
        PROVE  Numbered(log', k) /\ Linked(log', k) /\ Sealed(log', k)
    <3>1. k # 1 => k - 1 \in 1..Len(log)
      BY <2>3
    <3> QED
      BY <2>3, <2>5, <3>1 DEF Intact, Numbered, Linked, Sealed
  <2>7. Numbered(log', Len(log) + 1) /\ Sealed(log', Len(log) + 1)
    BY <2>3, <2>5 DEF NextEntry, Numbered, Sealed
  <2>8. Linked(log', Len(log) + 1)
    <3>1. CASE log = <<>>
      BY <2>3, <2>5, <3>1 DEF NextEntry, Linked
    <3>2. CASE log # <<>>
      <4>1. Len(log) \in 1..Len(log) /\ Len(log) + 1 # 1
        BY <2>3, <3>2, EmptySeq DEF TypeOK
      <4> QED
        BY <2>3, <2>5, <3>2, <4>1 DEF NextEntry, Linked
    <3> QED
      BY <3>1, <3>2
  <2>9. \A k \in 1..Len(log') : k \in 1..Len(log) \/ k = Len(log) + 1
    BY <2>3
  <2> QED
    BY <1>4, <2>6, <2>7, <2>8, <2>9 DEF Intact
<1>5. IntactUnlessDisturbed'
  BY <1>4 DEF IntactUnlessDisturbed
<1> QED
  BY <1>1, <1>3, <1>5

\* The other steps of a command leave an intact log intact.
LEMMA StopKeepsChain ==
    ASSUME ChainInv, NEW w \in Writers, ReadFails(w) \/ Crash(w) \/ Restart(w)
    PROVE  OneInside' /\ PendingFits' /\ IntactUnlessDisturbed'
<1> USE DEF ChainInv
<1>1. /\ overlapped' = overlapped /\ edit' = edit /\ pending' = pending /\ log' = log
      /\ \A v \in Writers : pc'[v] = "append" => pc[v] = "append"
  BY DEF ReadFails, Crash, Restart, TypeOK
<1>2. OneInside'
  BY <1>1 DEF OneInside
<1>3. (Readable(log)' <=> Readable(log)) /\ (Intact(log)' <=> Intact(log))
  BY <1>1 DEF Readable, Intact, Numbered, Linked, Sealed
<1>4. \A v \in Writers : NextEntry(v) => NextEntry(v)'
  BY <1>1 DEF NextEntry
<1>5. IntactUnlessDisturbed'
  BY <1>1, <1>3 DEF IntactUnlessDisturbed
<1>6. PendingFits'
  BY <1>1, <1>3, <1>4 DEF PendingFits
<1> QED
  BY <1>2, <1>5, <1>6

\* A change by hand ends the promise.
LEMMA TamperKeepsChain ==
    ASSUME ChainInv, Tamper
    PROVE  OneInside' /\ PendingFits' /\ IntactUnlessDisturbed'
<1>1. edit' # "none" /\ pc' = pc /\ overlapped' = overlapped
  BY DEF Tamper, EditLine, SwapLines, DropLine, ByHand
<1> QED
  BY <1>1 DEF ChainInv, OneInside, PendingFits, IntactUnlessDisturbed

LEMMA ChainStep == ChainInv /\ [Next]_vars => ChainInv'
<1> SUFFICES ASSUME ChainInv, [Next]_vars PROVE ChainInv'
  OBVIOUS
<1>1. TypeOK'
  BY TypeStep DEF ChainInv
<1>2. CASE Commands
  BY <1>1, <1>2, ReadKeepsChain, WriteKeepsChain, StopKeepsChain
     DEF Commands, Steps, ChainInv
<1>3. CASE Tamper
  BY <1>1, <1>3, TamperKeepsChain DEF ChainInv
<1>4. CASE UNCHANGED vars
  BY <1>1, <1>4 DEF vars, ChainInv, OneInside, PendingFits, IntactUnlessDisturbed,
     NextEntry, Readable, Intact, Numbered, Linked, Sealed
<1> QED
  BY <1>2, <1>3, <1>4 DEF Next

LEMMA ChainInit == Init => ChainInv
<1> SUFFICES ASSUME Init PROVE ChainInv
  OBVIOUS
<1>1. TypeOK
  BY TypeCorrectInit
<1>2. \A w \in Writers : pc[w] # "append"
  BY DEF Init
<1>3. Len(log) = 0
  BY DEF Init
<1>4. Intact(log)
  BY <1>3 DEF Intact, Readable
<1> QED
  BY <1>1, <1>2, <1>4 DEF ChainInv, OneInside, PendingFits, IntactUnlessDisturbed

LEMMA ChainAlways == Spec => []ChainInv
BY ChainInit, ChainStep, PTL DEF Spec

\* append_event and verify_log, under any crashes: a log that only commands
\* running one after the other have written verifies.
THEOREM Chained == Spec => []IntactUnlessDisturbed
<1>1. ChainInv => IntactUnlessDisturbed
  BY DEF ChainInv
<1> QED
  BY <1>1, ChainAlways, PTL

-----------------------------------------------------------------------------
(* A change by hand before the last line is seen from then on.             *)

DetectionInv == ChainInv /\ InnerEditDetected

LEMMA DetectionStep == DetectionInv /\ [Next]_vars => DetectionInv'
<1> SUFFICES ASSUME DetectionInv, [Next]_vars PROVE DetectionInv'
  OBVIOUS
<1>1. ChainInv'
  BY ChainStep DEF DetectionInv
<1> SUFFICES InnerEditDetected'
  BY <1>1 DEF DetectionInv
<1> USE DEF DetectionInv, ChainInv
<1> SUFFICES ASSUME ~overlapped', edit' = "inner" PROVE ~Intact(log)'
  BY DEF InnerEditDetected
<1>2. CASE Commands
  <2>1. PICK w \in Writers : Steps(w)
    BY <1>2 DEF Commands
  <2>2. ~overlapped /\ edit = "inner"
    BY <2>1 DEF Steps, Read, ReadFails, Write, Tear, Crash, Restart, TypeOK
  <2>3. ~Intact(log)
    BY <2>2 DEF InnerEditDetected
  <2>4. \/ log' = log
        \/ \E line \in Line : log' = Append(log, line)
        \/ unended /\ log' = SpoilLast
    BY <2>1, CommandWrites
  <2>5. CASE log' = log
    BY <2>3, <2>5 DEF Intact, Readable, Numbered, Linked, Sealed
  <2>6. CASE \E line \in Line : log' = Append(log, line)
    <3>1. PICK line \in Line : log' = Append(log, line)
      BY <2>6
    <3>2. ~Intact(Append(log, line))
      BY <2>3, BrokenStaysBroken DEF TypeOK, Line
    <3> QED
      BY <3>1, <3>2 DEF Intact, Readable, Numbered, Linked, Sealed
  <2>7. CASE unended /\ log' = SpoilLast
    <3>1. Len(log) \in 1..Len(log') /\ log'[Len(log)] \in Damage
      BY <2>7, SpoiltLog DEF Spoilt, Damage
    <3> QED
      BY <3>1 DEF Intact, Readable
  <2> QED
    BY <2>4, <2>5, <2>6, <2>7
<1>3. CASE Tamper
  <2>1. edit = "none" /\ ~overlapped /\ Readable(log)
    <3>1. PICK kind, l : ByHand(kind, l)
      BY <1>3 DEF Tamper, EditLine, SwapLines, DropLine
    <3> QED
      BY <1>3, <3>1 DEF Tamper, ByHand
  <2>2. Intact(log) /\ log \in Seq(Line)
    BY <2>1 DEF IntactUnlessDisturbed, TypeOK, Line
  <2>3. ASSUME NEW i \in 1..Len(log), NEW event \in Events, EditLine(i, event)
        PROVE  ~Intact(log')
    <3>1. event # log[i].event /\ log' = [log EXCEPT ![i].event = event]
      BY <2>3 DEF EditLine, ByHand
    <3> QED
      BY <2>2, <3>1, EditedLineIsSeen
  <2>4. ASSUME NEW i \in 1..Len(log), NEW j \in 1..Len(log), SwapLines(i, j)
        PROVE  ~Intact(log')
    <3>1. i < j /\ log' = [log EXCEPT ![i] = log[j], ![j] = log[i]]
      BY <2>4 DEF SwapLines, ByHand
    <3> QED
      BY <2>2, <3>1, SwappedLinesAreSeen
  <2>5. ASSUME NEW i \in 1..Len(log), DropLine(i) PROVE ~Intact(log')
    <3>1. i < Len(log) /\ log' = RemoveLine(log, i)
      BY <2>5 DEF DropLine, ByHand
    <3> QED
      BY <2>2, <3>1, MissingLineIsSeen
  <2>6. ~Intact(log')
    BY <1>3, <2>3, <2>4, <2>5 DEF Tamper
  <2> QED
    BY <2>6 DEF Intact, Readable, Numbered, Linked, Sealed
<1>4. CASE UNCHANGED vars
  BY <1>4 DEF vars, InnerEditDetected, Intact, Readable, Numbered, Linked, Sealed
<1> QED
  BY <1>2, <1>3, <1>4 DEF Next

\* verify_log, after a line was edited, two lines were exchanged or a line
\* before the last was removed: the log never verifies again.
THEOREM InnerEditsAreDetected == Spec => []InnerEditDetected
<1>1. Init => DetectionInv
  BY ChainInit DEF DetectionInv, InnerEditDetected, Init
<1>2. DetectionInv => InnerEditDetected
  BY DEF DetectionInv
<1> QED
  BY <1>1, <1>2, DetectionStep, PTL DEF Spec

-----------------------------------------------------------------------------
(* Damage is the last line.                                                *)

\* As long as nobody overlaps, what a command has read is still all there is
\* when it writes: the log it appends to is readable.
ReaderSawAll ==
    ~overlapped => \A w \in Writers : pc[w] = "append" => Readable(log)

DamageInv == TypeOK /\ OneInside /\ ReaderSawAll /\ DamageIsLast

\* A command keeps damage at the end: it reads nothing but a readable log,
\* and writes one line behind what it has read.
LEMMA CommandKeepsDamageLast ==
    ASSUME DamageInv, NEW w \in Writers, Steps(w)
    PROVE  ReaderSawAll' /\ DamageIsLast'
<1> USE DEF DamageInv
<1>1. CASE log' = log
  <2>1. \A v \in Writers : pc'[v] = "append" => pc[v] = "append" \/ Readable(log)
    BY <1>1 DEF Steps, Read, ReadFails, Write, Tear, Crash, Restart, TypeOK
  <2>2. overlapped => overlapped'
    BY DEF Steps, Read, ReadFails, Write, Tear, Crash, Restart
  <2>3. Readable(log)' <=> Readable(log)
    BY <1>1 DEF Readable
  <2> QED
    BY <1>1, <2>1, <2>2, <2>3 DEF ReaderSawAll, DamageIsLast, TypeOK
<1>2. CASE log' # log
  <2>1. Write(w) \/ Tear(w)
    BY <1>2 DEF Steps, Read, ReadFails, Crash, Restart
  <2>2. overlapped' = overlapped /\ pc[w] = "append" /\ \A v \in Writers \ {w} : pc'[v] = pc[v]
    BY <2>1 DEF Write, Tear, TypeOK
  <2>3. pc'[w] # "append"
    BY <2>1 DEF Write, Tear, TypeOK
  <2>4. ASSUME ~overlapped' PROVE \A v \in Writers : pc'[v] # "append"
    BY <2>2, <2>3, <2>4 DEF OneInside
  <2>5. ReaderSawAll'
    BY <2>4 DEF ReaderSawAll
  <2>6. ASSUME ~overlapped', NEW i \in 1..Len(log'), log'[i] \in Damage
        PROVE  i = Len(log')
    <3>1. Readable(log)
      BY <2>2, <2>6 DEF ReaderSawAll
    <3>2. CASE unended
      <4>1. /\ Len(log') = Len(log)
            /\ \A k \in 1..Len(log) : k # Len(log) => log'[k] = log[k]
        BY <2>1, <3>2, SpoiltLog DEF Write, Tear
      <4> QED
        BY <2>6, <3>1, <4>1 DEF Readable
    <3>3. CASE ~unended
      <4>1. PICK line \in Line : log' = Append(log, line)
        BY <1>2, <3>3, CommandWrites
      <4>2. Len(log') = Len(log) + 1 /\ \A k \in 1..Len(log) : log'[k] = log[k]
        BY <4>1, AppendProperties DEF TypeOK, Line
      <4>3. i \notin 1..Len(log)
        BY <2>6, <3>1, <4>2 DEF Readable
      <4> QED
        BY <4>2, <4>3, LenProperties DEF TypeOK
    <3> QED
      BY <3>2, <3>3
  <2> QED
    BY <2>5, <2>6 DEF DamageIsLast
<1> QED
  BY <1>1, <1>2

\* A change by hand is made to a readable log and leaves it readable.
LEMMA TamperKeepsReadable ==
    ASSUME TypeOK, Tamper
    PROVE  Readable(log')
<1> USE DEF TypeOK
<1>1. Readable(log) /\ \A i \in 1..Len(log) : log[i] \in Entry
  BY DEF Tamper, Readable
<1>2. Entry \cap Damage = {}
  BY DamageIsNoEntry
<1>3. ASSUME NEW i \in 1..Len(log), NEW event \in Events, EditLine(i, event)
      PROVE  Readable(log')
  <2>1. log' = [log EXCEPT ![i] = [log[i] EXCEPT !.event = event]]
    BY <1>3 DEF EditLine, ByHand
  <2>2. [log[i] EXCEPT !.event = event] \in Entry
    BY <1>1 DEF Entry
  <2>3. Len(log') = Len(log) /\ \A k \in 1..Len(log) : log'[k] \in Entry
    BY <1>1, <2>1, <2>2, ExceptSeq
  <2> QED
    BY <1>2, <2>3 DEF Readable
<1>4. ASSUME NEW i \in 1..Len(log), NEW j \in 1..Len(log), SwapLines(i, j)
      PROVE  Readable(log')
  <2>1. log' = [log EXCEPT ![i] = log[j], ![j] = log[i]]
    BY <1>4 DEF SwapLines, ByHand
  <2>2. Len(log') = Len(log) /\ \A k \in 1..Len(log) : log'[k] \in Entry
    BY <1>1, <2>1, LenProperties
  <2> QED
    BY <1>2, <2>2 DEF Readable
<1>5. ASSUME NEW i \in 1..Len(log), DropLine(i) PROVE Readable(log')
  <2>1. log' = RemoveLine(log, i)
    BY <1>5 DEF DropLine, ByHand
  <2>2. /\ Len(log') = Len(log) - 1 /\ Len(log) \in Nat
        /\ \A k \in 1..(Len(log) - 1) : log'[k] = IF k < i THEN log[k] ELSE log[k+1]
    BY <2>1, RemoveLineType, LenProperties DEF Line
  <2>3. \A k \in 1..Len(log') : log'[k] \in Entry
    BY <1>1, <2>2
  <2> QED
    BY <1>2, <2>3 DEF Readable
<1> QED
  BY <1>3, <1>4, <1>5 DEF Tamper

LEMMA DamageStep == DamageInv /\ ChainInv /\ [Next]_vars => DamageInv'
<1> SUFFICES ASSUME DamageInv, ChainInv, [Next]_vars PROVE DamageInv'
  OBVIOUS
<1>1. ChainInv'
  BY ChainStep
<1>2. TypeOK' /\ OneInside'
  BY <1>1 DEF ChainInv
<1>3. CASE Commands
  BY <1>2, <1>3, CommandKeepsDamageLast DEF Commands, DamageInv
<1>4. CASE Tamper
  <2>1. Readable(log)'
    BY <1>4, TamperKeepsReadable DEF DamageInv, Readable
  <2> QED
    BY <1>2, <2>1 DEF DamageInv, ReaderSawAll, DamageIsLast, Readable
<1>5. CASE UNCHANGED vars
  BY <1>2, <1>5 DEF vars, DamageInv, ReaderSawAll, DamageIsLast, Readable
<1> QED
  BY <1>3, <1>4, <1>5 DEF Next

LEMMA DamageInit == Init => DamageInv
<1> SUFFICES ASSUME Init PROVE DamageInv
  OBVIOUS
<1>1. TypeOK /\ OneInside
  BY ChainInit DEF ChainInv
<1>2. Len(log) = 0 /\ \A w \in Writers : pc[w] # "append"
  BY DEF Init
<1> QED
  BY <1>1, <1>2 DEF DamageInv, ReaderSawAll, DamageIsLast

LEMMA DamageAlways == Spec => []DamageInv
BY DamageInit, DamageStep, ChainAlways, PTL DEF Spec

\* append_event behind read_log: no entry is ever appended behind an
\* unreadable line unless two appends overlapped.
THEOREM DamageStaysLast == Spec => []DamageIsLast
<1>1. DamageInv => DamageIsLast
  BY DEF DamageInv
<1> QED
  BY <1>1, DamageAlways, PTL

-----------------------------------------------------------------------------
(* Commands can fork the chain but never lose what it was built on.        *)

\* What ExtendsEarlierLine says of a line, said of any entry and the first n
\* lines of a log.
Extends(l, n, entry) ==
    \/ entry.seq = 1 /\ entry.prev = GENESIS
    \/ \E j \in 1..n :
          \/ l[j] = Joined
          \/ /\ l[j] \notin Damage
             /\ entry.prev = l[j].hash
             /\ entry.seq = l[j].seq + 1

\* The entry in a command's memory extends a line of the log, however many
\* others have appended since it was read.
PendingExtends ==
    edit = "none" =>
        \A w \in Writers : pc[w] = "append" => Extends(log, Len(log), pending[w])

ForkInv == TypeOK /\ PendingExtends /\ EveryEntryExtendsAnEarlierLine

\* An entry built from a readable log extends its last line.
LEMMA NewEntryExtends ==
    ASSUME NEW l \in Seq(Line), Readable(l), NEW event \in Events
    PROVE  Extends(l, Len(l), NewEntry(l, event))
<1>1. CASE l = <<>>
  BY <1>1 DEF NewEntry, Extends
<1>2. CASE l # <<>>
  <2>1. Len(l) \in 1..Len(l)
    BY <1>2, LenProperties, EmptySeq
  <2>2. l[Len(l)] \notin Damage
    BY <2>1 DEF Readable
  <2> QED
    BY <1>2, <2>1, <2>2 DEF NewEntry, Extends
<1> QED
  BY <1>1, <1>2

\* What extends a log extends it also when it has grown, or when its last
\* line has been spoilt.
LEMMA ExtendsIsKept ==
    ASSUME NEW l \in Seq(Line), NEW m \in Seq(Line), Len(l) <= Len(m),
           \A k \in 1..Len(l) : l[k] \notin Damage => m[k] \in {l[k], Joined},
           \A k \in 1..Len(l) : l[k] = Joined => m[k] = Joined,
           NEW n \in 0..Len(l), NEW entry, Extends(l, n, entry)
    PROVE  Extends(m, n, entry)
<1>1. \A k \in 1..n : k \in 1..Len(l)
  BY LenProperties
<1> QED
  BY <1>1 DEF Extends

LEMMA ForkStep == ForkInv /\ [Next]_vars => ForkInv'
<1> SUFFICES ASSUME ForkInv, [Next]_vars PROVE ForkInv'
  OBVIOUS
<1> USE DEF ForkInv
<1>1. TypeOK'
  BY TypeStep
<1>2. log \in Seq(Line) /\ log' \in Seq(Line) /\ Len(log) \in Nat /\ Len(log') \in Nat
  BY <1>1, LenProperties DEF TypeOK, Line
<1>3. CASE Commands
  <2>1. PICK w \in Writers : Steps(w)
    BY <1>3 DEF Commands
  <2>2. edit' = edit
    BY <2>1 DEF Steps, Read, ReadFails, Write, Tear, Crash, Restart
  <2>3. \/ log' = log
        \/ \E line \in Line : /\ log' = Append(log, line)
                              /\ line \notin Damage => pc[w] = "append" /\ line = pending[w]
        \/ unended /\ log' = SpoilLast
    BY <2>1, CommandWrites
  <2>4. /\ Len(log) <= Len(log')
        /\ \A k \in 1..Len(log) : log[k] \notin Damage => log'[k] \in {log[k], Joined}
        /\ \A k \in 1..Len(log) : log[k] = Joined => log'[k] = Joined
        /\ \A k \in 1..Len(log) : log'[k] \notin Damage => log'[k] = log[k]
    <3>1. CASE log' = log
      BY <1>2, <3>1
    <3>2. CASE \E line \in Line : log' = Append(log, line)
      BY <1>2, <3>2, AppendProperties
    <3>3. CASE unended /\ log' = SpoilLast
      <4>1. /\ Len(log') = Len(log)
            /\ \A k \in 1..Len(log) : log'[k] = IF k = Len(log) THEN Spoilt(log[k]) ELSE log[k]
        BY <3>3, SpoiltLog
      <4>2. \A line : Spoilt(line) \in Damage /\ (line \notin Damage => Spoilt(line) = Joined)
        BY DEF Spoilt, Damage
      <4>3. Spoilt(Joined) = Joined
        BY DamageAssumption DEF Spoilt
      <4> QED
        BY <1>2, <4>1, <4>2, <4>3
    <3> QED
      BY <2>3, <3>1, <3>2, <3>3
  <2>5. ASSUME NEW n \in 0..Len(log), NEW entry, Extends(log, n, entry)
        PROVE  Extends(log', n, entry)
    BY <1>2, <2>4, <2>5, ExtendsIsKept
  <2>6. ASSUME NEW entry, Extends(log, Len(log), entry)
        PROVE  Extends(log', Len(log'), entry)
    <3>1. Extends(log', Len(log), entry)
      BY <1>2, <2>5, <2>6
    <3>2. \A k \in 1..Len(log) : k \in 1..Len(log')
      BY <1>2, <2>4
    <3> QED
      BY <3>1, <3>2 DEF Extends
  <2>7. ASSUME edit' = "none", NEW v \in Writers, pc'[v] = "append"
        PROVE  Extends(log', Len(log'), pending'[v])
    <3>1. CASE pc[v] = "append"
      <4>1. pending'[v] = pending[v]
        BY <2>1, <2>7, <3>1 DEF Steps, Read, ReadFails, Write, Tear, Crash, Restart, TypeOK
      <4> QED
        BY <2>2, <2>6, <2>7, <3>1, <4>1 DEF PendingExtends
    <3>2. CASE pc[v] # "append"
      <4>1. PICK event \in Events : Read(v, event)
        BY <2>1, <2>7, <3>2 DEF Steps, Read, ReadFails, Write, Tear, Crash, Restart, TypeOK
      <4>2. pending'[v] = NewEntry(log, event) /\ log' = log /\ Readable(log)
        BY <4>1 DEF Read, TypeOK
      <4> QED
        BY <1>2, <4>2, NewEntryExtends
    <3> QED
      BY <3>1, <3>2
  <2>8. PendingExtends'
    BY <2>7 DEF PendingExtends, Extends
  <2>9. ASSUME edit' = "none", NEW i \in 1..Len(log'), log'[i] \notin Damage
        PROVE  Extends(log', i - 1, log'[i])
    <3>1. CASE i \in 1..Len(log)
      <4>1. log'[i] = log[i] /\ log[i] \notin Damage
        BY <2>4, <2>9, <3>1
      <4>2. Extends(log, i - 1, log[i])
        BY <2>2, <2>9, <3>1, <4>1 DEF EveryEntryExtendsAnEarlierLine, ExtendsEarlierLine, Extends
      <4>3. i - 1 \in 0..Len(log)
        BY <1>2, <3>1
      <4> QED
        BY <2>5, <4>1, <4>2, <4>3
    <3>2. CASE i \notin 1..Len(log)
      <4>1. PICK line \in Line : /\ log' = Append(log, line)
                                 /\ line \notin Damage => pc[w] = "append" /\ line = pending[w]
        <5>1. CASE log' = log
          BY <2>9, <3>2, <5>1
        <5>2. CASE unended /\ log' = SpoilLast
          <6>1. Len(log') = Len(log)
            BY <5>2, SpoiltLog
          <6> QED
            BY <2>9, <3>2, <6>1
        <5> QED
          BY <2>3, <5>1, <5>2
      <4>2. i = Len(log) + 1 /\ log'[i] = line
        BY <1>2, <2>9, <3>2, <4>1, AppendProperties
      <4>3. pc[w] = "append" /\ log'[i] = pending[w]
        BY <2>9, <4>1, <4>2
      <4>4. Extends(log, Len(log), pending[w])
        BY <2>2, <2>9, <4>3 DEF PendingExtends
      <4>5. Len(log) \in 0..Len(log) /\ i - 1 = Len(log)
        BY <1>2, <4>2
      <4> QED
        BY <2>5, <4>3, <4>4, <4>5
    <3> QED
      BY <3>1, <3>2
  <2>10. EveryEntryExtendsAnEarlierLine'
    BY <2>9 DEF EveryEntryExtendsAnEarlierLine, ExtendsEarlierLine, Extends
  <2> QED
    BY <1>1, <2>8, <2>10
<1>4. CASE Tamper
  <2>1. edit' # "none"
    BY <1>4 DEF Tamper, EditLine, SwapLines, DropLine, ByHand
  <2> QED
    BY <1>1, <2>1 DEF PendingExtends, EveryEntryExtendsAnEarlierLine
<1>5. CASE UNCHANGED vars
  BY <1>1, <1>5 DEF vars, PendingExtends, Extends, EveryEntryExtendsAnEarlierLine,
     ExtendsEarlierLine
<1> QED
  BY <1>3, <1>4, <1>5 DEF Next

LEMMA ForkInit == Init => ForkInv
<1> SUFFICES ASSUME Init PROVE ForkInv
  OBVIOUS
<1>1. TypeOK
  BY TypeCorrectInit
<1>2. Len(log) = 0 /\ \A w \in Writers : pc[w] # "append"
  BY DEF Init
<1> QED
  BY <1>1, <1>2 DEF ForkInv, PendingExtends, EveryEntryExtendsAnEarlierLine

\* append_event, overlapping in any way: every entry in the file was built
\* on a line that stands before it.
THEOREM EntriesExtendEarlierLines == Spec => []EveryEntryExtendsAnEarlierLine
<1>1. ForkInv => EveryEntryExtendsAnEarlierLine
  BY DEF ForkInv
<1> QED
  BY <1>1, ForkInit, ForkStep, PTL DEF Spec

-----------------------------------------------------------------------------
(* AuditLog implements EventLog.                                           *)

\* The places of the entries that can be read.
Places == {k \in 1..Len(log) : log[k] \notin Damage}

\* As long as nothing is disturbed, these places are an initial segment, and
\* what is recorded there is a sequence of numbered events.
LEMMA RecordedIsSequence ==
    ASSUME TypeOK, DamageIsLast, ~overlapped
    PROVE  \E n \in {Len(log), Len(log) - 1} :
              /\ n \in Nat
              /\ Places = 1..n
              /\ n = IF Readable(log) THEN Len(log) ELSE Len(log) - 1
              /\ RecordedEvents \in Seq([seq : Nat, event : Events])
              /\ Len(RecordedEvents) = n
<1> USE DEF TypeOK
<1> DEFINE n == IF Readable(log) THEN Len(log) ELSE Len(log) - 1
<1>1. Len(log) \in Nat
  BY LenProperties
<1>2. n \in {Len(log), Len(log) - 1} /\ n \in Nat /\ Places = 1..n
  <2>1. CASE Readable(log)
    BY <1>1, <2>1 DEF Readable, Places
  <2>2. CASE ~Readable(log)
    <3>1. PICK i \in 1..Len(log) : log[i] \in Damage
      BY <2>2 DEF Readable
    <3>2. i = Len(log)
      BY <3>1 DEF DamageIsLast
    <3>3. \A k \in 1..Len(log) : k # Len(log) => log[k] \notin Damage
      BY DEF DamageIsLast
    <3>4. \A k : k \in Places <=> k \in 1..(Len(log) - 1)
      BY <1>1, <3>1, <3>2, <3>3 DEF Places
    <3>5. Places = 1..(Len(log) - 1)
      BY <3>4
    <3>6. Len(log) - 1 \in Nat
      BY <1>1, <3>1
    <3> QED
      BY <2>2, <3>5, <3>6
  <2> QED
    BY <2>1, <2>2
<1>3. \A k \in Places : [seq |-> log[k].seq, event |-> log[k].event] \in [seq : Nat, event : Events]
  BY DEF Places, Entry
<1>4. RecordedEvents = [k \in 1..n |-> [seq |-> log[k].seq, event |-> log[k].event]]
  BY <1>2 DEF RecordedEvents, Places
<1> HIDE DEF n
<1>5. RecordedEvents \in [1..n -> [seq : Nat, event : Events]]
  BY <1>2, <1>3, <1>4
<1>6. RecordedEvents \in Seq([seq : Nat, event : Events])
  <2> DEFINE Pairs == [seq : Nat, event : Events]
  <2> HIDE DEF Pairs
  <2>1. n \in Nat /\ RecordedEvents \in [1..n -> Pairs]
    BY <1>2, <1>5 DEF Pairs
  <2>2. RecordedEvents \in Seq(Pairs)
    BY <2>1
  <2> QED
    BY <2>2 DEF Pairs
<1>7. Len(RecordedEvents) = n
  BY <1>2, <1>5, <1>6, LenProperties
<1> QED
  BY <1>2, <1>6, <1>7 DEF n

\* RecordedEvents after a line that can be read was written behind a log that
\* can be read.
LEMMA RecordedGrows ==
    ASSUME TypeOK, DamageIsLast, ~overlapped, Readable(log),
           NEW entry \in Entry, log' = Append(log, entry)
    PROVE  RecordedEvents' = Append(RecordedEvents, [seq |-> entry.seq, event |-> entry.event])
<1> USE DEF TypeOK
<1> DEFINE pair(x) == [seq |-> x.seq, event |-> x.event]
           old == RecordedEvents
           longer == Append(old, pair(entry))
           Pairs == [seq : Nat, event : Events]
<1>1. Len(log) \in Nat /\ Places = 1..Len(log) /\ old \in Seq(Pairs) /\ Len(old) = Len(log)
  BY RecordedIsSequence, LenProperties
<1>2. entry \notin Damage /\ pair(entry) \in Pairs
  BY DamageIsNoEntry DEF Entry
<1>3. /\ Len(log') = Len(log) + 1
      /\ log'[Len(log) + 1] = entry
      /\ \A k \in 1..Len(log) : log'[k] = log[k]
  BY AppendProperties
<1>4. {k \in 1..Len(log') : log'[k] \notin Damage} = 1..(Len(log) + 1)
  BY <1>1, <1>2, <1>3 DEF Readable
<1>5. RecordedEvents' = [k \in 1..(Len(log) + 1) |-> pair(log'[k])]
  BY <1>4 DEF RecordedEvents
<1>6. /\ longer \in Seq(Pairs)
      /\ Len(longer) = Len(log) + 1
      /\ longer[Len(log) + 1] = pair(entry)
      /\ \A k \in 1..Len(log) : longer[k] = old[k]
  <2>1. Len(log) = Len(old) /\ old \in Seq(Pairs) /\ pair(entry) \in Pairs
    BY <1>1, <1>2
  <2> HIDE DEF old, pair, Pairs
  <2> QED
    BY <2>1, AppendProperties
<1>7. \A k \in 1..Len(log) : old[k] = pair(log[k])
  BY <1>1 DEF RecordedEvents, Places
<1>8. \A k \in 1..(Len(log) + 1) : longer[k] = pair(log'[k])
  <2> HIDE DEF old, longer
  <2> SUFFICES ASSUME NEW k \in 1..(Len(log) + 1) PROVE longer[k] = pair(log'[k])
    OBVIOUS
  <2>1. CASE k = Len(log) + 1
    BY <1>3, <1>6, <2>1
  <2>2. CASE k \in 1..Len(log)
    BY <1>3, <1>6, <1>7, <2>2
  <2> QED
    BY <1>1, <2>1, <2>2
<1>9. longer = [k \in 1..(Len(log) + 1) |-> pair(log'[k])]
  <2> HIDE DEF old, pair, Pairs, longer
  <2>1. longer \in [1..(Len(log) + 1) -> Pairs]
    BY <1>6, LenProperties
  <2> QED
    BY <1>8, <2>1
<1> QED
  BY <1>5, <1>9

\* A line more that cannot be read leaves what is recorded as it was.
LEMMA RecordedStays ==
    ASSUME TypeOK, \/ \E line \in Damage : log' = Append(log, line)
                   \/ log' = log
    PROVE  RecordedEvents' = RecordedEvents
<1> USE DEF TypeOK
<1>1. Len(log) \in Nat
  BY LenProperties
<1>2. CASE log' = log
  BY <1>2 DEF RecordedEvents
<1>3. CASE \E line \in Damage : log' = Append(log, line)
  <2>1. PICK line \in Damage : log' = Append(log, line)
    BY <1>3
  <2>2. /\ Len(log') = Len(log) + 1
        /\ log'[Len(log) + 1] = line
        /\ \A k \in 1..Len(log) : log'[k] = log[k]
    BY <2>1, AppendProperties
  <2>3. {k \in 1..Len(log') : log'[k] \notin Damage} = Places
    BY <1>1, <2>1, <2>2 DEF Places
  <2> QED
    BY <2>2, <2>3 DEF RecordedEvents, Places
<1> QED
  BY <1>2, <1>3

\* Writing behind a last entry that has no newline takes that entry away, and
\* no other.
LEMMA RecordedLosesItsLast ==
    ASSUME TypeOK, DamageIsLast, ~overlapped, Readable(log), unended, log' = SpoilLast
    PROVE  /\ RecordedEvents # <<>>
           /\ RecordedEvents' = SubSeq(RecordedEvents, 1, Len(RecordedEvents) - 1)
<1> DEFINE old == RecordedEvents
           n == Len(log)
           Pairs == [seq : Nat, event : Events]
<1>1. n \in 1..n /\ n \in Nat /\ Places = 1..n /\ old \in Seq(Pairs) /\ Len(old) = n
  BY RecordedIsSequence, SpoiltLog, LenProperties DEF TypeOK
<1>2. /\ Len(log') = n
      /\ log'[n] \in Damage
      /\ \A k \in 1..(n - 1) : log'[k] = log[k]
  BY <1>1, SpoiltLog DEF Spoilt, Damage
<1>3. \A k \in 1..n : log[k] \notin Damage
  BY <1>1 DEF Readable
<1>4. {k \in 1..Len(log') : log'[k] \notin Damage} = 1..(n - 1)
  <2>1. \A k \in 1..n : log'[k] \notin Damage <=> k # n
    BY <1>1, <1>2, <1>3
  <2> HIDE DEF n
  <2>2. {k \in 1..n : log'[k] \notin Damage} = 1..(n - 1)
    BY <1>1, <2>1
  <2> QED
    BY <1>2, <2>2
<1>5. RecordedEvents' = [k \in 1..(n - 1) |-> [seq |-> log'[k].seq, event |-> log'[k].event]]
  BY <1>4 DEF RecordedEvents
<1>6. \A k \in 1..(n - 1) : old[k] = [seq |-> log'[k].seq, event |-> log'[k].event]
  <2>1. \A k \in 1..(n - 1) : k \in Places
    BY <1>1
  <2> QED
    BY <1>2, <2>1 DEF RecordedEvents, Places
<1>7. RecordedEvents' = [k \in 1..(n - 1) |-> old[k]]
  <2> HIDE DEF old
  <2> QED
    BY <1>5, <1>6
<1>8. SubSeq(old, 1, Len(old) - 1) = [k \in 1..(n - 1) |-> old[k]]
  <2> HIDE DEF old, Pairs
  <2>1. Len(old) - 1 = n - 1 /\ n - 1 \in Nat
    BY <1>1
  <2>2. SubSeq(old, 1, n - 1) = [k \in 1..(n - 1) |-> old[k]]
    BY <1>1, <2>1, SubSeqProperties
  <2> QED
    BY <2>1, <2>2
<1>9. old # <<>>
  <2> HIDE DEF old, Pairs
  <2> QED
    BY <1>1, EmptySeq
<1> QED
  BY <1>7, <1>8, <1>9

RecordInv == ChainInv /\ DamageInv

\* The first state of AuditLog is the first state of EventLog.
LEMMA RecordInit == Init => RECORD!Init
<1> SUFFICES ASSUME Init PROVE RecordedEvents = <<>> /\ Readable(log) /\ ~Disturbed
  BY DEF Init, RECORD!Init, Disturbed
<1>1. Len(log) = 0
  BY DEF Init
<1>2. {k \in 1..Len(log) : log[k] \notin Damage} = {}
  BY <1>1
<1> QED
  BY <1>1, <1>2 DEF Init, RecordedEvents, Readable, Disturbed

\* Every step of AuditLog records an event, closes the log, ends the promise
\* or is none of EventLog's.
LEMMA RecordStep ==
    RecordInv /\ RecordInv' /\ [Next]_vars
    => [RECORD!Next]_<<IF Disturbed THEN Void ELSE RecordedEvents,
                       Disturbed \/ ~Readable(log)>>
<1> DEFINE mapped == IF Disturbed THEN Void ELSE RecordedEvents
           closed == Disturbed \/ ~Readable(log)
<1> SUFFICES ASSUME RecordInv, RecordInv', [Next]_vars
             PROVE  RECORD!Next \/ (mapped' = mapped /\ closed' = closed)
  OBVIOUS
<1>1. CASE Disturbed'
  BY <1>1 DEF RECORD!Next, RECORD!Disturb
<1>2. CASE ~Disturbed'
  <2>1. ~Tamper
    BY <1>2 DEF Tamper, EditLine, SwapLines, DropLine, ByHand, Disturbed
  <2>2. CASE UNCHANGED vars
    BY <2>2 DEF vars, RecordedEvents, Disturbed, Readable
  <2>3. CASE Commands
    <3>1. PICK w \in Writers : Steps(w)
      BY <2>3 DEF Commands
    <3>2. ~Disturbed
      BY <1>2, <3>1 DEF Steps, Read, ReadFails, Write, Tear, Crash, Restart, RecordInv,
         ChainInv, TypeOK, Disturbed
    <3>3. TypeOK /\ DamageIsLast /\ ~overlapped /\ edit = "none"
      BY <3>2 DEF RecordInv, DamageInv, Disturbed
    <3>4. mapped = RecordedEvents /\ mapped' = RecordedEvents'
      BY <1>2, <3>2
    <3>5. closed = ~Readable(log) /\ closed' = ~Readable(log')
      BY <1>2, <3>2 DEF Readable
    <3>6. pc[w] = "append" => Readable(log) /\ pending[w] \in Entry
      BY <3>3 DEF RecordInv, DamageInv, ReaderSawAll, TypeOK
    <3>7. CASE log' = log
      BY <3>3, <3>4, <3>5, <3>7, RecordedStays
    <3>8. CASE pc[w] = "append" /\ log' = Append(log, pending[w])
      <4>1. pending[w].seq = Len(log) + 1 /\ pending[w].event \in Events
        BY <3>3, <3>6, <3>8 DEF RecordInv, ChainInv, PendingFits, NextEntry, Entry
      <4>2. Len(RecordedEvents) = Len(log)
        BY <3>3, <3>6, <3>8, RecordedIsSequence
      <4>3. RecordedEvents' = Append(RecordedEvents, [seq |-> Len(RecordedEvents) + 1,
                                                     event |-> pending[w].event])
        BY <3>3, <3>6, <3>8, <4>1, <4>2, RecordedGrows
      <4>4. Readable(log')
        <5>1. /\ Len(log') = Len(log) + 1 /\ Len(log) \in Nat
              /\ log'[Len(log) + 1] = pending[w]
              /\ \A k \in 1..Len(log) : log'[k] = log[k]
          BY <3>3, <3>6, <3>8, AppendProperties, LenProperties DEF TypeOK
        <5>2. pending[w] \notin Damage
          BY <3>6, <3>8, DamageIsNoEntry
        <5> QED
          BY <3>6, <3>8, <5>1, <5>2 DEF Readable
      <4>5. RECORD!Record(pending[w].event)
        BY <3>2, <3>4, <3>6, <3>8, <4>3, <4>4, <1>2 DEF RECORD!Record, Readable
      <4> QED
        BY <4>1, <4>5 DEF RECORD!Next
    <3>9. CASE pc[w] = "append" /\ \E line \in Damage : log' = Append(log, line)
      <4>1. RecordedEvents' = RecordedEvents
        BY <3>3, <3>9, RecordedStays
      <4>2. ~Readable(log')
        <5>1. PICK line \in Damage : log' = Append(log, line)
          BY <3>9
        <5>2. Len(log) + 1 \in 1..Len(log') /\ log'[Len(log) + 1] = line
          BY <3>3, <5>1, AppendProperties, LenProperties DEF TypeOK
        <5> QED
          BY <5>1, <5>2 DEF Readable
      <4>3. RECORD!Close
        BY <3>2, <3>4, <3>6, <3>9, <4>1, <4>2, <1>2 DEF RECORD!Close, Readable
      <4> QED
        BY <4>3 DEF RECORD!Next
    <3>10. CASE pc[w] = "append" /\ unended /\ log' = SpoilLast
      <4>1. /\ RecordedEvents # <<>>
            /\ RecordedEvents' = SubSeq(RecordedEvents, 1, Len(RecordedEvents) - 1)
        BY <3>3, <3>6, <3>10, RecordedLosesItsLast
      <4>2. ~Readable(log')
        BY <3>3, <3>10, SpoiltLog DEF Readable, Spoilt, Damage
      <4>3. RECORD!Close
        BY <3>2, <3>4, <3>6, <3>10, <4>1, <4>2, <1>2 DEF RECORD!Close, Readable
      <4> QED
        BY <4>3 DEF RECORD!Next
    <3> QED
      BY <3>1, <3>3, <3>7, <3>8, <3>9, <3>10, CommandWrites
  <2> QED
    BY <2>1, <2>2, <2>3 DEF Next
<1> QED
  BY <1>1, <1>2

\* append_event, with crashes, splitting texts, overlaps and changes by hand:
\* until the log is disturbed, each of its steps records one numbered event
\* behind all others, or none, or ends the log at the cost of its last event.
THEOREM LogImplementsEventLog == Spec => ImplementsEventLog
<1>1. Spec => []RecordInv
  BY ChainAlways, DamageAlways, PTL DEF RecordInv
<1> QED
  BY <1>1, RecordInit, RecordStep, PTL DEF Spec, ImplementsEventLog, RECORD!Spec
=============================================================================
