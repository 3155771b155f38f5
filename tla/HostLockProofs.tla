--------------------------- MODULE HostLockProofs ---------------------------
(***************************************************************************)
(* Proofs about HostLock, for any compiles, names, answers and policies.   *)
(***************************************************************************)
EXTENDS HostLock, TLAPS

-----------------------------------------------------------------------------
(* Lemmas about pins.                                                      *)

\* Pins are a function from some of the names to addresses.
LEMMA PinsAreFunctions ==
    ASSUME NEW pins \in Pins
    PROVE  /\ DOMAIN pins \subseteq Hosts
           /\ pins \in [DOMAIN pins -> Addresses]
           /\ pins \notin {NoFile, Torn}
<1>1. PICK H \in SUBSET Hosts : pins \in [H -> Addresses]
  BY DEF Pins
<1>2. {NoFile, Torn} \cap [H -> Addresses] = {}
  BY <1>1, NamesAssumption
<1> QED
  BY <1>1, <1>2

\* No pins at all are pins.
LEMMA NoPinsType == NoPins \in Pins
<1>1. NoPins \in [{} -> Addresses]
  BY DEF NoPins
<1> QED
  BY <1>1 DEF Pins

\* An answer added to pins gives pins.
LEMMA AnswerType ==
    ASSUME NEW pins \in Pins, NEW h \in Hosts, NEW a \in Addresses
    PROVE  [g \in DOMAIN pins \cup {h} |-> IF g = h THEN a ELSE pins[g]] \in Pins
<1> DEFINE new == [g \in DOMAIN pins \cup {h} |-> IF g = h THEN a ELSE pins[g]]
           H == DOMAIN pins \cup {h}
<1>1. H \in SUBSET Hosts
  BY PinsAreFunctions
<1>2. new \in [H -> Addresses]
  BY PinsAreFunctions
<1> QED
  BY <1>1, <1>2 DEF Pins

\* The pins of some of the names are pins.
LEMMA RestrictionType ==
    ASSUME NEW pins \in Pins, NEW S
    PROVE  [h \in DOMAIN pins \cap S |-> pins[h]] \in Pins
<1> DEFINE new == [h \in DOMAIN pins \cap S |-> pins[h]]
           H == DOMAIN pins \cap S
<1>1. H \in SUBSET Hosts
  BY PinsAreFunctions
<1>2. new \in [H -> Addresses]
  BY PinsAreFunctions
<1> QED
  BY <1>1, <1>2 DEF Pins

\* What a compile reads is always pins.
LEMMA LoadedType == TypeOK => Loaded \in Pins
BY NoPinsType DEF TypeOK, Loaded

-----------------------------------------------------------------------------
(* Types.                                                                  *)

\* resolve_document_hosts, however compiles overlap and crash: a lock file is
\* pins, missing or torn, and what a compile holds in memory is pins.
THEOREM TypeCorrect == Spec => []TypeOK
<1>1. Init => TypeOK
  BY NoPinsType DEF Init, TypeOK
<1>2. TypeOK /\ [Next]_vars => TypeOK'
  <2> SUFFICES ASSUME TypeOK, [Next]_vars PROVE TypeOK'
    OBVIOUS
  <2>1. ASSUME NEW c \in Compiles, NEW m \in Modes, Start(c, m) PROVE TypeOK'
    <3>1. m \in {"literal", "resolve", "refresh"}
      BY ModesAssumption
    <3>2. PICK found \in NameSets :
             /\ names' = [names EXCEPT ![c] = found]
             /\ todo' = [todo EXCEPT ![c] = IF m = "literal" THEN {} ELSE found]
      BY <2>1 DEF Start
    <3>3. found \in SUBSET Hosts
      BY NameSetsAssumption
    <3>4. locked' \in [Compiles -> Pins]
      BY <2>1, LoadedType DEF Start, TypeOK
    <3>5. names' \in [Compiles -> SUBSET Hosts] /\ todo' \in [Compiles -> SUBSET Hosts]
      BY <3>2, <3>3 DEF TypeOK
    <3> QED
      BY <2>1, <3>1, <3>4, <3>5 DEF Start, TypeOK
  <2>2. ASSUME NEW c \in Compiles, Lookup(c) PROVE TypeOK'
    <3>1. PICK h \in todo[c] :
             /\ IF (Pinned(locked[c], h) /\ mode[c] # "refresh") \/ dns[h] = NoAnswer
                THEN UNCHANGED <<locked, changed>>
                ELSE /\ locked' = [locked EXCEPT ![c] =
                          [g \in DOMAIN locked[c] \cup {h} |->
                              IF g = h THEN dns[h] ELSE locked[c][g]]]
                     /\ changed' = [changed EXCEPT ![c] = TRUE]
             /\ todo' = [todo EXCEPT ![c] = @ \ {h}]
      BY <2>2 DEF Lookup
    <3>2. h \in Hosts
      BY DEF TypeOK
    <3>3. todo' \in [Compiles -> SUBSET Hosts]
      BY <3>1 DEF TypeOK
    <3>4. changed' \in [Compiles -> BOOLEAN]
      BY <3>1 DEF TypeOK
    <3>5. locked' \in [Compiles -> Pins]
      <4>1. CASE locked' = locked
        BY <4>1 DEF TypeOK
      <4>2. CASE locked' # locked
        <5>1. dns[h] \in Addresses /\ locked[c] \in Pins
          BY <3>1, <3>2, <4>2 DEF TypeOK
        <5>2. [g \in DOMAIN locked[c] \cup {h} |->
                  IF g = h THEN dns[h] ELSE locked[c][g]] \in Pins
          BY <3>2, <5>1, AnswerType
        <5> QED
          BY <3>1, <4>2, <5>2 DEF TypeOK
      <4> QED
        BY <4>1, <4>2
    <3> QED
      BY <2>2, <3>3, <3>4, <3>5 DEF Lookup, TypeOK
  <2>3. ASSUME NEW c \in Compiles, Truncate(c) PROVE TypeOK'
    BY <2>3 DEF Truncate, TypeOK, memory
  <2>4. ASSUME NEW c \in Compiles, WriteLock(c) PROVE TypeOK'
    <3>1. lock' \in Pins
      BY <2>4, RestrictionType DEF WriteLock, TypeOK
    <3> QED
      BY <2>4, <3>1 DEF WriteLock, TypeOK, memory
  <2>5. ASSUME NEW c \in Compiles, NothingNew(c) PROVE TypeOK'
    BY <2>5 DEF NothingNew, TypeOK, memory
  <2>6. ASSUME NEW c \in Compiles, Emit(c) PROVE TypeOK'
    <3>1. \A h \in Hosts : h \in DOMAIN locked[c] => locked[c][h] \in Addresses
      BY PinsAreFunctions DEF TypeOK
    <3>2. emitted' \in [Hosts -> Addresses \cup {Literal}]
      <4>1. ASSUME NEW h \in Hosts
            PROVE  (CASE h \notin names[c]                         -> emitted[h]
                      [] h \in names[c] \cap DOMAIN locked[c]      -> locked[c][h]
                      [] h \in names[c] /\ h \notin DOMAIN locked[c] -> Literal)
                      \in Addresses \cup {Literal}
        <5>1. CASE h \notin names[c]
          BY <5>1 DEF TypeOK
        <5>2. CASE h \in names[c] /\ h \in DOMAIN locked[c]
          BY <3>1, <5>2
        <5>3. CASE h \in names[c] /\ h \notin DOMAIN locked[c]
          BY <5>3
        <5> QED
          BY <5>1, <5>2, <5>3
      <4> QED
        BY <2>6, <4>1 DEF Emit
    <3> QED
      BY <2>6, <3>2, NoPinsType DEF Emit, Forget, TypeOK
  <2>7. ASSUME NEW c \in Compiles, Crash(c) PROVE TypeOK'
    BY <2>7, NoPinsType DEF Crash, Forget, TypeOK
  <2>8. ASSUME NEW h \in Hosts, DnsChanges(h) PROVE TypeOK'
    BY <2>8 DEF DnsChanges, TypeOK, memory
  <2>9. CASE UNCHANGED vars
    BY <2>9, LoadedType DEF vars, memory, TypeOK
  <2> QED
    BY <2>1, <2>2, <2>3, <2>4, <2>5, <2>6, <2>7, <2>8, <2>9 DEF Next, Step
<1> QED
  BY <1>1, <1>2, PTL DEF Spec

-----------------------------------------------------------------------------
(* Compiles that neither overlap nor crash nor drop pins of others.  What   *)
(* was used last is in the file while no answer is being written, and       *)
(* always in the memory of the compile that runs, except for the names it   *)
(* asks for again.                                                         *)

Used == {h \in Hosts : emitted[h] \in Addresses}

UsedIsPinned == \A h \in Used : h \in DOMAIN Loaded /\ Loaded[h] = emitted[h]

UsedIsInMemory(c) ==
    \A h \in Used : /\ h \in DOMAIN locked[c]
                    /\ locked[c][h] = emitted[h] \/ (mode[c] = "refresh" /\ h \in names[c])

AtLookup(c) == /\ UsedIsPinned
               /\ todo[c] \subseteq names[c]
               /\ changed[c] \/ locked[c] = Loaded

CompileInv(c) ==
    /\ pc[c] # "idle" => UsedIsInMemory(c)
    /\ pc[c] = "lookup" => AtLookup(c)
    /\ pc[c] = "writing" => DOMAIN locked[c] \subseteq names[c]
    /\ pc[c] = "emit" => locked[c] = Loaded

Alone == \A c, d \in Active : c = d

Quiet == /\ Alone
         /\ Active = {} => UsedIsPinned
         /\ \A c \in Compiles : CompileInv(c)

QuietInv == disturbed = {} => Quiet

\* A step of a compile that runs alone, after which none or only it runs,
\* leaves nothing to show but what concerns that compile.
LEMMA OnlyOneRuns ==
    ASSUME TypeOK, TypeOK', Alone, NEW c \in Active,
           \A d \in Compiles \ {c} : pc'[d] = pc[d],
           CompileInv(c)',
           pc'[c] = "idle" => UsedIsPinned'
    PROVE  Quiet'
<1>1. \A d \in Compiles \ {c} : pc'[d] = "idle"
  BY DEF Alone, Active
<1>2. Active' \subseteq {c} /\ c \in Compiles
  BY <1>1 DEF Active
<1>3. Alone'
  BY <1>2 DEF Alone
<1>4. Active' = {} => UsedIsPinned'
  BY <1>2 DEF Active
<1>5. \A d \in Compiles : CompileInv(d)'
  BY <1>1 DEF CompileInv
<1> QED
  BY <1>3, <1>4, <1>5 DEF Quiet

\* resolve_document_hosts, while nothing disturbs it: one compile at a time
\* finds every address in use in the file and carries it to the end.
THEOREM QuietCorrect == Spec => [](TypeOK /\ QuietInv)
<1>1. Init => QuietInv
  <2> SUFFICES ASSUME Init PROVE Quiet
    BY DEF QuietInv
  <2>1. Active = {}
    BY DEF Init, Active
  <2>2. Used = {}
    BY NamesAssumption DEF Init, Used
  <2> QED
    BY <2>1, <2>2 DEF Quiet, Alone, UsedIsPinned, CompileInv, Init
<1>2. TypeOK /\ TypeOK' /\ QuietInv /\ [Next]_vars => QuietInv'
  <2> SUFFICES ASSUME TypeOK, TypeOK', QuietInv, [Next]_vars, disturbed' = {}
               PROVE  Quiet'
    BY DEF QuietInv
  <2>1. disturbed = {}
    BY DEF Next, Step, Start, Lookup, Truncate, WriteLock, NothingNew, Emit, Crash,
           DnsChanges, vars
  <2>2. Quiet
    BY <2>1 DEF QuietInv
  <2>3. ASSUME NEW c \in Compiles, NEW m \in Modes, Start(c, m) PROVE Quiet'
    <3>1. Active = {}
      BY <2>3 DEF Start
    <3>2. UsedIsPinned
      BY <2>2, <3>1 DEF Quiet
    <3>3. Active' = {c}
      BY <2>3, <3>1 DEF Start, Active, TypeOK
    <3>4. Loaded' = Loaded /\ Used' = Used /\ emitted' = emitted
      BY <2>3 DEF Start, Loaded, Used
    <3>5. locked'[c] = Loaded /\ todo'[c] \subseteq names'[c] /\ changed'[c] = FALSE
      BY <2>3 DEF Start, TypeOK
    <3>6. UsedIsPinned'
      BY <3>2, <3>4 DEF UsedIsPinned
    <3>7. UsedIsInMemory(c)'
      BY <3>2, <3>4, <3>5 DEF UsedIsInMemory, UsedIsPinned
    <3>8. pc'[c] \in {"emit", "lookup"}
      BY <2>3 DEF Start, TypeOK
    <3>9. CompileInv(c)'
      BY <3>4, <3>5, <3>6, <3>7, <3>8 DEF CompileInv, AtLookup
    <3>10. \A d \in Compiles \ {c} : CompileInv(d)'
      BY <3>3 DEF Active, CompileInv
    <3> QED
      BY <3>3, <3>9, <3>10 DEF Quiet, Alone
  <2>4. ASSUME NEW c \in Compiles, Lookup(c) PROVE Quiet'
    <3>1. c \in Active /\ pc' = pc /\ pc[c] = "lookup"
      BY <2>4 DEF Lookup, Active
    <3>2. UsedIsInMemory(c) /\ AtLookup(c)
      BY <2>2, <3>1 DEF Quiet, CompileInv
    <3>3. Loaded' = Loaded /\ Used' = Used /\ emitted' = emitted /\ names' = names /\ mode' = mode
      BY <2>4 DEF Lookup, Loaded, Used
    <3>4. PICK h \in todo[c] :
             /\ IF (Pinned(locked[c], h) /\ mode[c] # "refresh") \/ dns[h] = NoAnswer
                THEN UNCHANGED <<locked, changed>>
                ELSE /\ locked' = [locked EXCEPT ![c] =
                          [g \in DOMAIN locked[c] \cup {h} |->
                              IF g = h THEN dns[h] ELSE locked[c][g]]]
                     /\ changed' = [changed EXCEPT ![c] = TRUE]
             /\ todo' = [todo EXCEPT ![c] = @ \ {h}]
      BY <2>4 DEF Lookup
    <3>5. todo'[c] \subseteq names'[c] /\ h \in names[c]
      BY <3>2, <3>3, <3>4 DEF AtLookup, TypeOK
    <3>6. changed'[c] \/ locked'[c] = Loaded'
      BY <3>2, <3>3, <3>4 DEF AtLookup, TypeOK
    <3>7. UsedIsPinned'
      BY <3>2, <3>3 DEF AtLookup, UsedIsPinned
    <3>8. UsedIsInMemory(c)'
      <4>1. CASE locked' = locked
        BY <3>2, <3>3, <4>1 DEF UsedIsInMemory
      <4>2. CASE locked' # locked
        <5>1. /\ locked'[c] = [g \in DOMAIN locked[c] \cup {h} |->
                                  IF g = h THEN dns[h] ELSE locked[c][g]]
              /\ ~(Pinned(locked[c], h) /\ mode[c] # "refresh")
          BY <3>4, <4>2 DEF TypeOK
        <5>2. \A g \in Used : g # h => g \in DOMAIN locked'[c] /\ locked'[c][g] = locked[c][g]
          BY <3>2, <5>1 DEF UsedIsInMemory
        <5>3. h \in Used => h \in DOMAIN locked'[c] /\ mode[c] = "refresh"
          BY <3>2, <5>1 DEF UsedIsInMemory, Pinned
        <5> QED
          BY <3>2, <3>3, <3>5, <5>2, <5>3 DEF UsedIsInMemory
      <4> QED
        BY <4>1, <4>2
    <3>9. CompileInv(c)'
      BY <3>1, <3>5, <3>6, <3>7, <3>8 DEF CompileInv, AtLookup
    <3> QED
      BY <2>2, <3>1, <3>9, OnlyOneRuns DEF Quiet
  <2>5. ASSUME NEW c \in Compiles, Truncate(c) PROVE Quiet'
    <3>1. c \in Active /\ pc[c] = "lookup" /\ pc' = [pc EXCEPT ![c] = "writing"]
      BY <2>5 DEF Truncate, Active
    <3>2. DOMAIN locked[c] \subseteq names[c] /\ UNCHANGED <<memory, emitted>>
      BY <2>5 DEF Truncate
    <3>3. UsedIsInMemory(c)
      BY <2>2, <3>1 DEF Quiet, CompileInv
    <3>4. UsedIsInMemory(c)'
      BY <3>2, <3>3 DEF UsedIsInMemory, Used, memory
    <3>5. CompileInv(c)' /\ pc'[c] = "writing"
      BY <3>1, <3>2, <3>4 DEF CompileInv, TypeOK, memory
    <3> QED
      BY <2>2, <3>1, <3>5, OnlyOneRuns DEF Quiet, TypeOK
  <2>6. ASSUME NEW c \in Compiles, WriteLock(c) PROVE Quiet'
    <3>1. c \in Active /\ pc[c] = "writing" /\ pc' = [pc EXCEPT ![c] = "emit"]
      BY <2>6 DEF WriteLock, Active
    <3>2. UNCHANGED <<memory, emitted>>
      BY <2>6 DEF WriteLock
    <3>3. UsedIsInMemory(c) /\ DOMAIN locked[c] \subseteq names[c]
      BY <2>2, <3>1 DEF Quiet, CompileInv
    <3>4. UsedIsInMemory(c)'
      BY <3>2, <3>3 DEF UsedIsInMemory, Used, memory
    <3>5. lock' = locked[c]
      <4>1. DOMAIN locked[c] \cap names[c] = DOMAIN locked[c]
        BY <3>3
      <4>2. locked[c] \in [DOMAIN locked[c] -> Addresses]
        BY PinsAreFunctions DEF TypeOK
      <4> QED
        BY <2>6, <4>1, <4>2 DEF WriteLock
    <3>6. Loaded' = locked'[c]
      <4>1. locked[c] \notin {NoFile, Torn}
        BY PinsAreFunctions DEF TypeOK
      <4> QED
        BY <3>2, <3>5, <4>1 DEF Loaded, memory
    <3>7. CompileInv(c)' /\ pc'[c] = "emit"
      BY <3>1, <3>4, <3>6 DEF CompileInv, TypeOK
    <3> QED
      BY <2>2, <3>1, <3>7, OnlyOneRuns DEF Quiet, TypeOK
  <2>7. ASSUME NEW c \in Compiles, NothingNew(c) PROVE Quiet'
    <3>1. c \in Active /\ pc[c] = "lookup" /\ pc' = [pc EXCEPT ![c] = "emit"] /\ ~changed[c]
      BY <2>7 DEF NothingNew, Active
    <3>2. UNCHANGED <<lock, memory, emitted>>
      BY <2>7 DEF NothingNew
    <3>3. UsedIsInMemory(c) /\ locked[c] = Loaded
      BY <2>2, <3>1 DEF Quiet, CompileInv, AtLookup
    <3>4. UsedIsInMemory(c)' /\ locked'[c] = Loaded'
      BY <3>2, <3>3 DEF UsedIsInMemory, Used, memory, Loaded
    <3>5. CompileInv(c)' /\ pc'[c] = "emit"
      BY <3>1, <3>4 DEF CompileInv, TypeOK
    <3> QED
      BY <2>2, <3>1, <3>5, OnlyOneRuns DEF Quiet, TypeOK
  <2>8. ASSUME NEW c \in Compiles, Emit(c) PROVE Quiet'
    <3>1. c \in Active /\ pc[c] = "emit" /\ pc' = [pc EXCEPT ![c] = "idle"]
      BY <2>8 DEF Emit, Active
    <3>2. UsedIsInMemory(c) /\ locked[c] = Loaded
      BY <2>2, <3>1 DEF Quiet, CompileInv
    <3>3. Loaded' = Loaded
      BY <2>8 DEF Emit, Loaded
    <3>4. ASSUME NEW h \in Used' PROVE h \in DOMAIN Loaded /\ Loaded[h] = emitted'[h]
      <4>1. h \in Hosts /\ emitted'[h] \in Addresses
        BY <3>4 DEF Used
      <4>2. CASE h \notin names[c]
        <5>1. emitted'[h] = emitted[h]
          BY <2>8, <4>1, <4>2 DEF Emit
        <5> QED
          BY <3>2, <4>1, <4>2, <5>1 DEF UsedIsInMemory, Used
      <4>3. CASE h \in names[c] \cap DOMAIN locked[c]
        BY <2>8, <3>2, <4>1, <4>3 DEF Emit
      <4>4. CASE h \in names[c] /\ h \notin DOMAIN locked[c]
        BY <2>8, <4>1, <4>4, NamesAssumption DEF Emit
      <4> QED
        BY <4>2, <4>3, <4>4
    <3>5. UsedIsPinned'
      BY <3>3, <3>4 DEF UsedIsPinned
    <3>6. CompileInv(c)' /\ pc'[c] = "idle"
      BY <3>1 DEF CompileInv, TypeOK
    <3> QED
      BY <2>2, <3>1, <3>5, <3>6, OnlyOneRuns DEF Quiet, TypeOK
  <2>9. ASSUME NEW c \in Compiles, Crash(c) PROVE FALSE
    BY <2>9 DEF Crash
  <2>10. CASE UNCHANGED <<lock, pc, memory, emitted, disturbed>>
    BY <2>2, <2>10 DEF Quiet, Alone, Active, CompileInv, UsedIsInMemory, AtLookup,
                       UsedIsPinned, Used, Loaded, memory
  <2>11. ASSUME NEW h \in Hosts, DnsChanges(h) PROVE Quiet'
    BY <2>10, <2>11 DEF DnsChanges
  <2>12. CASE UNCHANGED vars
    BY <2>10, <2>12 DEF vars
  <2> QED
    BY <2>3, <2>4, <2>5, <2>6, <2>7, <2>8, <2>9, <2>11, <2>12 DEF Next, Step
<1> QED
  BY <1>1, <1>2, TypeCorrect, PTL DEF Spec

-----------------------------------------------------------------------------
(* What follows from it.                                                   *)

\* _write_lock and _load_lock: when nothing runs and nothing was disturbed, the
\* lock file pins what was used last.
THEOREM WhatWasUsedIsPinned == Spec => []LastUseIsPinned
<1>1. TypeOK /\ QuietInv => LastUseIsPinned
  BY DEF QuietInv, Quiet, UsedIsPinned, Used, LastUseIsPinned
<1> QED
  BY <1>1, QuietCorrect, PTL

\* A step uses an address for a name that had one before; another one only
\* if it ends a compile run with --refresh-hosts.
LEMMA StepKeepsPins ==
    ASSUME TypeOK, QuietInv, [Next]_vars, disturbed = {},
           NEW h \in Hosts, emitted[h] \in Addresses
    PROVE  /\ emitted'[h] \in Addresses
           /\ ~RefreshEnds => emitted'[h] = emitted[h]
<1>1. ASSUME NEW c \in Compiles, Emit(c)
      PROVE  emitted'[h] \in Addresses /\ (~RefreshEnds => emitted'[h] = emitted[h])
  <2>1. pc[c] = "emit" /\ pc'[c] = "idle"
    BY <1>1 DEF Emit, TypeOK
  <2>2. UsedIsInMemory(c)
    BY <2>1 DEF QuietInv, Quiet, CompileInv
  <2>3. h \in DOMAIN locked[c] /\ (locked[c][h] = emitted[h] \/ mode[c] = "refresh")
    BY <2>2 DEF UsedIsInMemory, Used
  <2>4. locked[c][h] \in Addresses
    BY <2>3, PinsAreFunctions DEF TypeOK
  <2>5. CASE h \notin names[c]
    BY <1>1, <2>5 DEF Emit
  <2>6. CASE h \in names[c] \cap DOMAIN locked[c]
    <3>1. emitted'[h] = locked[c][h]
      BY <1>1, <2>6 DEF Emit
    <3> QED
      BY <2>1, <2>3, <2>4, <3>1 DEF RefreshEnds
  <2> QED
    BY <2>3, <2>5, <2>6
<1>2. CASE UNCHANGED emitted
  BY <1>2
<1> QED
  BY <1>1, <1>2 DEF Next, Step, Start, Lookup, Truncate, WriteLock, NothingNew, Crash,
                    DnsChanges, vars

\* resolve_document_hosts without --refresh-hosts: an address stays in use,
\* whatever the DNS answers and whichever names policies gain.
THEOREM PinsStay == Spec => PinsAreKept
<1>1. TypeOK /\ QuietInv /\ [Next]_vars =>
         [disturbed = {} /\ ~RefreshEnds =>
             \A h \in Hosts : emitted[h] \in Addresses => emitted'[h] = emitted[h]]_vars
  BY StepKeepsPins
<1> QED
  BY <1>1, QuietCorrect, PTL DEF Spec, PinsAreKept

\* resolve_document_hosts under a DNS that does not answer, with or without
\* --refresh-hosts: a name that had an address keeps one.
THEOREM SilenceLosesNoPin == Spec => NoAnswerLosesNoPin
<1>1. TypeOK /\ QuietInv /\ [Next]_vars =>
         [disturbed = {} =>
             \A h \in Hosts : emitted[h] \in Addresses => emitted'[h] \in Addresses]_vars
  BY StepKeepsPins
<1> QED
  BY <1>1, QuietCorrect, PTL DEF Spec, NoAnswerLosesNoPin
=============================================================================
