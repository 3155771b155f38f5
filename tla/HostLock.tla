------------------------------ MODULE HostLock ------------------------------
(***************************************************************************)
(* Pinned hostnames: compiler/hosts.py.  A compile reads the lock file     *)
(* next to the policy, asks the DNS for the names that are not in it (or   *)
(* for all of them with --refresh-hosts), and writes the file again if an  *)
(* answer came.  Compiles without --resolve-hosts, among them every plan   *)
(* and deploy, take what they find in the file and leave other names as    *)
(* they are.  Nothing locks the lock file and it is not replaced in one    *)
(* step; a file that is no JSON counts as an empty one.                    *)
(*                                                                         *)
(* The file is named after the policy without its suffix, so what compiles *)
(* of one lock file have in common is a stem: policies a.yaml and a.yml,   *)
(* or one policy before and after an edit, with different names in them.   *)
(* A policy without hostnames leaves the file alone.                       *)
(***************************************************************************)
EXTENDS Naturals, FiniteSets

CONSTANTS
    Compiles,   \* processes, each run again after it has ended
    Hosts,      \* names, in the order they are looked up
    NameSets,   \* the names of a policy, for every policy with this lock file
    Addresses,  \* answers of the DNS
    NoAnswer,   \* the DNS does not answer: OSError
    NoFile,     \* there is no lock file
    Torn,       \* a lock file whose writer stopped before the end
    Literal,    \* a name that is passed through
    Modes       \* bound: the ways compiles are run

ASSUME HostsAssumption == Hosts \subseteq Nat /\ IsFiniteSet(Hosts)
ASSUME NameSetsAssumption == NameSets \subseteq (SUBSET Hosts) \ {{}}
ASSUME ModesAssumption == Modes \subseteq {"literal", "resolve", "refresh"}
ASSUME NamesAssumption ==
    /\ {NoAnswer, Literal} \cap Addresses = {} /\ Literal # NoAnswer
    /\ NoFile # Torn
    /\ \A H \in SUBSET Hosts : {NoFile, Torn} \cap [H -> Addresses] = {}

VARIABLES
    lock,       \* the lock file
    dns,        \* what the DNS answers now
    pc, mode,   \* where a compile is and how it was run
    names,      \* the names of the policy it compiles
    locked,     \* the pins it holds in memory
    todo,       \* the names it has not looked at
    changed,    \* it has new answers
    emitted,    \* history: what the last compile to end used for a name
    disturbed   \* history: "overlap", "crash", "drop" if compiles overlapped, one
                \* stopped, one wrote the file without the names of another policy

memory == <<mode, names, locked, todo, changed>>
vars == <<lock, dns, pc, memory, emitted, disturbed>>

Pins == UNION {[H -> Addresses] : H \in SUBSET Hosts}

NoPins == [h \in {} |-> NoAnswer]

\* Mutant: a pinned name is looked up like any other.
PinnedNothing(pins, h) == FALSE

Pinned(pins, h) == h \in DOMAIN pins

\* Mutant: an unfinished file is taken for a lock file.
LoadedAsItIs == IF lock = NoFile THEN NoPins ELSE lock

\* _load_lock
Loaded == IF lock \in {NoFile, Torn} THEN NoPins ELSE lock

Active == {c \in Compiles : pc[c] # "idle"}

-----------------------------------------------------------------------------
TypeOK ==
    /\ lock \in Pins \cup {NoFile, Torn}
    /\ dns \in [Hosts -> Addresses \cup {NoAnswer}]
    /\ pc \in [Compiles -> {"idle", "lookup", "writing", "emit"}]
    /\ mode \in [Compiles -> {"literal", "resolve", "refresh"}]
    /\ names \in [Compiles -> SUBSET Hosts]
    /\ locked \in [Compiles -> Pins]
    /\ todo \in [Compiles -> SUBSET Hosts]
    /\ changed \in [Compiles -> BOOLEAN]
    /\ emitted \in [Hosts -> Addresses \cup {Literal}]
    /\ disturbed \in SUBSET {"overlap", "crash", "drop"}

Init ==
    /\ lock = NoFile
    /\ dns \in [Hosts -> Addresses]
    /\ pc = [c \in Compiles |-> "idle"]
    /\ mode = [c \in Compiles |-> "literal"]
    /\ names = [c \in Compiles |-> {}]
    /\ locked = [c \in Compiles |-> NoPins]
    /\ todo = [c \in Compiles |-> {}]
    /\ changed = [c \in Compiles |-> FALSE]
    /\ emitted = [h \in Hosts |-> Literal]
    /\ disturbed = {}

Start(c, m) ==
    /\ pc[c] = "idle"
    /\ pc' = [pc EXCEPT ![c] = IF m = "literal" THEN "emit" ELSE "lookup"]
    /\ mode' = [mode EXCEPT ![c] = m]
    /\ locked' = [locked EXCEPT ![c] = Loaded]
    /\ \E found \in NameSets :
          /\ names' = [names EXCEPT ![c] = found]
          /\ todo' = [todo EXCEPT ![c] = IF m = "literal" THEN {} ELSE found]
    /\ changed' = [changed EXCEPT ![c] = FALSE]
    /\ disturbed' = IF Active = {} THEN disturbed ELSE disturbed \cup {"overlap"}
    /\ UNCHANGED <<lock, dns, emitted>>

\* Names are looked at in their order.
IsFirst(h, hosts) == \A g \in hosts : h <= g

\* Mutant: the name counts as looked up whether or not the DNS answered.
LookupForgets(c) ==
    /\ pc[c] = "lookup"
    /\ \E h \in todo[c] :
          LET kept == [g \in DOMAIN locked[c] \ {h} |-> locked[c][g]] IN
          /\ IsFirst(h, todo[c])
          /\ IF Pinned(locked[c], h) /\ mode[c] # "refresh"
             THEN UNCHANGED <<locked, changed>>
             ELSE /\ locked' = [locked EXCEPT ![c] =
                       IF dns[h] = NoAnswer THEN kept
                       ELSE [g \in DOMAIN kept \cup {h} |-> IF g = h THEN dns[h] ELSE kept[g]]]
                  /\ changed' = [changed EXCEPT ![c] = TRUE]
          /\ todo' = [todo EXCEPT ![c] = @ \ {h}]
    /\ UNCHANGED <<lock, dns, pc, mode, names, emitted, disturbed>>

\* One turn of the loop over the names.  Without an answer the old pin stays.
Lookup(c) ==
    /\ pc[c] = "lookup"
    /\ \E h \in todo[c] :
          LET pins == locked[c] IN
          /\ IsFirst(h, todo[c])
          /\ IF (Pinned(pins, h) /\ mode[c] # "refresh") \/ dns[h] = NoAnswer
             THEN UNCHANGED <<locked, changed>>
             ELSE /\ locked' = [locked EXCEPT ![c] =
                       [g \in DOMAIN pins \cup {h} |-> IF g = h THEN dns[h] ELSE pins[g]]]
                  /\ changed' = [changed EXCEPT ![c] = TRUE]
          /\ todo' = [todo EXCEPT ![c] = @ \ {h}]
    /\ UNCHANGED <<lock, dns, pc, mode, names, emitted, disturbed>>

\* _write_lock empties the file before it writes it.
Truncate(c) ==
    /\ pc[c] = "lookup" /\ todo[c] = {} /\ changed[c]
    /\ lock' = Torn
    /\ pc' = [pc EXCEPT ![c] = "writing"]
    /\ disturbed' = IF DOMAIN locked[c] \subseteq names[c] THEN disturbed
                    ELSE disturbed \cup {"drop"}
    /\ UNCHANGED <<dns, memory, emitted>>

\* Only the names of the policy are written back.
WriteLock(c) ==
    /\ pc[c] = "writing"
    /\ lock' = [h \in DOMAIN locked[c] \cap names[c] |-> locked[c][h]]
    /\ pc' = [pc EXCEPT ![c] = "emit"]
    /\ UNCHANGED <<dns, memory, emitted, disturbed>>

\* Mutant: new answers are used without being written.
NothingKept(c) ==
    /\ pc[c] = "lookup" /\ todo[c] = {}
    /\ pc' = [pc EXCEPT ![c] = "emit"]
    /\ UNCHANGED <<lock, dns, memory, emitted, disturbed>>

NothingNew(c) ==
    /\ pc[c] = "lookup" /\ todo[c] = {} /\ ~changed[c]
    /\ pc' = [pc EXCEPT ![c] = "emit"]
    /\ UNCHANGED <<lock, dns, memory, emitted, disturbed>>

\* The memory of a process that has ended.
Forget(c) ==
    /\ mode' = [mode EXCEPT ![c] = "literal"]
    /\ names' = [names EXCEPT ![c] = {}]
    /\ locked' = [locked EXCEPT ![c] = NoPins]
    /\ todo' = [todo EXCEPT ![c] = {}]
    /\ changed' = [changed EXCEPT ![c] = FALSE]

\* The mapping the configuration is built with.
Emit(c) ==
    /\ pc[c] = "emit"
    /\ emitted' = [h \in Hosts |->
                      CASE h \notin names[c]                         -> emitted[h]
                        [] h \in names[c] \cap DOMAIN locked[c]      -> locked[c][h]
                        [] h \in names[c] /\ h \notin DOMAIN locked[c] -> Literal]
    /\ pc' = [pc EXCEPT ![c] = "idle"]
    /\ Forget(c)
    /\ UNCHANGED <<lock, dns, disturbed>>

Crash(c) ==
    /\ pc[c] # "idle"
    /\ pc' = [pc EXCEPT ![c] = "idle"]
    /\ Forget(c)
    /\ disturbed' = disturbed \cup {"crash"}
    /\ UNCHANGED <<lock, dns, emitted>>

\* The DNS changes its answer, or stops or starts to answer.
DnsChanges(h) ==
    /\ dns' \in {[dns EXCEPT ![h] = a] : a \in (Addresses \cup {NoAnswer}) \ {dns[h]}}
    /\ UNCHANGED <<lock, pc, memory, emitted, disturbed>>

Step(c) ==
    \/ \E m \in Modes : Start(c, m)
    \/ Lookup(c)
    \/ Truncate(c)
    \/ WriteLock(c)
    \/ NothingNew(c)
    \/ Emit(c)
    \/ Crash(c)

Next == (\E c \in Compiles : Step(c)) \/ (\E h \in Hosts : DnsChanges(h))

Spec == Init /\ [][Next]_vars

-----------------------------------------------------------------------------
(* Properties.                                                             *)

\* The step in which a compile run with --refresh-hosts ends.
RefreshEnds == \E c \in Compiles : pc[c] = "emit" /\ pc'[c] = "idle" /\ mode[c] = "refresh"

\* Later compiles are deterministic: an address that was used for a name is
\* used for it from then on, whatever the DNS answers, until a compile is run
\* with --refresh-hosts, whichever names policies gain; this takes that
\* compiles neither overlap nor crash and that no policy gets new pins while it
\* lacks names of another one with the same lock file.
PinsAreKept ==
    [][disturbed = {} /\ ~RefreshEnds =>
          \A h \in Hosts : emitted[h] \in Addresses => emitted'[h] = emitted[h]]_vars

\* A DNS that does not answer never costs a pin, not even with
\* --refresh-hosts: a name that had an address keeps one.
NoAnswerLosesNoPin ==
    [][disturbed = {} =>
          \A h \in Hosts : emitted[h] \in Addresses => emitted'[h] \in Addresses]_vars

\* When no compile is running, what was used last is what is pinned, so that
\* the configuration that was reviewed can be generated again.
LastUseIsPinned ==
    Active = {} /\ disturbed = {} =>
        \A h \in Hosts : emitted[h] \in Addresses => h \in DOMAIN Loaded /\ Loaded[h] = emitted[h]

-----------------------------------------------------------------------------
(* What the documentation says and the code does not do.                   *)

\* "names are resolved via DNS once and pinned ... so later compiles are
\* deterministic": no word of compiles that must not overlap or crash, or of
\* policies that must not have a stem in common or lose a name for a while.
LaterCompilesAreDeterministic ==
    [][~RefreshEnds =>
          \A h \in Hosts : emitted[h] \in Addresses => emitted'[h] = emitted[h]]_vars
=============================================================================
