----------------------------- MODULE Documents -----------------------------
(***************************************************************************)
(* From a policy document to a compiled policy: the checks of              *)
(* compiler/validator.py, the resolution of groups in                      *)
(* compiler/resolver.py and build_ir in compiler/builder.py; and the       *)
(* search for unused names in analyzers/unused_objects.py.                 *)
(*                                                                         *)
(* A document is a record of objects, groups, services, rules, exceptions  *)
(* and tests; only errors of the validation are modelled, its warnings     *)
(* stop nothing.                                                           *)
(***************************************************************************)
EXTENDS Policy

CONSTANTS
    Everything,  \* the values 0.0.0.0/0 and ::/0 of a document, as they are written
    Unresolved   \* resolve_group raises ResolutionError

ASSUME EverythingAssumption == Everything \cap Values = {}
ASSUME UnresolvedAssumption == \A values \in SUBSET (Values \cup Everything) : values # Unresolved

\* Mutant: the literals stay what they are.
NormalizeNothing(value) == value

\* utils.ip.normalize_network: the literals are "any"; a block of all addresses
\* that is spelled otherwise, as 10.0.0.5/0, stays a network.
Normalize(value) == IF value \in Everything THEN any ELSE value

Named(doc) == DOMAIN doc.objects \cup DOMAIN doc.groups

\* validator.is_flow_endpoint
IsFlowEndpoint(doc, value) == value = Star \/ value \in Named(doc) \/ value \in Addresses

\* What parser/schema.py lets through, and of a value its form, which
\* validate_document looks at.
IsDocument(doc) ==
    /\ DOMAIN doc = {"objects", "groups", "services", "policies", "exceptions", "tests"}
    /\ doc.objects \in [DOMAIN doc.objects -> SUBSET (Values \cup Everything)]
    /\ \A o \in DOMAIN doc.objects : IsFiniteSet(doc.objects[o])
    /\ IsFiniteSet(DOMAIN doc.groups)
    /\ \A g \in DOMAIN doc.groups : IsFiniteSet(doc.groups[g])
    /\ doc.services \in [DOMAIN doc.services -> Service]
    /\ doc.policies \in Seq(Range(doc.policies))
    /\ \A i \in 1..Len(doc.policies) :
          LET rule == doc.policies[i] IN
          /\ \A list \in {rule.source, rule.destination, rule.services} : list \in Seq(Range(list))
          /\ rule.enabled \in BOOLEAN

\* validate_document(doc).ok
Valid(doc) ==
    /\ \A o \in DOMAIN doc.objects : doc.objects[o] # {}
    /\ \A g \in DOMAIN doc.groups :
          doc.groups[g] # {} /\ doc.groups[g] \subseteq Named(doc) \cup {any}
    /\ \A i \in 1..Len(doc.policies) :
          LET rule == doc.policies[i] IN
          /\ rule.source # <<>> /\ rule.destination # <<>> /\ rule.services # <<>>
          /\ Range(rule.source) \cup Range(rule.destination) \subseteq Named(doc) \cup {any}
          /\ Range(rule.services) \subseteq DOMAIN doc.services \cup {any}
    /\ \A w \in doc.exceptions : \E i \in 1..Len(doc.policies) : doc.policies[i].name = w.rule
    /\ \A t \in doc.tests : IsFlowEndpoint(doc, t.src) /\ IsFlowEndpoint(doc, t.dst)

-----------------------------------------------------------------------------
(* compiler/resolver.py                                                    *)

\* Mutant: a group keeps the values of its objects only.
ResolveFlat(doc) ==
    LET values[n \in Named(doc) \cup {any}] ==
            IF n \in DOMAIN doc.objects THEN {Normalize(v) : v \in doc.objects[n]}
            ELSE IF n = any THEN {any}
            ELSE UNION {values[m] : m \in doc.groups[n] \cap DOMAIN doc.objects}
    IN  [n \in Named(doc) |-> values[n]]

\* The values of the members of a group, if all of them have been resolved.
Joined(parts) == IF Unresolved \in parts THEN Unresolved ELSE UNION parts

\* resolve_group for every name, given the groups it is being resolved for:
\* objects come first, "any" next, and a group that contains itself raises.
Resolve(doc) ==
    LET values[stack \in SUBSET DOMAIN doc.groups] ==
            [n \in Named(doc) \cup {any} |->
                IF n \in DOMAIN doc.objects THEN {Normalize(v) : v \in doc.objects[n]}
                ELSE IF n = any THEN {any}
                ELSE IF n \in stack THEN Unresolved
                ELSE Joined({values[stack \cup {n}][m] : m \in doc.groups[n]})]
    IN  [n \in Named(doc) |-> values[{}][n]]

\* resolve_rule_references raises, in a document that has passed the validation.
Raises(doc) == \E n \in Named(doc) : Resolve(doc)[n] = Unresolved

-----------------------------------------------------------------------------
(* compiler/builder.py                                                     *)

\* _expand_hosts: the pinned addresses of the hostnames that have some.
Expand(values, hosts) == UNION {IF v \in DOMAIN hosts THEN hosts[v] ELSE {v} : v \in values}

\* The objects that spell "any" more than once, as 0.0.0.0/0 with ::/0: only
\* _expand_hosts and groups drop what is repeated.
Repeated(doc, hosts) ==
    {o \in DOMAIN doc.objects \ {any} :
        DOMAIN hosts = {} /\ Cardinality({v \in doc.objects[o] : Normalize(v) = any}) > 1}

\* build_ir: the name "any" always means any.
BuildIR(doc, hosts) ==
    LET resolved == Resolve(doc) IN
    [repeated  |-> Repeated(doc, hosts),
     services  |-> [s \in DOMAIN doc.services \cup {any} |->
                      IF s = any THEN [protocol |-> "any", ports |-> AllPorts]
                                   ELSE doc.services[s]],
     policies  |-> doc.policies,
     groups    |-> doc.groups,
     addresses |-> [n \in Named(doc) \cup {any} |->
                      IF n = any THEN {any} ELSE Expand(resolved[n], hosts)]]

-----------------------------------------------------------------------------
(* analyzers/unused_objects.py                                             *)

\* Mutant: the members of a group that is used do not count as used.
ExpandNoMembers(ir, names) == names

\* The names, the members of the groups among them, their members, and so on.
Within(groups, names) ==
    LET within[k \in Nat] ==
            IF k = 0 THEN names
            ELSE within[k-1] \cup UNION {groups[g] : g \in within[k-1] \cap DOMAIN groups}
    IN  within[Cardinality(DOMAIN groups)]

\* _expand: it goes into every group, of whatever name.
WithMembers(ir, names) == Within(ir.groups, names)

UnusedObjects(ir) ==
    LET used == {any} \cup UNION {Range(ir.policies[i].source) \cup Range(ir.policies[i].destination)
                                    : i \in 1..Len(ir.policies)}
    IN  DOMAIN ir.addresses \ WithMembers(ir, used)

UnusedServices(ir) ==
    DOMAIN ir.services \ ({any} \cup UNION {Range(ir.policies[i].services)
                                              : i \in 1..Len(ir.policies)})

-----------------------------------------------------------------------------
(* Properties of a document.                                               *)

\* The groups that can be meant by their names.
GroupsOf(doc) == Restrict(doc.groups, DOMAIN doc.groups \ (DOMAIN doc.objects \cup {any}))

\* The members of a group, their members, and so on.
MembersOf(doc, group) == Within(GroupsOf(doc), doc.groups[group])

\* The objects among them decide what a group stands for: what the code
\* resolves along paths is what can be reached.
ResolvesToMembers(doc) ==
    \A g \in DOMAIN GroupsOf(doc) :
        LET members == MembersOf(doc, g) IN
        Resolve(doc)[g] =
            IF \E m \in (members \cup {g}) \cap DOMAIN GroupsOf(doc) : m \in MembersOf(doc, m)
            THEN Unresolved
            ELSE {Normalize(v) : v \in UNION {doc.objects[o] : o \in members \cap DOMAIN doc.objects}}
                 \cup (IF any \in members \ DOMAIN doc.objects THEN {any} ELSE {})

\* The document without the objects, groups and services reported as unused.
Trimmed(doc, ir) ==
    LET gone == UnusedObjects(ir) IN
    [doc EXCEPT !.objects  = Restrict(@, DOMAIN @ \ gone),
                !.groups   = Restrict(@, DOMAIN @ \ gone),
                !.services = Restrict(@, DOMAIN @ \ UnusedServices(ir))]
=============================================================================
