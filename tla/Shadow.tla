------------------------------ MODULE Shadow ------------------------------
(***************************************************************************)
(* analyzers/shadow_rules.py: which rules an earlier rule makes useless,   *)
(* and which two rules decide the same traffic in opposite ways; and       *)
(* analyzers/duplicate_rules.py.                                           *)
(***************************************************************************)
EXTENDS Policy, FiniteSetsExt

\* "any" stands for 0.0.0.0/0 and ::/0; a hostname for no network.
Nets(values) ==
    (values \cap Networks) \cup (IF any \in values THEN {V4, V6} ELSE {})

CoversAddresses(outer, inner) ==
    /\ Nets(inner) # {}
    /\ \A i \in Nets(inner) : \E o \in Nets(outer) : i \subseteq o

\* Mutant: one protocol in common is enough.
CoversServicesByOne(outer, inner) ==
    \/ "any" \in Protocols(outer)
    \/ /\ Protocols(inner) \cap Protocols(outer) # {}
       /\ \/ PortsOf(outer) = AllPorts
          \/ PortsOf(outer) = {} /\ PortsOf(inner) = {}
          \/ Ends(PortsOf(inner)) \subseteq PortsOf(outer)

\* The ports of all services of a rule are put together before they are compared.
CoversServices(outer, inner) ==
    \/ "any" \in Protocols(outer)
    \/ /\ Protocols(inner) \subseteq Protocols(outer)
       /\ \/ PortsOf(outer) = AllPorts
          \/ PortsOf(outer) = {} /\ PortsOf(inner) = {}
          \/ Ends(PortsOf(inner)) \subseteq PortsOf(outer)

OverlapsAddresses(left, right) ==
    \E a \in Nets(left), b \in Nets(right) : a \cap b # {}

\* PortSpec.overlaps
PortsOverlap(left, right) ==
    \/ left = {} /\ right = {}
    \/ left \cap right # {}

\* Mutant: an "any" service is compared like the others.
OverlapsServicesLiterally(left, right) ==
    /\ Protocols(left) \cap Protocols(right) # {}
    /\ PortsOverlap(PortsOf(left), PortsOf(right))

OverlapsServices(left, right) ==
    \/ "any" \in Protocols(left) \cup Protocols(right)
    \/ /\ Protocols(left) \cap Protocols(right) # {}
       /\ PortsOverlap(PortsOf(left), PortsOf(right))

Overlaps(ir, left, right) ==
    /\ OverlapsAddresses(AddressValues(ir, left.source), AddressValues(ir, right.source))
    /\ OverlapsAddresses(AddressValues(ir, left.destination), AddressValues(ir, right.destination))
    /\ OverlapsServices(ServiceValues(ir, left.services), ServiceValues(ir, right.services))

Subsumes(ir, outer, inner) ==
    /\ CoversAddresses(AddressValues(ir, outer.source), AddressValues(ir, inner.source))
    /\ CoversAddresses(AddressValues(ir, outer.destination), AddressValues(ir, inner.destination))
    /\ CoversServices(ServiceValues(ir, outer.services), ServiceValues(ir, inner.services))

\* duplicate_rules.fingerprint
Fingerprint(rule) == <<rule.source, rule.destination, rule.services, rule.action>>

\* find_duplicate_rules: the rules with the fingerprint of an earlier one.
DuplicateRules(ir) ==
    {i \in 1..Len(ir.policies) :
        \E j \in 1..(i-1) : Fingerprint(ir.policies[j]) = Fingerprint(ir.policies[i])}

\* The enabled rules before the i-th.
Earlier(ir, i) == {j \in 1..(i-1) : ir.policies[j].enabled}

\* The earlier rules that leave nothing to the i-th; an exact duplicate is
\* reported elsewhere.
Coverers(ir, i) ==
    {j \in Earlier(ir, i) :
        /\ Subsumes(ir, ir.policies[j], ir.policies[i])
        /\ Fingerprint(ir.policies[j]) # Fingerprint(ir.policies[i])}

Conflicting(ir, i) ==
    {j \in Earlier(ir, i) :
        /\ ~Subsumes(ir, ir.policies[j], ir.policies[i])
        /\ ir.policies[j].action # ir.policies[i].action
        /\ Overlaps(ir, ir.policies[j], ir.policies[i])}

\* find_shadowed_rules: at most one finding for each rule.
ShadowFindings(ir) ==
    LET enabled == {i \in 1..Len(ir.policies) : ir.policies[i].enabled}
    IN  {[rule |-> i, by |-> Min(Coverers(ir, i)),
          title |-> IF ir.policies[Min(Coverers(ir, i))].action = ir.policies[i].action
                    THEN "Redundant rule" ELSE "Shadowed rule"]
         : i \in {i \in enabled : Coverers(ir, i) # {}}}
        \cup
        {[rule |-> i, by |-> Min(Conflicting(ir, i)), title |-> "Conflicting rules"]
         : i \in {i \in enabled : Coverers(ir, i) = {} /\ Conflicting(ir, i) # {}}}

-----------------------------------------------------------------------------
(* Properties of a compiled policy.                                        *)

\* A rule whose services have one protocol and one range of ports, or are "any".
Plain(ir, rule) ==
    LET services == ServiceValues(ir, rule.services) IN
    \/ "any" \in Protocols(services)
    \/ /\ Cardinality(Protocols(services)) = 1
       /\ \A p, q \in PortsOf(services) : p..q \subseteq PortsOf(services)

\* A rule that names icmp next to a protocol that has ports.
MixesIcmp(ir, rule) ==
    LET protocols == Protocols(ServiceValues(ir, rule.services))
    IN  "icmp" \in protocols /\ protocols # {"icmp"} /\ "any" \notin protocols

\* A rule reported as shadowed or redundant decides no packet, provided the
\* rule that is said to cover it has one protocol and one range of ports.
ReportedIsUnreachable(ir) ==
    \A f \in ShadowFindings(ir) :
        f.title # "Conflicting rules" /\ Plain(ir, ir.policies[f.by])
            => \A p \in Packets : ~Decides(ir, f.rule, p)

\* Of two rules that decide some packet in opposite ways, the later one is
\* reported, unless one of them mixes icmp with ports.
OppositesAreReported(ir) ==
    \A i \in 1..Len(ir.policies) : \A j \in 1..(i-1) :
        LET later == ir.policies[i]  earlier == ir.policies[j] IN
        /\ earlier.action # later.action
        /\ ~MixesIcmp(ir, earlier) /\ ~MixesIcmp(ir, later)
        /\ \E p \in Packets : Matches(ir, earlier, p) /\ Matches(ir, later, p)
        => \E f \in ShadowFindings(ir) : f.rule = i
=============================================================================
