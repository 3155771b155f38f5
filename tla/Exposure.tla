------------------------------ MODULE Exposure ------------------------------
(***************************************************************************)
(* What a policy opens to the outside: analyzers/attack_surface.py, whose  *)
(* findings the gate judges, and the structural facts of                   *)
(* analyzers/compliance.py, from which `py2fw compliance` gives a status   *)
(* to each control of a framework.  Both are sets of rules by number; the  *)
(* second module has copies of the first one's tests.                      *)
(***************************************************************************)
EXTENDS Guards

CONSTANTS
    Database,    \* database ports
    HighRisk,    \* other ports to watch, each with the title of its finding
    Cleartext,   \* ports of protocols without encryption
    WideRange    \* bound: a service for more ports than this is wide

ASSUME PortsAssumption == Database \cup DOMAIN HighRisk \cup Cleartext \subseteq AllPorts
ASSUME TitlesAssumption ==
    Range(HighRisk) \cap
        {"Any to Any", "Broad source to all ports", "Internet to internal database"} = {}
ASSUME WideRangeAssumption == WideRange \in Nat

AllowsAllPorts(services) == \E s \in services : s.ports = AllPorts

\* _scope_findings
ScopeFindings(ir, i, broad) ==
    LET services == ServiceValues(ir, ir.policies[i].services)
        wide == \E s \in services : Cardinality(s.ports) > WideRange
    IN  {f \in {RuleFinding(i, "Allows all services", "medium")} : AllowsAllPorts(services) /\ ~broad}
        \cup {f \in {RuleFinding(i, "Wide port range", "medium")} : ~AllowsAllPorts(services) /\ wide}
        \cup {f \in {RuleFinding(i, "Any destination", "medium")} :
                 ~broad /\ any \in AddressValues(ir, ir.policies[i].destination)}
        \cup {f \in {RuleFinding(i, "Cleartext protocol", "low")} :
                 ~AllowsAllPorts(services) /\ PortsOf(services) \cap Cleartext # {}}

\* find_attack_surface, for an enabled rule that allows.
RuleSurface(ir, i) ==
    LET rule == ir.policies[i]
        services == ServiceValues(ir, rule.services)
        broad == IsBroad(AddressValues(ir, rule.source))
        exposed == IF broad THEN PortsOf(services) ELSE {}
    IN  ScopeFindings(ir, i, broad)
        \cup {f \in {RuleFinding(i, "Any to Any", "critical")} :
                 broad /\ any \in AddressValues(ir, rule.destination)}
        \cup {RuleFinding(i, HighRisk[p], "high") : p \in exposed \cap DOMAIN HighRisk}
        \cup {f \in {RuleFinding(i, "Internet to internal database", "high")} :
                 exposed \cap Database # {}}
        \cup {f \in {RuleFinding(i, "Broad source to all ports", "high")} :
                 broad /\ AllowsAllPorts(services)}

SurfaceOf(ir, i) ==
    IF ~ir.policies[i].enabled THEN {RuleFinding(i, "Disabled rule", "medium")}
    ELSE IF ir.policies[i].action # "allow" THEN {}
    ELSE RuleSurface(ir, i)

AttackSurface(ir) == UNION {SurfaceOf(ir, i) : i \in 1..Len(ir.policies)}

-----------------------------------------------------------------------------
(* analyzers/compliance.py                                                 *)

\* Mutant: a broad prefix counts as any network does.
IsBroadIfAny(values) == any \in values

\* _is_broad_source
IsBroadSource(values) == any \in values \/ values \cap Wide # {}

\* _rule_port_profile
AllPortsProfile(services) == \E s \in services : s.ports = AllPorts \/ s.protocol = "any"

\* The widest single range, by the distance of its ends.
HasWideRange(services) ==
    \E s \in services : \E p, q \in s.ports : q - p >= WideRange /\ p..q \subseteq s.ports

ServicesOf(ir, i) == ServiceValues(ir, ir.policies[i].services)

ToAny(ir, i) == any \in AddressValues(ir, ir.policies[i].destination)

Allowing(ir) ==
    {i \in 1..Len(ir.policies) : ir.policies[i].enabled /\ ir.policies[i].action = "allow"}

BroadRules(ir) ==
    {i \in Allowing(ir) : IsBroadSource(AddressValues(ir, ir.policies[i].source))}

AllPortsRules(ir) == {i \in Allowing(ir) : AllPortsProfile(ServicesOf(ir, i))}

WideRules(ir) == {i \in BroadRules(ir) : HasWideRange(ServicesOf(ir, i))}

DatabaseRules(ir) == {i \in BroadRules(ir) : PortsOf(ServicesOf(ir, i)) \cap Database # {}}

\* _facts: the rules, by number, under each heading.
Facts(ir) ==
    [any_to_any           |-> {i \in BroadRules(ir) : ToAny(ir, i)},
     untrusted_all_ports  |-> BroadRules(ir) \cap AllPortsRules(ir),
     untrusted_wide_range |-> WideRules(ir),
     excessive_exposure   |-> (BroadRules(ir) \cap AllPortsRules(ir)) \cup WideRules(ir),
     internet_to_database |-> DatabaseRules(ir),
     segmentation_rules   |-> {i \in Allowing(ir) \ (BroadRules(ir) \cup AllPortsRules(ir)) :
                                  ~ToAny(ir, i)}]

\* _FAIL_ON_RULES: the fact that decides a control.
FailOnRules ==
    [pci_1_2_1 |-> "untrusted_all_ports", pci_1_2_5 |-> "untrusted_wide_range",
     pci_1_4_1 |-> "any_to_any", pci_1_4_4 |-> "internet_to_database",
     nist_SC_7 |-> "any_to_any", nist_CM_7 |-> "excessive_exposure", cis_4_4 |-> "any_to_any"]

\* _catalogue: a control whose fact has rules fails, else it passes.
Fails(ir, control) == Facts(ir)[FailOnRules[control]] # {}

-----------------------------------------------------------------------------
(* What the outside is.                                                    *)

\* An address that the policy does not list, or only within a broad prefix.
Outside(ir, address) == \A n \in NetworksOf(ir) : address \in n => n \in Wide

FromOutside(ir) == {p \in Packets : Outside(ir, p.source) /\ Allowed(ir, p)}

Listed(ir, address) == \E n \in NetworksOf(ir) : address \in n

Reported(ir, title) == {f.rule : f \in {f \in AttackSurface(ir) : f.title = title}}

\* What a control that passes says of decisions, and what the two modules say
\* of the same rules.
ControlsHold(ir) ==
    LET facts == Facts(ir) IN
    /\ ~Fails(ir, "pci_1_4_4") => \A p \in FromOutside(ir) : p.port \notin Database
    /\ ~Fails(ir, "pci_1_4_1") => \A p \in FromOutside(ir) : Listed(ir, p.destination)
    /\ ~Fails(ir, "pci_1_2_1") =>
          \A p \in FromOutside(ir) :
              p.port # NoPort =>
                  \E s \in Range(ir.services) : s.ports # AllPorts /\ p.port \in s.ports
    /\ \A i \in facts.segmentation_rules : \A p \in Packets :
          Decides(ir, i, p) => ~Outside(ir, p.source) /\ Listed(ir, p.destination)
    /\ facts.any_to_any = Reported(ir, "Any to Any")
    /\ facts.untrusted_all_ports = Reported(ir, "Broad source to all ports")
    /\ facts.internet_to_database = Reported(ir, "Internet to internal database")
=============================================================================
