------------------------------ MODULE Objects ------------------------------
(***************************************************************************)
(* The exporters that define objects and refer to them by name:            *)
(* exporters/paloalto, fortigate and checkpoint; and how a device looks    *)
(* the names up.                                                           *)
(*                                                                         *)
(* A configuration is a record: the address objects and groups in the      *)
(* order in which they are defined matter only where a name is defined     *)
(* twice, so a definition says whether its name is the policy's own or one *)
(* made up for a member; rules hold names.                                 *)
(***************************************************************************)
EXTENDS Exporters, SequencesExt

CONSTANTS
    Spelled,   \* the names of a policy that read like a made-up one, by the
               \* name and number it is made of: web-1 or web_1 for <<web, 1>>
    all,       \* what FortiGate calls "any", of addresses and of services
    AnyWord        \* what Check Point calls it

ASSUME AllAssumption == any \notin {all, AnyWord}
ASSUME SpelledAssumption == IsInjective(Spelled) /\ Range(Spelled) \cap {any, all} = {}

ObjectTargets == {"paloalto", "fortigate", "checkpoint"}
Targets == LineTargets \cup ObjectTargets

\* The values of a name as build_ir leaves them, in some order.
ValueList(ir, n) == SetToSeq(ir.addresses[n]) \o (IF n \in ir.repeated THEN <<any>> ELSE <<>>)

IsAny(ir, n) == ValueList(ir, n) = <<any>>

\* The names of rules, disabled ones too.
Referenced(ir) ==
    UNION {Range(rule.source) \cup Range(rule.destination) : rule \in Range(ir.policies)}

\* The name of a member: another name of the policy can be spelled like it.
MemberName(n, i) == IF <<n, i>> \in DOMAIN Spelled THEN Spelled[<<n, i>>] ELSE <<n, i>>

\* Names that need a group.
Several(ir) == {n \in Referenced(ir) : Len(ValueList(ir, n)) > 1}

MemberNames(ir, n) == {MemberName(n, i) : i \in DOMAIN ValueList(ir, n)}

\* A name with one value is an object, the values of others get names of their own.
AddressObjects(ir) ==
    {[name |-> n, value |-> ValueList(ir, n)[1], own |-> TRUE]
     : n \in {n \in Referenced(ir) \ Several(ir) : ~IsAny(ir, n)}}
    \cup UNION {{[name |-> MemberName(n, i), value |-> ValueList(ir, n)[i], own |-> FALSE]
                 : i \in DOMAIN ValueList(ir, n)} : n \in Several(ir)}

\* Mutant: a group has its first member only.
FirstMembers(ir) == [n \in Several(ir) |-> {MemberName(n, 1)}]

AddressGroups(ir) == [n \in Several(ir) |-> MemberNames(ir, n)]

\* The rules, with the names the target uses for addresses and services.
NamedRules(ir, address, service) ==
    [i \in 1..Len(ir.policies) |->
        LET rule == ir.policies[i] IN
        [name        |-> rule.name,
         action      |-> IF rule.action = "allow" THEN "allow" ELSE "deny",
         source      |-> {address[n] : n \in Range(rule.source)},
         destination |-> {address[n] : n \in Range(rule.destination)},
         services    |-> {service[s] : s \in Range(rule.services)},
         enabled     |-> rule.enabled]]

\* Only tcp and udp services with some ports are defined.
PaloAlto(ir) ==
    LET address == [n \in DOMAIN ir.addresses |-> IF IsAny(ir, n) THEN any ELSE n]
        service == [s \in DOMAIN ir.services |-> s]
        defined == {s \in DOMAIN ir.services :
                       ir.services[s].protocol \in {"tcp", "udp"} /\ NamesPorts(ir.services[s])}
    IN  [objects  |-> AddressObjects(ir),
         groups   |-> AddressGroups(ir),
         services |-> Restrict(ir.services, defined),
         rules    |-> NamedRules(ir, address, service)]

FortiGate(ir) ==
    LET address == [n \in DOMAIN ir.addresses |-> IF IsAny(ir, n) THEN all ELSE n]
        service == [s \in DOMAIN ir.services |-> IF s = any THEN all ELSE s]
        defined == {s \in DOMAIN ir.services : ir.services[s].protocol # "any"}
    IN  [objects  |-> AddressObjects(ir),
         groups   |-> AddressGroups(ir),
         services |-> Restrict(ir.services, defined),
         rules    |-> NamedRules(ir, address, service)]

\* _subnet takes networks only.
FortiGateRaises(ir) == \E o \in AddressObjects(ir) : o.value \notin Networks

\* Every address of the policy is a list under its own name.
CheckPoint(ir) ==
    LET address == [n \in DOMAIN ir.addresses |-> IF any \in ir.addresses[n] THEN AnyWord ELSE n]
        service == [s \in DOMAIN ir.services |-> IF ir.services[s].protocol = "any" THEN AnyWord ELSE s]
        listed == {n \in DOMAIN ir.addresses : ~IsAny(ir, n)}
        defined == {s \in DOMAIN ir.services : ir.services[s].protocol # "any"}
    IN  [objects  |-> UNION {{[name |-> n, value |-> v, own |-> TRUE] : v \in ir.addresses[n]}
                             : n \in listed},
         groups   |-> [n \in {} |-> {}],
         services |-> Restrict(ir.services, defined),
         rules    |-> NamedRules(ir, address, service)]

\* A port specification of several ranges gives a member for each of them.
RangeCount(ports) == Cardinality({p \in ports : p - 1 \notin ports})

\* _service_objects: the members' names, by the service and the number.
ServiceMembers(config) ==
    {key \in (DOMAIN config.services) \X (1..MaxPort) :
        LET ports == config.services[key[1]].ports
        IN  RangeCount(ports) > 1 /\ key[2] <= RangeCount(ports)}

\* exporter.export(ir), for every target.
Render(target, ir) ==
    CASE target \in LineTargets -> Export(target, ir)
      [] target = "paloalto"    -> PaloAlto(ir)
      [] target = "fortigate"   -> FortiGate(ir)
      [] target = "checkpoint"  -> CheckPoint(ir)

-----------------------------------------------------------------------------
(* How a device reads a configuration.                                     *)

Defined(config) == {o.name : o \in config.objects} \cup DOMAIN config.groups

\* Of two definitions of a name the policy's own comes later.
Value(config, n) ==
    LET definitions == {o \in config.objects : o.name = n}
    IN  {o.value : o \in IF \E o \in definitions : o.own
                         THEN {o \in definitions : o.own} ELSE definitions}

\* A name that is defined is no longer the target's word for everything.
LookUp(config, n) ==
    CASE n \in DOMAIN config.groups -> UNION {Value(config, m) : m \in config.groups[n]}
      [] n \notin Defined(config)   -> {any}
      [] OTHER                      -> Value(config, n)

LookUpService(config, s) ==
    IF s \in DOMAIN config.services THEN config.services[s]
    ELSE [protocol |-> "any", ports |-> {}]

Words(target) ==
    CASE target = "fortigate"  -> {all}
      [] target = "checkpoint" -> {AnyWord}
      [] OTHER                 -> {any}

\* A configuration is refused if a rule refers to a name that is not defined,
\* an object and a group have one name, or a value is none of the target's.
\* Check Point's names are checked by py2fw itself.
Accepted(target, config) ==
    target \in ObjectTargets =>
    LET rules == {rule \in Range(config.rules) : target = "checkpoint" \/ rule.enabled} IN
    /\ \A rule \in rules :
          /\ rule.source \cup rule.destination \subseteq Defined(config) \cup Words(target)
          /\ rule.services \subseteq DOMAIN config.services \cup Words(target)
    /\ {o.name : o \in config.objects} \cap DOMAIN config.groups = {}
    /\ target = "paloalto" => \A o \in config.objects : o.value \in Networks
    /\ target = "fortigate" => \A o \in config.objects : o.value \in Networks /\ ~IsV6(o.value)

\* The rules that make up the i-th of a device: Palo Alto's `set` adds to a
\* rule of the same name.
Parts(target, config, i) ==
    LET same == {j \in DOMAIN config.rules : /\ config.rules[j].enabled
                                             /\ config.rules[j].name = config.rules[i].name}
    IN  CASE ~config.rules[i].enabled -> {}
          [] config.rules[i].enabled /\ target # "paloalto" -> {i}
          [] OTHER -> IF i = Min(same) THEN same ELSE {}

\* The configuration as the lines of Exporters; FortiGate's are for version 4.
Loaded(target, config) ==
    [i \in DOMAIN config.rules |->
        LET parts == {config.rules[j] : j \in Parts(target, config, i)}
            found(names) == UNION {LookUp(config, n) : n \in names}
            sources == found(UNION {rule.source : rule \in parts})
            destinations == found(UNION {rule.destination : rule \in parts})
            services == {LookUpService(config, s) : s \in UNION {rule.services : rule \in parts}}
        IN  [action |-> config.rules[Max({i} \cup Parts(target, config, i))].action,
             lines  |-> {[protocol |-> s.protocol, ports |-> s.ports,
                          src |-> sources, dst |-> destinations,
                          versions |-> IF target = "fortigate" THEN {4} ELSE {4, 6}]
                         : s \in services}]]

Installed(target, config) == IF target \in LineTargets THEN config ELSE Loaded(target, config)

-----------------------------------------------------------------------------
(* Names of the policy that keep clear of what the target makes of them.   *)

NamesAreApart(target, ir) ==
    /\ target \in {"paloalto", "fortigate"} =>
          \A n \in Several(ir) : MemberNames(ir, n) \cap Referenced(ir) = {}
    /\ target = "fortigate" => all \notin Referenced(ir) \cup DOMAIN ir.services
    /\ target = "checkpoint" => AnyWord \notin DOMAIN ir.addresses \cup DOMAIN ir.services
    /\ target = "paloalto" =>
          \A i, j \in 1..Len(ir.policies) :
              i # j /\ ir.policies[i].enabled /\ ir.policies[j].enabled
                  => ir.policies[i].name # ir.policies[j].name
=============================================================================
