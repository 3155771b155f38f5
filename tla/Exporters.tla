----------------------------- MODULE Exporters -----------------------------
(***************************************************************************)
(* The exporters that write one line per combination of a source, a        *)
(* destination and a service: exporters/iptables, nftables, ciscoasa,      *)
(* azure, aws and kubernetes; and how a device that works through the      *)
(* lines decides.                                                          *)
(*                                                                         *)
(* A configuration has one set of lines per rule of the policy.  A line is *)
(* what its text says: source and destination values, a protocol ("any" if *)
(* it names none), the ports ("{}" if it names none) and an action; text   *)
(* in the section for ip6tables-restore belongs to version 6.              *)
(***************************************************************************)
EXTENDS Policy

FirstMatch  == {"iptables", "nftables", "ciscoasa", "azure-nsg"}
AllowOnly   == {"aws-sg", "kubernetes"}
LineTargets == FirstMatch \cup AllowOnly

\* A target that the lossiness report knows to have "reject".
SupportsReject == {"iptables", "nftables", "paloalto", "checkpoint"}

\* describe_lossiness(ir, caps) = [], for every target.
Lossless(ir, target) ==
    \A i \in 1..Len(ir.policies) :
        ir.policies[i].enabled =>
            /\ target \in AllowOnly => ir.policies[i].action = "allow"
            /\ ir.policies[i].action = "reject" => target \in SupportsReject

IsV6(value) == value \in Networks /\ value \subseteq V6

NamesPorts(service) == service.ports \notin {{}, AllPorts}

\* iptables: a line goes to the section of version 6 if one of its ends does.
Iptables(src, dst, service) ==
    [protocol |-> service.protocol,
     ports |-> IF NamesPorts(service) THEN service.ports ELSE {},
     src |-> {src}, dst |-> {dst},
     versions |-> IF IsV6(src) \/ IsV6(dst) THEN {6} ELSE {4}]

\* nftables: a service with all ports names no protocol either.
Nftables(src, dst, service) ==
    [protocol |-> IF service.ports = AllPorts THEN "any" ELSE service.protocol,
     ports |-> IF NamesPorts(service) THEN service.ports ELSE {},
     src |-> {src}, dst |-> {dst}, versions |-> {4, 6}]

\* Mutant: the protocol of a service without ports is left out.
CiscoAsaPortsOnly(src, dst, service) ==
    [protocol |-> IF NamesPorts(service) THEN service.protocol ELSE "any",
     ports |-> IF NamesPorts(service) THEN service.ports ELSE {},
     src |-> {src}, dst |-> {dst}, versions |-> {4, 6}]

CiscoAsa(src, dst, service) ==
    [protocol |-> service.protocol,
     ports |-> IF NamesPorts(service) THEN service.ports ELSE {},
     src |-> {src}, dst |-> {dst}, versions |-> {4, 6}]

\* azure-nsg: one entry per service for all ends of a rule.
Azure(sources, destinations, service) ==
    [protocol |-> service.protocol,
     ports |-> IF NamesPorts(service) THEN service.ports ELSE {},
     src |-> sources, dst |-> destinations, versions |-> {4, 6}]

\* aws-sg and kubernetes: the destination is where the rules are attached,
\* and "any" is written 0.0.0.0/0.
Sources(values) == {IF v = any THEN V4 ELSE v : v \in values}

AwsSg(sources, service) ==
    [protocol |-> service.protocol,
     ports |-> IF NamesPorts(service) THEN service.ports ELSE {},
     src |-> Sources(sources), dst |-> {any}, versions |-> {4, 6}]

\* kubernetes: one entry per rule, whose ports are those of all services that
\* have some; an entry with no ports stands for all protocols and ports.
KubernetesPorts(services) ==
    {s \in services : s.protocol \in {"tcp", "udp"} /\ NamesPorts(s)}

Kubernetes(sources, services) ==
    LET named == KubernetesPorts(services) IN
    IF named = {}
    THEN {[protocol |-> "any", ports |-> {},
           src |-> Sources(sources), dst |-> {any}, versions |-> {4, 6}]}
    ELSE {[protocol |-> s.protocol, ports |-> s.ports,
           src |-> Sources(sources), dst |-> {any}, versions |-> {4, 6}] : s \in named}

\* The lines of one rule; a disabled rule has none, and a target that only
\* allows has none for a rule that does not.
Lines(target, ir, rule) ==
    LET sources == AddressValues(ir, rule.source)
        destinations == AddressValues(ir, rule.destination)
        services == ServiceValues(ir, rule.services)
        each(Line(_, _, _)) == {Line(s, d, v) : s \in sources, d \in destinations, v \in services}
    IN  IF ~rule.enabled \/ (target \in AllowOnly /\ rule.action # "allow") THEN {}
        ELSE CASE target = "iptables"   -> each(Iptables)
               [] target = "nftables"   -> each(Nftables)
               [] target = "ciscoasa"   -> each(CiscoAsa)
               [] target = "azure-nsg"  -> {Azure(sources, destinations, v) : v \in services}
               [] target = "aws-sg"     -> {AwsSg(sources, v) : v \in services}
               [] target = "kubernetes" -> Kubernetes(sources, services)

\* exporter.export(ir)
Export(target, ir) ==
    [i \in 1..Len(ir.policies) |->
        [action |-> IF ir.policies[i].action = "allow" THEN "allow" ELSE "deny",
         lines  |-> Lines(target, ir, ir.policies[i])]]

-----------------------------------------------------------------------------
(* How a device reads a configuration.                                     *)

InEnds(ends, address) ==
    any \in ends \/ \E n \in ends \ (Hostnames \cup {any}) : address \in n

LineMatches(line, p) ==
    /\ (IF p.source \in V6 THEN 6 ELSE 4) \in line.versions
    /\ InEnds(line.src, p.source)
    /\ InEnds(line.dst, p.destination)
    /\ line.protocol \in {"any", p.protocol}
    /\ line.ports = {} \/ p.port \in line.ports

\* The first line that matches decides, and without one nothing passes.
Passed(config, p) ==
    \E i \in DOMAIN config :
        /\ config[i].action = "allow"
        /\ \E line \in config[i].lines : LineMatches(line, p)
        /\ \A j \in 1..(i-1) : \A line \in config[j].lines : ~LineMatches(line, p)
=============================================================================
