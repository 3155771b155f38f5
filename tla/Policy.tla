------------------------------ MODULE Policy ------------------------------
(***************************************************************************)
(* A compiled policy (FirewallIR of compiler/ir.py) and what it decides    *)
(* (engine/evaluate.py).                                                   *)
(*                                                                         *)
(* A network is the set of its addresses; two networks are disjoint or one *)
(* contains the other, as CIDR blocks are.  A port specification, which    *)
(* the code keeps as sorted disjoint ranges, is the set of its ports; the  *)
(* ends of the ranges can be told from the set.  A hostname is a value no  *)
(* address is compared with.  The order of the values of an object is left *)
(* out, because nothing but the layout of an export depends on it.         *)
(***************************************************************************)
EXTENDS Naturals, Sequences, FiniteSets, Functions

CONSTANTS
    Addresses,   \* IP addresses, as numbers
    V6,          \* those of version 6
    Networks,    \* the CIDR blocks in use
    Hostnames,   \* names
    any,         \* the name and the value "any"
    Star,        \* the endpoint "*" of a flow test
    MaxPort      \* bound: the ports are 1..MaxPort

V4 == Addresses \ V6

ASSUME AddressesAssumption ==
    Addresses \subseteq Nat /\ V6 \subseteq Addresses /\ V6 # {} /\ V4 # {}
ASSUME NetworksAssumption ==
    /\ \A n \in Networks : n # {} /\ IsFiniteSet(n) /\ (n \subseteq V4 \/ n \subseteq V6)
    /\ \A n \in Networks : \A x, y \in n : x..y \subseteq n
    /\ \A m, n \in Networks : m \cap n = {} \/ m \subseteq n \/ n \subseteq m
ASSUME ValuesAssumption == any \notin Networks \cup {V4, V6} /\ Hostnames \cap (Networks \cup {any}) = {}
ASSUME MaxPortAssumption == MaxPort \in Nat \ {0}

Values == Networks \cup Hostnames \cup {any}

AllPorts == 1..MaxPort

NoPort == 0

\* An icmp or "any" service has no port of its own; build_ir gives "any" all
\* ports.  A tcp or udp service can have an empty list of ports.
Service ==
    [protocol : {"tcp", "udp"}, ports : SUBSET AllPorts]
    \cup {[protocol |-> "icmp", ports |-> {}], [protocol |-> "any", ports |-> AllPorts]}

\* The flows that occur: both ends of one version, a port if there are ports.
Packets ==
    {p \in [port : 0..MaxPort, protocol : {"tcp", "udp", "icmp"},
            source : Addresses, destination : Addresses] :
        /\ p.source \in V6 <=> p.destination \in V6
        /\ p.protocol = "icmp" <=> p.port = NoPort}

-----------------------------------------------------------------------------
(* compiler/query.py: what the names in a rule stand for.  A validated     *)
(* rule has no unknown names.                                              *)

AddressValues(ir, names) == UNION {ir.addresses[n] : n \in Range(names)}

ServiceValues(ir, names) == {ir.services[n] : n \in Range(names)}

Protocols(services) == {s.protocol : s \in services}

PortsOf(services) == UNION {s.ports : s \in services}

\* The first and last ports of the ranges of a port specification.
Ends(ports) == {p \in ports : p - 1 \notin ports \/ p + 1 \notin ports}

\* The networks of a policy.
NetworksOf(ir) == Networks \cap UNION {ir.addresses[n] : n \in DOMAIN ir.addresses}

-----------------------------------------------------------------------------
(* engine/evaluate.py                                                      *)

AddrContains(values, address) ==
    any \in values \/ \E n \in values \cap Networks : address \in n

ServiceMatches(service, flow) ==
    /\ service.protocol \in {"any", flow.protocol}
    /\ \/ service.protocol = "any"
       \/ service.ports = AllPorts
       \/ flow.protocol = "icmp"
       \/ flow.port \in service.ports
       \/ flow.port = NoPort /\ service.ports = {}

ServicesMatch(services, flow) == \E s \in services : ServiceMatches(s, flow)

Matches(ir, rule, flow) ==
    /\ rule.enabled
    /\ AddrContains(AddressValues(ir, rule.source), flow.source)
    /\ AddrContains(AddressValues(ir, rule.destination), flow.destination)
    /\ ServicesMatch(ServiceValues(ir, rule.services), flow)

\* The i-th rule is the first that matches.
Decides(ir, i, flow) ==
    /\ Matches(ir, ir.policies[i], flow)
    /\ \A j \in 1..(i-1) : ~Matches(ir, ir.policies[j], flow)

\* evaluate(ir, flow).allowed; without a matching rule the flow is denied.
Allowed(ir, flow) ==
    \E i \in 1..Len(ir.policies) :
        ir.policies[i].action = "allow" /\ Decides(ir, i, flow)
=============================================================================
