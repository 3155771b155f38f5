--------------------------- MODULE CompileProofs ---------------------------
(***************************************************************************)
(* Proofs about Compile: what the pure part of py2fw says of a compiled    *)
(* policy holds for every document the schema and the validation let       *)
(* through, every network plan and every baseline.                         *)
(***************************************************************************)
EXTENDS Compile, SequenceLemmas

-----------------------------------------------------------------------------
(* What the analyses take for granted of a compiled policy.                *)

IsPolicy(p) ==
    /\ any \notin p.repeated
    /\ p.addresses \in [DOMAIN p.addresses -> SUBSET Values]
    /\ \A n \in DOMAIN p.addresses : p.addresses[n] # {} /\ IsFiniteSet(p.addresses[n])
    /\ any \in DOMAIN p.addresses /\ p.addresses[any] = {any}
    /\ p.services \in [DOMAIN p.services -> Service]
    /\ any \in DOMAIN p.services
    /\ p.services[any] = [protocol |-> "any", ports |-> AllPorts]
    /\ Len(p.policies) \in Nat /\ DOMAIN p.policies = 1..Len(p.policies)
    /\ \A i \in 1..Len(p.policies) :
          /\ Range(p.policies[i].source) # {} /\ Range(p.policies[i].destination) # {}
          /\ Range(p.policies[i].source) \subseteq DOMAIN p.addresses
          /\ Range(p.policies[i].destination) \subseteq DOMAIN p.addresses
          /\ Range(p.policies[i].services) # {}
          /\ Range(p.policies[i].services) \subseteq DOMAIN p.services
          /\ p.policies[i].enabled \in BOOLEAN

\* The services of a rule are services.
LEMMA ServicesOfRule ==
    ASSUME NEW p, IsPolicy(p), NEW i \in 1..Len(p.policies)
    PROVE  ServiceValues(p, p.policies[i].services) \subseteq Service
<1>1. \A n \in DOMAIN p.services : p.services[n] \in Service
  BY DEF IsPolicy
<1>2. \A n \in Range(p.policies[i].services) : n \in DOMAIN p.services
  BY DEF IsPolicy
<1> QED
  BY <1>1, <1>2 DEF ServiceValues

\* A service that matches a packet has its port, unless the packet is icmp.
LEMMA MatchingPort ==
    ASSUME NEW s \in Service, NEW f \in Packets, ServiceMatches(s, f)
    PROVE  /\ s.protocol \in {"any", f.protocol}
           /\ f.protocol # "icmp" => f.port \in AllPorts /\ f.port \in s.ports
           /\ f.protocol = "icmp" => f.port = NoPort
           /\ s.protocol = "icmp" => f.protocol = "icmp"
           /\ f.protocol = "icmp" /\ s.protocol # "any" => s.protocol = "icmp" /\ s.ports = {}
<1>1. /\ f.port \in 0..MaxPort /\ f.protocol \in {"tcp", "udp", "icmp"}
      /\ f.protocol = "icmp" <=> f.port = NoPort
  BY DEF Packets
<1>2. f.protocol # "icmp" => f.port \in AllPorts
  BY <1>1, MaxPortAssumption DEF AllPorts, NoPort
<1>3. \/ s.protocol \in {"tcp", "udp"}
      \/ s.protocol = "icmp" /\ s.ports = {}
      \/ s.protocol = "any" /\ s.ports = AllPorts
  BY DEF Service
<1>4. /\ s.protocol \in {"any", f.protocol}
      /\ \/ s.protocol = "any"
         \/ s.ports = AllPorts
         \/ f.protocol = "icmp"
         \/ f.port \in s.ports
         \/ f.port = NoPort /\ s.ports = {}
  BY DEF ServiceMatches
<1> QED
  BY <1>1, <1>2, <1>3, <1>4

-----------------------------------------------------------------------------
(* diff.                                                                   *)

\* Rules with one signature match the same packets.
LEMMA SameRuleMatchesAlike ==
    ASSUME NEW old, NEW new, NEW r, NEW s, NEW p,
           Signature(old, r) = Signature(new, s)
    PROVE  Matches(old, r, p) <=> Matches(new, s, p)
<1>1. /\ AddressValues(old, r.source) = AddressValues(new, s.source)
      /\ AddressValues(old, r.destination) = AddressValues(new, s.destination)
      /\ ServiceValues(old, r.services) = ServiceValues(new, s.services)
      /\ r.enabled = s.enabled
  BY DEF Signature
<1> QED
  BY <1>1 DEF Matches

\* When names are unique, a dictionary of rules has every rule.
LEMMA RuleOfUniqueName ==
    ASSUME NEW p, Len(p.policies) \in Nat, UniqueNames(p), NEW i \in 1..Len(p.policies)
    PROVE  RuleNamed(p, p.policies[i].name) = p.policies[i]
<1> DEFINE same == {j \in 1..Len(p.policies) : p.policies[j].name = p.policies[i].name}
<1>1. \A j \in 1..Len(p.policies) : p.policies[j].name = p.policies[i].name => j = i
  BY DEF UniqueNames, NamesInOrder, IsInjective
<1>2. same = {i}
  BY <1>1
<1>3. Max({i}) = i
  <2>1. i \in Int
    OBVIOUS
  <2>2. \A x \in {i} : (\A y \in {i} : x >= y) <=> x = i
    BY <2>1
  <2> QED
    BY <2>2 DEF Max
<1>4. RuleNamed(p, p.policies[i].name) = p.policies[Max(same)]
  BY DEF RuleNamed
<1> QED
  BY <1>2, <1>3, <1>4

\* Rules that diff finds no change in have one signature, place by place.
LEMMA UnchangedRules ==
    ASSUME NEW old, NEW new, Len(old.policies) \in Nat, Len(new.policies) \in Nat,
           UniqueNames(old), NamesInOrder(old) = NamesInOrder(new),
           DiffPolicies(old, new) = {}
    PROVE  /\ Len(old.policies) = Len(new.policies)
           /\ \A i \in 1..Len(old.policies) :
                 Signature(old, old.policies[i]) = Signature(new, new.policies[i])
<1>1. Len(old.policies) = Len(new.policies)
  <2> DEFINE m == Len(old.policies)
             n == Len(new.policies)
  <2>1. m \in Nat /\ n \in Nat
    OBVIOUS
  <2>2. 1..m = 1..n
    BY DEF NamesInOrder
  <2> HIDE DEF m, n
  <2>3. CASE m < n
    <3>1. n \in 1..n /\ n \notin 1..m
      BY <2>1, <2>3
    <3> QED
      BY <2>2, <3>1
  <2>4. CASE n < m
    <3>1. m \in 1..m /\ m \notin 1..n
      BY <2>1, <2>4
    <3> QED
      BY <2>2, <3>1
  <2> QED
    BY <2>1, <2>3, <2>4 DEF m, n
<1>2. UniqueNames(new)
  BY DEF UniqueNames
<1>3. ASSUME NEW i \in 1..Len(old.policies)
      PROVE  Signature(old, old.policies[i]) = Signature(new, new.policies[i])
  <2> DEFINE n == old.policies[i].name
  <2>1. n = NamesInOrder(old)[i] /\ NamesInOrder(new)[i] = new.policies[i].name
    BY <1>1 DEF NamesInOrder
  <2>2. n = new.policies[i].name
    BY <2>1
  <2>3. n \in RuleNames(old) /\ n \in RuleNames(new)
    BY <1>1, <2>2 DEF RuleNames
  <2>4. RuleNamed(old, n) = old.policies[i] /\ RuleNamed(new, n) = new.policies[i]
    BY <1>1, <1>2, <2>2, RuleOfUniqueName
  <2>5. Side(old, n) = Signature(old, old.policies[i]) /\ Side(new, n) = Signature(new, new.policies[i])
    BY <2>3, <2>4 DEF Side
  <2> HIDE DEF n
  <2>6. Side(old, n) = Side(new, n)
    <3> DEFINE change == [name |-> n, before |-> Side(old, n), after |-> Side(new, n)]
    <3>1. SUFFICES ASSUME Side(old, n) # Side(new, n) PROVE FALSE
      OBVIOUS
    <3>2. change \in DiffPolicies(old, new)
      BY <2>3, <3>1 DEF DiffPolicies
    <3> QED
      BY <3>2
  <2> QED
    BY <2>5, <2>6
<1> QED
  BY <1>1, <1>3

\* No change reported, no change of a decision.
LEMMA UnchangedDecides ==
    ASSUME NEW old, NEW new, Len(old.policies) \in Nat, Len(new.policies) \in Nat
    PROVE  UnchangedDecidesAlike(old, new)
<1> SUFFICES ASSUME UniqueNames(old), NamesInOrder(old) = NamesInOrder(new),
                    DiffPolicies(old, new) = {}, NEW p \in Packets
             PROVE  Allowed(old, p) <=> Allowed(new, p)
  BY DEF UnchangedDecidesAlike, SameDecisions
<1>1. /\ Len(old.policies) = Len(new.policies)
      /\ \A i \in 1..Len(old.policies) :
            Signature(old, old.policies[i]) = Signature(new, new.policies[i])
  BY UnchangedRules
<1>2. \A i \in 1..Len(old.policies) :
          /\ Matches(old, old.policies[i], p) <=> Matches(new, new.policies[i], p)
          /\ old.policies[i].action = new.policies[i].action
  <2> TAKE i \in 1..Len(old.policies)
  <2>1. Signature(old, old.policies[i]) = Signature(new, new.policies[i])
    BY <1>1
  <2>2. Matches(old, old.policies[i], p) <=> Matches(new, new.policies[i], p)
    BY <2>1, SameRuleMatchesAlike
  <2>3. old.policies[i].action = new.policies[i].action
    BY <2>1 DEF Signature
  <2> QED
    BY <2>2, <2>3
<1>3. \A i \in 1..Len(old.policies) : Decides(old, i, p) <=> Decides(new, i, p)
  <2> TAKE i \in 1..Len(old.policies)
  <2>1. \A j \in 1..(i-1) : j \in 1..Len(old.policies)
    OBVIOUS
  <2> QED
    BY <1>2, <2>1 DEF Decides
<1>4. \A i \in 1..Len(old.policies) :
          (old.policies[i].action = "allow" /\ Decides(old, i, p))
             <=> (new.policies[i].action = "allow" /\ Decides(new, i, p))
  BY <1>2, <1>3
<1> QED
  BY <1>1, <1>4 DEF Allowed

-----------------------------------------------------------------------------
(* shadowed, redundant and conflicting rules.                              *)

\* Networks that cover those of another side hold its addresses.
LEMMA CoveredAddresses ==
    ASSUME NEW outer, NEW inner, CoversAddresses(outer, inner),
           NEW a \in Addresses, AddrContains(inner, a)
    PROVE  AddrContains(outer, a)
<1>1. \E i \in Nets(inner) : a \in i
  <2>1. CASE any \in inner
    <3>1. V4 \in Nets(inner) /\ V6 \in Nets(inner)
      BY <2>1 DEF Nets
    <3>2. a \in V4 \/ a \in V6
      BY DEF V4
    <3> QED
      BY <3>1, <3>2
  <2>2. CASE any \notin inner
    BY <2>2 DEF AddrContains, Nets
  <2> QED
    BY <2>1, <2>2
<1>2. \E o \in Nets(outer) : a \in o
  BY <1>1 DEF CoversAddresses
<1> QED
  BY <1>2 DEF Nets, AddrContains

\* A nonempty set of ports has a first and a last one, which are among its ends.
LEMMA EndsEnclose ==
    ASSUME NEW ports \in SUBSET AllPorts, NEW x \in ports
    PROVE  \E a, b \in Ends(ports) : a <= x /\ x <= b
<1>1. PICK b \in ports : \A y \in ports : y <= b
  BY GreatestExists, MaxPortAssumption DEF AllPorts
<1>2. PICK a \in ports : \A y \in ports : a <= y
  BY LeastExists, MaxPortAssumption DEF AllPorts
<1>3. a \in Nat /\ b \in Nat /\ x \in Nat
  BY MaxPortAssumption DEF AllPorts
<1>4. a \in Ends(ports)
  <2>1. a - 1 \notin ports
    BY <1>2, <1>3
  <2> QED
    BY <2>1 DEF Ends
<1>5. b \in Ends(ports)
  <2>1. b + 1 \notin ports
    BY <1>1, <1>3
  <2> QED
    BY <2>1 DEF Ends
<1> QED
  BY <1>1, <1>2, <1>4, <1>5

\* Services of one protocol and one range of ports that cover others match
\* what these match.
LEMMA CoveredServices ==
    ASSUME NEW outer \in SUBSET Service, NEW inner \in SUBSET Service,
           CoversServices(outer, inner),
           \/ "any" \in Protocols(outer)
           \/ /\ Cardinality(Protocols(outer)) = 1
              /\ \A x, y \in PortsOf(outer) : x..y \subseteq PortsOf(outer),
           NEW f \in Packets, ServicesMatch(inner, f)
    PROVE  ServicesMatch(outer, f)
<1>1. CASE "any" \in Protocols(outer)
  BY <1>1 DEF Protocols, ServicesMatch, ServiceMatches
<1>2. CASE "any" \notin Protocols(outer)
  <2>1. PICK s \in inner : ServiceMatches(s, f)
    BY DEF ServicesMatch
  <2>2. s \in Service
    OBVIOUS
  <2>3. PICK q : Protocols(outer) = {q}
    <3>1. Protocols(outer) \subseteq {"tcp", "udp", "icmp", "any"}
      BY DEF Protocols, Service
    <3>2. IsFiniteSet({"tcp", "udp", "icmp", "any"})
      <4>1. {"tcp", "udp", "icmp", "any"} = (({"tcp"} \cup {"udp"}) \cup {"icmp"}) \cup {"any"}
        OBVIOUS
      <4>2. IsFiniteSet({"tcp"})
        BY FS_Singleton
      <4>3. IsFiniteSet({"tcp"} \cup {"udp"})
        BY <4>2, FS_AddElement
      <4>4. IsFiniteSet(({"tcp"} \cup {"udp"}) \cup {"icmp"})
        BY <4>3, FS_AddElement
      <4> QED
        BY <4>1, <4>4, FS_AddElement
    <3>3. IsFiniteSet(Protocols(outer))
      BY <3>1, <3>2, FS_Subset
    <3> QED
      BY <1>2, <3>3, FS_Singleton
  <2>4. s.protocol = q /\ q = f.protocol
    <3>1. s.protocol \in Protocols(inner)
      BY DEF Protocols
    <3>2. Protocols(inner) \subseteq {q}
      BY <1>2, <2>3 DEF CoversServices
    <3>3. s.protocol \in {"any", f.protocol}
      BY <2>1, <2>2, MatchingPort
    <3> QED
      BY <1>2, <2>3, <3>1, <3>2, <3>3
  <2>5. \A t \in outer : t.protocol = q
    BY <2>3 DEF Protocols
  <2>6. PICK t \in outer : t.protocol = q
    BY <2>3 DEF Protocols
  <2>7. CASE f.protocol = "icmp"
    BY <2>4, <2>6, <2>7 DEF ServicesMatch, ServiceMatches
  <2>8. CASE f.protocol # "icmp"
    <3>1. f.port \in AllPorts /\ f.port \in s.ports
      BY <2>1, <2>2, <2>8, MatchingPort
    <3>2. f.port \in PortsOf(inner)
      BY <3>1 DEF PortsOf
    <3>3. f.port \in PortsOf(outer)
      <4>1. CASE PortsOf(outer) = AllPorts
        BY <3>1, <4>1
      <4>2. CASE Ends(PortsOf(inner)) \subseteq PortsOf(outer)
        <5>1. PortsOf(inner) \in SUBSET AllPorts
          BY DEF PortsOf, Service
        <5>2. PICK a, b \in Ends(PortsOf(inner)) : a <= f.port /\ f.port <= b
          BY <3>2, <5>1, EndsEnclose
        <5>3. a \in Nat /\ b \in Nat /\ f.port \in Nat
          BY <3>1, <5>1, MaxPortAssumption DEF Ends, AllPorts
        <5>4. f.port \in a..b
          BY <5>2, <5>3
        <5> QED
          BY <1>2, <4>2, <5>2, <5>4
      <4> QED
        BY <1>2, <3>2, <4>1, <4>2 DEF CoversServices
    <3>4. PICK v \in outer : f.port \in v.ports
      BY <3>3 DEF PortsOf
    <3> QED
      BY <2>4, <2>5, <3>4 DEF ServicesMatch, ServiceMatches
  <2> QED
    BY <2>7, <2>8
<1> QED
  BY <1>1, <1>2

\* A rule that another covers matches no packet that this one does not.
LEMMA SubsumedMatches ==
    ASSUME NEW p, IsPolicy(p), NEW i \in 1..Len(p.policies), NEW j \in 1..Len(p.policies),
           Subsumes(p, p.policies[j], p.policies[i]), Plain(p, p.policies[j]),
           p.policies[j].enabled,
           NEW f \in Packets, Matches(p, p.policies[i], f)
    PROVE  Matches(p, p.policies[j], f)
<1> DEFINE outer == p.policies[j]
           inner == p.policies[i]
<1>1. f.source \in Addresses /\ f.destination \in Addresses
  BY DEF Packets
<1>2. AddrContains(AddressValues(p, outer.source), f.source)
  BY <1>1, CoveredAddresses DEF Subsumes, Matches
<1>3. AddrContains(AddressValues(p, outer.destination), f.destination)
  BY <1>1, CoveredAddresses DEF Subsumes, Matches
<1>4. ServicesMatch(ServiceValues(p, outer.services), f)
  <2> DEFINE os == ServiceValues(p, outer.services)
             is == ServiceValues(p, inner.services)
  <2>1. os \in SUBSET Service /\ is \in SUBSET Service
    BY ServicesOfRule
  <2>2. CoversServices(os, is) /\ ServicesMatch(is, f)
    BY DEF Subsumes, Matches
  <2>3. \/ "any" \in Protocols(os)
        \/ /\ Cardinality(Protocols(os)) = 1
           /\ \A x, y \in PortsOf(os) : x..y \subseteq PortsOf(os)
    BY DEF Plain
  <2> HIDE DEF os, is
  <2>4. ServicesMatch(os, f)
    BY <2>1, <2>2, <2>3, CoveredServices
  <2> QED
    BY <2>4 DEF os
<1> QED
  BY <1>2, <1>3, <1>4 DEF Matches

\* The places before one are places.
LEMMA EarlierRules ==
    ASSUME NEW n \in Nat, NEW i \in 1..n
    PROVE  1..(i-1) \subseteq 1..n
  OBVIOUS

\* A nonempty set of rules has a first one.
LEMMA MinIsMember ==
    ASSUME NEW n \in Nat, NEW T \in SUBSET (1..n), T # {}
    PROVE  Min(T) \in T /\ \A y \in T : Min(T) <= y
<1>1. \E x \in T : \A y \in T : x <= y
  BY LeastExists
<1> QED
  BY <1>1 DEF Min

\* The findings about rules that decide nothing are right.
LEMMA ReportedDecidesNothing ==
    ASSUME NEW p, IsPolicy(p)
    PROVE  ReportedIsUnreachable(p)
<1> SUFFICES ASSUME NEW d \in ShadowFindings(p), d.title # "Conflicting rules",
                    Plain(p, p.policies[d.by]), NEW f \in Packets, Decides(p, d.rule, f)
             PROVE  FALSE
  BY DEF ReportedIsUnreachable
<1>1. /\ d.rule \in 1..Len(p.policies) /\ p.policies[d.rule].enabled
      /\ Coverers(p, d.rule) # {} /\ d.by = Min(Coverers(p, d.rule))
  <2> DEFINE enabled == {i \in 1..Len(p.policies) : p.policies[i].enabled}
             covered == {i \in enabled : Coverers(p, i) # {}}
             opposed == {i \in enabled : Coverers(p, i) = {} /\ Conflicting(p, i) # {}}
             title(i) == IF p.policies[Min(Coverers(p, i))].action = p.policies[i].action
                         THEN "Redundant rule" ELSE "Shadowed rule"
  <2>1. \/ \E i \in covered : d = [rule |-> i, by |-> Min(Coverers(p, i)), title |-> title(i)]
        \/ \E i \in opposed :
              d = [rule |-> i, by |-> Min(Conflicting(p, i)), title |-> "Conflicting rules"]
    BY DEF ShadowFindings
  <2> HIDE DEF covered, opposed, title
  <2>2. PICK i \in covered : d = [rule |-> i, by |-> Min(Coverers(p, i)), title |-> title(i)]
    <3>1. ~ \E i \in opposed :
               d = [rule |-> i, by |-> Min(Conflicting(p, i)), title |-> "Conflicting rules"]
      <4>1. ASSUME NEW i, d = [rule |-> i, by |-> Min(Conflicting(p, i)),
                               title |-> "Conflicting rules"]
            PROVE  FALSE
        <5>1. d.title = "Conflicting rules"
          BY <4>1
        <5> QED
          BY <5>1
      <4> QED
        BY <4>1
    <3> QED
      BY <2>1, <3>1
  <2>3. d.rule = i /\ d.by = Min(Coverers(p, i))
    BY <2>2
  <2> QED
    BY <2>2, <2>3 DEF covered
<1> DEFINE i == d.rule
           j == d.by
<1>2. Len(p.policies) \in Nat
  BY DEF IsPolicy
<1>3. Coverers(p, i) \in SUBSET (1..Len(p.policies))
  <2>1. Coverers(p, i) \subseteq 1..(i-1)
    BY DEF Coverers, Earlier
  <2>2. i \in 1..Len(p.policies)
    BY <1>1
  <2> HIDE DEF i
  <2>3. 1..(i-1) \subseteq 1..Len(p.policies)
    BY <1>2, <2>2, EarlierRules
  <2> QED
    BY <2>1, <2>3
<1>4. j \in Coverers(p, i)
  BY <1>1, <1>2, <1>3, MinIsMember
<1>5. j \in 1..(i-1) /\ p.policies[j].enabled /\ Subsumes(p, p.policies[j], p.policies[i])
  BY <1>4 DEF Coverers, Earlier
<1>6. Matches(p, p.policies[i], f) /\ ~Matches(p, p.policies[j], f)
  BY <1>5 DEF Decides
<1>7. i \in 1..Len(p.policies) /\ j \in 1..Len(p.policies)
  BY <1>1, <1>3, <1>4
<1> HIDE DEF i, j
<1>8. Matches(p, p.policies[j], f)
  BY <1>5, <1>6, <1>7, SubsumedMatches DEF j
<1> QED
  BY <1>6, <1>8

\* Two sides that hold one address overlap.
LEMMA CommonAddress ==
    ASSUME NEW left, NEW right, NEW a \in Addresses,
           AddrContains(left, a), AddrContains(right, a)
    PROVE  OverlapsAddresses(left, right)
<1>1. ASSUME NEW values, AddrContains(values, a) PROVE \E n \in Nets(values) : a \in n
  <2>1. CASE any \in values
    <3>1. a \in V4 \/ a \in V6
      BY DEF V4
    <3> QED
      BY <2>1, <3>1 DEF Nets
  <2>2. CASE any \notin values
    BY <1>1, <2>2 DEF AddrContains, Nets
  <2> QED
    BY <2>1, <2>2
<1>2. PICK m \in Nets(left) : a \in m
  BY <1>1
<1>3. PICK n \in Nets(right) : a \in n
  BY <1>1
<1>4. m \cap n # {}
  BY <1>2, <1>3
<1> QED
  BY <1>4 DEF OverlapsAddresses

\* Services that match one packet overlap, unless some name icmp beside ports.
LEMMA CommonService ==
    ASSUME NEW left \in SUBSET Service, NEW right \in SUBSET Service, NEW f \in Packets,
           ServicesMatch(left, f), ServicesMatch(right, f),
           \A services \in {left, right} :
               ~( /\ "icmp" \in Protocols(services) /\ Protocols(services) # {"icmp"}
                  /\ "any" \notin Protocols(services) )
    PROVE  OverlapsServices(left, right)
<1> SUFFICES ASSUME "any" \notin Protocols(left) \cup Protocols(right)
             PROVE  /\ Protocols(left) \cap Protocols(right) # {}
                    /\ PortsOverlap(PortsOf(left), PortsOf(right))
  BY DEF OverlapsServices
<1>1. PICK s \in left : ServiceMatches(s, f)
  BY DEF ServicesMatch
<1>2. PICK t \in right : ServiceMatches(t, f)
  BY DEF ServicesMatch
<1>3. s \in Service /\ t \in Service
  OBVIOUS
<1>4. s.protocol \in Protocols(left) /\ t.protocol \in Protocols(right)
  BY DEF Protocols
<1>5. s.protocol = f.protocol /\ t.protocol = f.protocol
  BY <1>1, <1>2, <1>3, <1>4, MatchingPort
<1>6. Protocols(left) \cap Protocols(right) # {}
  BY <1>4, <1>5
<1>7. CASE f.protocol # "icmp"
  <2>1. f.port \in s.ports /\ f.port \in t.ports
    BY <1>1, <1>2, <1>3, <1>7, MatchingPort
  <2>2. f.port \in PortsOf(left) /\ f.port \in PortsOf(right)
    BY <2>1 DEF PortsOf
  <2> QED
    BY <1>6, <2>2 DEF PortsOverlap
<1>8. CASE f.protocol = "icmp"
  <2>1. Protocols(left) = {"icmp"} /\ Protocols(right) = {"icmp"}
    BY <1>4, <1>5, <1>8
  <2>2. ASSUME NEW services \in SUBSET Service, Protocols(services) = {"icmp"}
        PROVE  PortsOf(services) = {}
    <3>1. \A v \in services : v.protocol = "icmp"
      BY <2>2 DEF Protocols
    <3>2. \A v \in services : v.ports = {}
      BY <3>1 DEF Service
    <3> QED
      BY <3>2 DEF PortsOf
  <2> QED
    BY <1>6, <2>1, <2>2 DEF PortsOverlap
<1> QED
  BY <1>7, <1>8

\* A rule with a coverer or a rule in conflict has a finding.
LEMMA FindingOf ==
    ASSUME NEW p, NEW i \in 1..Len(p.policies), p.policies[i].enabled,
           Coverers(p, i) # {} \/ Conflicting(p, i) # {}
    PROVE  \E d \in ShadowFindings(p) : d.rule = i
<1> DEFINE title == IF p.policies[Min(Coverers(p, i))].action = p.policies[i].action
                    THEN "Redundant rule" ELSE "Shadowed rule"
<1>1. CASE Coverers(p, i) # {}
  <2> DEFINE d == [rule |-> i, by |-> Min(Coverers(p, i)), title |-> title]
  <2>1. d \in ShadowFindings(p)
    BY <1>1 DEF ShadowFindings
  <2>2. d.rule = i
    OBVIOUS
  <2> QED
    BY <2>1, <2>2
<1>2. CASE Coverers(p, i) = {}
  <2> DEFINE d == [rule |-> i, by |-> Min(Conflicting(p, i)), title |-> "Conflicting rules"]
  <2>1. d \in ShadowFindings(p)
    BY <1>2 DEF ShadowFindings
  <2>2. d.rule = i
    OBVIOUS
  <2> QED
    BY <2>1, <2>2
<1> QED
  BY <1>1, <1>2

\* Rules that decide a packet in opposite ways are found.
LEMMA OppositesHaveFindings ==
    ASSUME NEW p, IsPolicy(p)
    PROVE  OppositesAreReported(p)
<1> SUFFICES ASSUME NEW i \in 1..Len(p.policies), NEW j \in 1..(i-1),
                    p.policies[j].action # p.policies[i].action,
                    ~MixesIcmp(p, p.policies[j]), ~MixesIcmp(p, p.policies[i]),
                    NEW f \in Packets,
                    Matches(p, p.policies[j], f), Matches(p, p.policies[i], f)
             PROVE  \E d \in ShadowFindings(p) : d.rule = i
  BY DEF OppositesAreReported
<1>1. j \in 1..Len(p.policies)
  BY EarlierRules DEF IsPolicy
<1> DEFINE later == p.policies[i]
           first == p.policies[j]
<1>2. later.enabled /\ j \in Earlier(p, i)
  BY DEF Matches, Earlier
<1>3. f.source \in Addresses /\ f.destination \in Addresses
  BY DEF Packets
<1>4. OverlapsAddresses(AddressValues(p, first.source), AddressValues(p, later.source))
  BY <1>3, CommonAddress DEF Matches
<1>5. OverlapsAddresses(AddressValues(p, first.destination), AddressValues(p, later.destination))
  BY <1>3, CommonAddress DEF Matches
<1>6. OverlapsServices(ServiceValues(p, first.services), ServiceValues(p, later.services))
  <2> DEFINE left == ServiceValues(p, first.services)
             right == ServiceValues(p, later.services)
  <2>1. left \in SUBSET Service /\ right \in SUBSET Service
    BY <1>1, ServicesOfRule
  <2>2. ServicesMatch(left, f) /\ ServicesMatch(right, f)
    BY DEF Matches
  <2>3. \A services \in {left, right} :
            ~( /\ "icmp" \in Protocols(services) /\ Protocols(services) # {"icmp"}
               /\ "any" \notin Protocols(services) )
    BY DEF MixesIcmp
  <2> HIDE DEF left, right
  <2>4. OverlapsServices(left, right)
    BY <2>1, <2>2, <2>3, CommonService
  <2> QED
    BY <2>4 DEF left, right
<1>7. Overlaps(p, first, later)
  BY <1>4, <1>5, <1>6 DEF Overlaps
<1>8. CASE Subsumes(p, first, later)
  <2>1. Fingerprint(first) # Fingerprint(later)
    BY DEF Fingerprint
  <2>2. j \in Coverers(p, i)
    BY <1>2, <1>8, <2>1 DEF Coverers
  <2> QED
    BY <1>2, <2>2, FindingOf
<1>9. CASE ~Subsumes(p, first, later)
  <2>1. j \in Conflicting(p, i)
    BY <1>2, <1>7, <1>9 DEF Conflicting
  <2> QED
    BY <1>2, <2>1, FindingOf
<1> QED
  BY <1>8, <1>9

-----------------------------------------------------------------------------
(* compliance and the attack surface.                                      *)

\* A network that names stand for is one of the policy.
LEMMA NamedNetworks ==
    ASSUME NEW p, NEW names, Range(names) \subseteq DOMAIN p.addresses
    PROVE  AddressValues(p, names) \cap Networks \subseteq NetworksOf(p)
  BY DEF AddressValues, NetworksOf

\* A source that holds an address from outside is broad.
LEMMA OutsideIsBroad ==
    ASSUME NEW p, IsPolicy(p), NEW i \in 1..Len(p.policies), NEW a, Outside(p, a),
           AddrContains(AddressValues(p, p.policies[i].source), a)
    PROVE  IsBroadSource(AddressValues(p, p.policies[i].source))
<1> DEFINE values == AddressValues(p, p.policies[i].source)
<1>1. Range(p.policies[i].source) \subseteq DOMAIN p.addresses
  BY DEF IsPolicy
<1>2. \A n \in values \cap Networks : n \in NetworksOf(p)
  BY <1>1, NamedNetworks
<1>3. any \in values \/ \E n \in values \cap Networks : a \in n
  BY DEF AddrContains
<1> HIDE DEF values
<1>4. any \in values \/ values \cap Wide # {}
  BY <1>2, <1>3 DEF Outside
<1> QED
  BY <1>4 DEF IsBroadSource, values

\* A destination without "any" holds addresses that are listed.
LEMMA DestinationIsListed ==
    ASSUME NEW p, IsPolicy(p), NEW i \in 1..Len(p.policies), NEW a,
           AddrContains(AddressValues(p, p.policies[i].destination), a),
           any \notin AddressValues(p, p.policies[i].destination)
    PROVE  Listed(p, a)
<1> DEFINE values == AddressValues(p, p.policies[i].destination)
<1>1. Range(p.policies[i].destination) \subseteq DOMAIN p.addresses
  BY DEF IsPolicy
<1>2. \A n \in values \cap Networks : n \in NetworksOf(p)
  BY <1>1, NamedNetworks
<1>3. \E n \in values \cap Networks : a \in n
  BY DEF AddrContains
<1> QED
  BY <1>2, <1>3 DEF Listed

\* The facts that judge a control, one by one.
LEMMA FactsAre ==
    ASSUME NEW p
    PROVE  /\ Fails(p, "pci_1_4_1") <=> {i \in BroadRules(p) : ToAny(p, i)} # {}
           /\ Fails(p, "pci_1_2_1") <=> BroadRules(p) \cap AllPortsRules(p) # {}
           /\ Fails(p, "pci_1_4_4") <=> DatabaseRules(p) # {}
  BY DEF Facts, Fails, FailOnRules

\* An allowed packet from outside is let in by a broad rule.
LEMMA BroadRuleLetsIn ==
    ASSUME NEW p, IsPolicy(p), NEW f \in FromOutside(p)
    PROVE  \E i \in BroadRules(p) :
               /\ i \in 1..Len(p.policies)
               /\ AddrContains(AddressValues(p, p.policies[i].destination), f.destination)
               /\ \E s \in ServicesOf(p, i) : s \in Service /\ ServiceMatches(s, f)
<1>1. f \in Packets /\ Outside(p, f.source) /\ Allowed(p, f)
  BY DEF FromOutside
<1>2. PICK i \in 1..Len(p.policies) : p.policies[i].action = "allow" /\ Matches(p, p.policies[i], f)
  BY <1>1 DEF Allowed, Decides
<1>3. /\ p.policies[i].enabled
      /\ AddrContains(AddressValues(p, p.policies[i].source), f.source)
      /\ AddrContains(AddressValues(p, p.policies[i].destination), f.destination)
      /\ ServicesMatch(ServicesOf(p, i), f)
  BY <1>2 DEF Matches, ServicesOf
<1>4. IsBroadSource(AddressValues(p, p.policies[i].source))
  BY <1>1, <1>3, OutsideIsBroad
<1>5. i \in BroadRules(p)
  BY <1>2, <1>3, <1>4 DEF BroadRules, Allowing
<1>6. \E s \in ServicesOf(p, i) : s \in Service /\ ServiceMatches(s, f)
  BY <1>3, ServicesOfRule DEF ServicesMatch, ServicesOf
<1> QED
  BY <1>3, <1>5, <1>6

\* A packet with a port has it from the service that matches.
LEMMA PortOfPacket ==
    ASSUME NEW f \in Packets, f.port # NoPort, NEW s \in Service, ServiceMatches(s, f)
    PROVE  f.port \in s.ports
<1>1. f.protocol # "icmp"
  BY DEF Packets
<1> QED
  BY <1>1, MatchingPort

\* Allowing all ports is to have a service for all of them.
LEMMA AllPortsProfiles ==
    ASSUME NEW services \in SUBSET Service
    PROVE  AllPortsProfile(services) <=> AllowsAllPorts(services)
  BY DEF AllPortsProfile, AllowsAllPorts, Service

\* Without a rule that is broad and for a database port no such port is reached.
LEMMA DatabaseControl ==
    ASSUME NEW p, IsPolicy(p), ~Fails(p, "pci_1_4_4"), NEW f \in FromOutside(p)
    PROVE  f.port \notin Database
<1> SUFFICES ASSUME f.port \in Database PROVE FALSE
  OBVIOUS
<1>1. f \in Packets
  BY DEF FromOutside
<1>2. f.port # NoPort
  BY PortsAssumption DEF AllPorts, NoPort
<1>3. PICK i \in BroadRules(p) : \E s \in ServicesOf(p, i) : s \in Service /\ ServiceMatches(s, f)
  BY BroadRuleLetsIn
<1> PICK s \in ServicesOf(p, i) : s \in Service /\ ServiceMatches(s, f)
  BY <1>3
<1>4. f.port \in s.ports
  BY <1>1, <1>2, PortOfPacket
<1>5. f.port \in PortsOf(ServicesOf(p, i))
  BY <1>4 DEF PortsOf
<1>6. i \in DatabaseRules(p)
  BY <1>5 DEF DatabaseRules
<1> QED
  BY <1>6, FactsAre

\* Without a rule from a broad source to any address none is reached that is
\* not listed.
LEMMA DestinationControl ==
    ASSUME NEW p, IsPolicy(p), ~Fails(p, "pci_1_4_1"), NEW f \in FromOutside(p)
    PROVE  Listed(p, f.destination)
<1>1. PICK i \in BroadRules(p) :
          /\ i \in 1..Len(p.policies)
          /\ AddrContains(AddressValues(p, p.policies[i].destination), f.destination)
  BY BroadRuleLetsIn
<1>2. ~ToAny(p, i)
  BY FactsAre
<1> QED
  BY <1>1, <1>2, DestinationIsListed DEF ToAny

\* Without a broad rule for all ports every port that is reached is in a
\* service that names its ports.
LEMMA PortControl ==
    ASSUME NEW p, IsPolicy(p), ~Fails(p, "pci_1_2_1"), NEW f \in FromOutside(p),
           f.port # NoPort
    PROVE  \E s \in Range(p.services) : s.ports # AllPorts /\ f.port \in s.ports
<1>1. f \in Packets
  BY DEF FromOutside
<1>2. PICK i \in BroadRules(p) :
          /\ i \in 1..Len(p.policies)
          /\ \E s \in ServicesOf(p, i) : s \in Service /\ ServiceMatches(s, f)
  BY BroadRuleLetsIn
<1>3. PICK s \in ServicesOf(p, i) : s \in Service /\ ServiceMatches(s, f)
  BY <1>2
<1>4. f.port \in s.ports
  BY <1>1, <1>3, PortOfPacket
<1>5. i \notin AllPortsRules(p)
  BY <1>2, FactsAre
<1>6. ~AllPortsProfile(ServicesOf(p, i))
  BY <1>5 DEF AllPortsRules, BroadRules
<1>7. s.ports # AllPorts
  BY <1>3, <1>6 DEF AllPortsProfile
<1>8. s \in Range(p.services)
  <2>1. PICK n \in Range(p.policies[i].services) : s = p.services[n]
    BY <1>3 DEF ServicesOf, ServiceValues
  <2>2. n \in DOMAIN p.services
    BY <1>2, <2>1 DEF IsPolicy
  <2> QED
    BY <2>1, <2>2 DEF Range
<1> QED
  BY <1>4, <1>7, <1>8

\* A segmentation rule decides nothing from outside or to what is not listed.
LEMMA SegmentationStaysInside ==
    ASSUME NEW p, IsPolicy(p), NEW i \in Facts(p).segmentation_rules,
           NEW f \in Packets, Decides(p, i, f)
    PROVE  ~Outside(p, f.source) /\ Listed(p, f.destination)
<1>1. i \in Allowing(p) /\ i \notin BroadRules(p) /\ ~ToAny(p, i)
  BY DEF Facts
<1>2. i \in 1..Len(p.policies)
  BY <1>1 DEF Allowing
<1>3. /\ AddrContains(AddressValues(p, p.policies[i].source), f.source)
      /\ AddrContains(AddressValues(p, p.policies[i].destination), f.destination)
  BY DEF Decides, Matches
<1>4. ~IsBroadSource(AddressValues(p, p.policies[i].source))
  BY <1>1 DEF BroadRules
<1> QED
  BY <1>1, <1>2, <1>3, <1>4, OutsideIsBroad, DestinationIsListed DEF ToAny

\* What one finding about a rule that allows says of the rule.
LEMMA FindingSays ==
    ASSUME NEW p, NEW i, NEW d \in RuleSurface(p, i)
    PROVE  LET broad == IsBroad(AddressValues(p, p.policies[i].source))
               services == ServiceValues(p, p.policies[i].services)
           IN  /\ d.rule = i
               /\ d.title = "Any to Any" => broad /\ ToAny(p, i)
               /\ d.title = "Broad source to all ports" => broad /\ AllowsAllPorts(services)
               /\ d.title = "Internet to internal database" =>
                     broad /\ PortsOf(services) \cap Database # {}
<1> DEFINE broad == IsBroad(AddressValues(p, p.policies[i].source))
           services == ServiceValues(p, p.policies[i].services)
           exposed == IF broad THEN PortsOf(services) ELSE {}
<1>1. \/ d \in ScopeFindings(p, i, broad)
      \/ d = RuleFinding(i, "Any to Any", "critical") /\ broad /\ ToAny(p, i)
      \/ \E x \in exposed \cap DOMAIN HighRisk : d = RuleFinding(i, HighRisk[x], "high")
      \/ d = RuleFinding(i, "Internet to internal database", "high") /\ exposed \cap Database # {}
      \/ d = RuleFinding(i, "Broad source to all ports", "high") /\ broad /\ AllowsAllPorts(services)
  BY DEF RuleSurface, ToAny
<1>2. CASE d \in ScopeFindings(p, i, broad)
  <2>1. \/ d = RuleFinding(i, "Allows all services", "medium")
        \/ d = RuleFinding(i, "Wide port range", "medium")
        \/ d = RuleFinding(i, "Any destination", "medium")
        \/ d = RuleFinding(i, "Cleartext protocol", "low")
    <3>1. \/ d \in {RuleFinding(i, "Allows all services", "medium")}
          \/ d \in {RuleFinding(i, "Wide port range", "medium")}
          \/ d \in {RuleFinding(i, "Any destination", "medium")}
          \/ d \in {RuleFinding(i, "Cleartext protocol", "low")}
      BY <1>2 DEF ScopeFindings
    <3> QED
      BY <3>1
  <2>2. /\ d.rule = i
        /\ d.title # "Any to Any" /\ d.title # "Broad source to all ports"
        /\ d.title # "Internet to internal database"
    <3>1. CASE d = RuleFinding(i, "Allows all services", "medium")
      BY <3>1 DEF RuleFinding
    <3>2. CASE d = RuleFinding(i, "Wide port range", "medium")
      BY <3>2 DEF RuleFinding
    <3>3. CASE d = RuleFinding(i, "Any destination", "medium")
      BY <3>3 DEF RuleFinding
    <3>4. CASE d = RuleFinding(i, "Cleartext protocol", "low")
      BY <3>4 DEF RuleFinding
    <3> QED
      BY <2>1, <3>1, <3>2, <3>3, <3>4
  <2> QED
    BY <2>2
<1>3. CASE d = RuleFinding(i, "Any to Any", "critical") /\ broad /\ ToAny(p, i)
  BY <1>3 DEF RuleFinding
<1>4. CASE \E x \in exposed \cap DOMAIN HighRisk : d = RuleFinding(i, HighRisk[x], "high")
  <2>1. PICK x \in DOMAIN HighRisk : d = RuleFinding(i, HighRisk[x], "high")
    BY <1>4
  <2>2. HighRisk[x] \in Range(HighRisk)
    BY DEF Range
  <2>3. d.rule = i /\ d.title = HighRisk[x]
    BY <2>1 DEF RuleFinding
  <2> QED
    BY <2>2, <2>3, TitlesAssumption
<1>5. CASE d = RuleFinding(i, "Internet to internal database", "high") /\ exposed \cap Database # {}
  <2>1. broad /\ PortsOf(services) \cap Database # {}
    BY <1>5
  <2> QED
    BY <1>5, <2>1 DEF RuleFinding
<1>6. CASE /\ d = RuleFinding(i, "Broad source to all ports", "high")
           /\ broad /\ AllowsAllPorts(services)
  BY <1>6 DEF RuleFinding
<1> QED
  BY <1>1, <1>2, <1>3, <1>4, <1>5, <1>6

\* And what a rule that allows has findings for.
LEMMA RuleHasFinding ==
    ASSUME NEW p, NEW i, IsBroad(AddressValues(p, p.policies[i].source))
    PROVE  LET services == ServiceValues(p, p.policies[i].services)
           IN  /\ ToAny(p, i) => \E d \in RuleSurface(p, i) : d.title = "Any to Any"
               /\ AllowsAllPorts(services) =>
                     \E d \in RuleSurface(p, i) : d.title = "Broad source to all ports"
               /\ PortsOf(services) \cap Database # {} =>
                     \E d \in RuleSurface(p, i) : d.title = "Internet to internal database"
<1> DEFINE services == ServiceValues(p, p.policies[i].services)
<1>1. ASSUME ToAny(p, i) PROVE RuleFinding(i, "Any to Any", "critical") \in RuleSurface(p, i)
  BY <1>1 DEF RuleSurface, ToAny
<1>2. ASSUME AllowsAllPorts(services)
      PROVE  RuleFinding(i, "Broad source to all ports", "high") \in RuleSurface(p, i)
  BY <1>2 DEF RuleSurface
<1>3. ASSUME PortsOf(services) \cap Database # {}
      PROVE  RuleFinding(i, "Internet to internal database", "high") \in RuleSurface(p, i)
  BY <1>3 DEF RuleSurface
<1>4. \A title, severity : RuleFinding(i, title, severity).title = title
  BY DEF RuleFinding
<1> QED
  BY <1>1, <1>2, <1>3, <1>4

\* The rules that have a finding of one of the three titles.
LEMMA ReportedRules ==
    ASSUME NEW p, NEW title, title # "Disabled rule"
    PROVE  \A i : i \in Reported(p, title) <=>
                     i \in Allowing(p) /\ \E d \in RuleSurface(p, i) : d.title = title
<1>1. ASSUME NEW i \in 1..Len(p.policies), NEW d \in SurfaceOf(p, i)
      PROVE  d.rule = i /\ (d.title = title => i \in Allowing(p) /\ d \in RuleSurface(p, i))
  <2>1. CASE ~p.policies[i].enabled
    <3>1. d = RuleFinding(i, "Disabled rule", "medium")
      BY <2>1 DEF SurfaceOf
    <3> QED
      BY <3>1 DEF RuleFinding
  <2>2. CASE p.policies[i].enabled
    <3>1. p.policies[i].action = "allow" /\ d \in RuleSurface(p, i)
      BY <2>2 DEF SurfaceOf
    <3>2. d.rule = i
      BY <3>1, FindingSays
    <3> QED
      BY <2>2, <3>1, <3>2 DEF Allowing
  <2> QED
    BY <2>1, <2>2
<1> TAKE i
<1>2. ASSUME i \in Reported(p, title)
      PROVE  i \in Allowing(p) /\ \E d \in RuleSurface(p, i) : d.title = title
  <2>1. PICK d \in AttackSurface(p) : d.title = title /\ d.rule = i
    BY <1>2 DEF Reported
  <2>2. PICK j \in 1..Len(p.policies) : d \in SurfaceOf(p, j)
    BY DEF AttackSurface
  <2>3. j = i /\ i \in Allowing(p) /\ d \in RuleSurface(p, i)
    BY <1>1, <2>1, <2>2
  <2> QED
    BY <2>1, <2>3
<1>3. ASSUME i \in Allowing(p), NEW d \in RuleSurface(p, i), d.title = title
      PROVE  i \in Reported(p, title)
  <2>1. i \in 1..Len(p.policies) /\ d \in SurfaceOf(p, i)
    BY <1>3 DEF Allowing, SurfaceOf
  <2>2. d \in AttackSurface(p) /\ d.rule = i
    BY <1>1, <2>1 DEF AttackSurface
  <2> QED
    BY <1>3, <2>2 DEF Reported
<1> QED
  BY <1>2, <1>3

\* Both modules name the same rules.
LEMMA SameRulesReported ==
    ASSUME NEW p, IsPolicy(p)
    PROVE  /\ Facts(p).any_to_any = Reported(p, "Any to Any")
           /\ Facts(p).untrusted_all_ports = Reported(p, "Broad source to all ports")
           /\ Facts(p).internet_to_database = Reported(p, "Internet to internal database")
<1>1. /\ Facts(p).any_to_any = {i \in BroadRules(p) : ToAny(p, i)}
      /\ Facts(p).untrusted_all_ports = BroadRules(p) \cap AllPortsRules(p)
      /\ Facts(p).internet_to_database = DatabaseRules(p)
  BY DEF Facts
<1>2. \A i : i \in BroadRules(p) <=>
                 i \in Allowing(p) /\ IsBroad(AddressValues(p, p.policies[i].source))
  BY DEF BroadRules, IsBroadSource, IsBroad
<1>3. ASSUME NEW i, NEW title, i \in Reported(p, title),
             title \in {"Any to Any", "Broad source to all ports", "Internet to internal database"}
      PROVE  i \in Allowing(p) /\ \E d \in RuleSurface(p, i) : d.title = title
  BY <1>3, ReportedRules
<1>4. ASSUME NEW i \in Allowing(p), NEW title, \E d \in RuleSurface(p, i) : d.title = title,
             title \in {"Any to Any", "Broad source to all ports", "Internet to internal database"}
      PROVE  i \in Reported(p, title)
  BY <1>4, ReportedRules
<1>5. Facts(p).any_to_any = Reported(p, "Any to Any")
  <2>1. ASSUME NEW i \in BroadRules(p), ToAny(p, i) PROVE i \in Reported(p, "Any to Any")
    <3>1. \E d \in RuleSurface(p, i) : d.title = "Any to Any"
      BY <1>2, <2>1, RuleHasFinding
    <3> QED
      BY <1>2, <1>4, <3>1
  <2>2. ASSUME NEW i \in Reported(p, "Any to Any") PROVE i \in BroadRules(p) /\ ToAny(p, i)
    <3>1. PICK d \in RuleSurface(p, i) : d.title = "Any to Any"
      BY <1>3
    <3>2. IsBroad(AddressValues(p, p.policies[i].source)) /\ ToAny(p, i)
      BY <3>1, FindingSays
    <3> QED
      BY <1>2, <1>3, <3>2
  <2> QED
    BY <1>1, <2>1, <2>2
<1>6. Facts(p).untrusted_all_ports = Reported(p, "Broad source to all ports")
  <2>1. ASSUME NEW i \in Allowing(p)
        PROVE  i \in AllPortsRules(p) <=>
                   AllowsAllPorts(ServiceValues(p, p.policies[i].services))
    <3>1. ServiceValues(p, p.policies[i].services) \in SUBSET Service
      BY ServicesOfRule DEF Allowing
    <3> QED
      BY <3>1, AllPortsProfiles DEF AllPortsRules, ServicesOf
  <2>2. ASSUME NEW i \in BroadRules(p) \cap AllPortsRules(p)
        PROVE  i \in Reported(p, "Broad source to all ports")
    <3>1. \E d \in RuleSurface(p, i) : d.title = "Broad source to all ports"
      BY <1>2, <2>1, RuleHasFinding
    <3> QED
      BY <1>2, <1>4, <3>1
  <2>3. ASSUME NEW i \in Reported(p, "Broad source to all ports")
        PROVE  i \in BroadRules(p) \cap AllPortsRules(p)
    <3>1. PICK d \in RuleSurface(p, i) : d.title = "Broad source to all ports"
      BY <1>3
    <3>2. /\ IsBroad(AddressValues(p, p.policies[i].source))
          /\ AllowsAllPorts(ServiceValues(p, p.policies[i].services))
      BY <3>1, FindingSays
    <3> QED
      BY <1>2, <1>3, <2>1, <3>2
  <2> QED
    BY <1>1, <2>2, <2>3
<1>7. Facts(p).internet_to_database = Reported(p, "Internet to internal database")
  <2>1. \A i : i \in DatabaseRules(p) <=>
            /\ i \in BroadRules(p)
            /\ PortsOf(ServiceValues(p, p.policies[i].services)) \cap Database # {}
    BY DEF DatabaseRules, ServicesOf
  <2>2. ASSUME NEW i \in DatabaseRules(p)
        PROVE  i \in Reported(p, "Internet to internal database")
    <3>1. \E d \in RuleSurface(p, i) : d.title = "Internet to internal database"
      BY <1>2, <2>1, RuleHasFinding
    <3> QED
      BY <1>2, <1>4, <2>1, <3>1
  <2>3. ASSUME NEW i \in Reported(p, "Internet to internal database")
        PROVE  i \in DatabaseRules(p)
    <3>1. PICK d \in RuleSurface(p, i) : d.title = "Internet to internal database"
      BY <1>3
    <3>2. /\ IsBroad(AddressValues(p, p.policies[i].source))
          /\ PortsOf(ServiceValues(p, p.policies[i].services)) \cap Database # {}
      BY <3>1, FindingSays
    <3> QED
      BY <1>2, <1>3, <2>1, <3>2
  <2> QED
    BY <1>1, <2>2, <2>3
<1> QED
  BY <1>5, <1>6, <1>7

\* Whatever control passes holds of every decision.
LEMMA PassedControls ==
    ASSUME NEW p, IsPolicy(p)
    PROVE  ControlsHold(p)
  BY DatabaseControl, DestinationControl, PortControl, SegmentationStaysInside,
     SameRulesReported DEF ControlsHold

-----------------------------------------------------------------------------
(* What groups resolve to: Resolve is a recursive function of the groups   *)
(* being resolved, whose number falls with every call.                     *)

\* What is resolved for the names, given what is resolved one group deeper.
Step(doc, values, stack) ==
    [n \in Named(doc) \cup {any} |->
        IF n \in DOMAIN doc.objects THEN {Normalize(v) : v \in doc.objects[n]}
        ELSE IF n = any THEN {any}
        ELSE IF n \in stack THEN Unresolved
        ELSE Joined({values[stack \cup {n}][m] : m \in doc.groups[n]})]

\* The groups that are not being resolved, by number.
Open(doc, stack) == Cardinality(DOMAIN doc.groups \ stack)

\* One more group in the stack leaves one less.
LEMMA OpenFalls ==
    ASSUME NEW doc, IsFiniteSet(DOMAIN doc.groups), NEW stack \in SUBSET DOMAIN doc.groups,
           NEW n \in DOMAIN doc.groups, n \notin stack
    PROVE  /\ stack \cup {n} \in SUBSET DOMAIN doc.groups
           /\ Open(doc, stack) \in Nat /\ Open(doc, stack \cup {n}) \in Nat
           /\ Open(doc, stack \cup {n}) = Open(doc, stack) - 1
<1> DEFINE rest == DOMAIN doc.groups \ stack
<1>1. IsFiniteSet(rest) /\ n \in rest
  BY FS_Subset
<1>2. DOMAIN doc.groups \ (stack \cup {n}) = rest \ {n}
  OBVIOUS
<1>3. Cardinality(rest \ {n}) = Cardinality(rest) - 1 /\ IsFiniteSet(rest \ {n})
  BY <1>1, FS_RemoveElement
<1>4. Cardinality(rest) \in Nat /\ Cardinality(rest \ {n}) \in Nat
  BY <1>1, <1>3, FS_CardinalityType
<1> QED
  BY <1>2, <1>3, <1>4 DEF Open

\* A step reads only what is one group deeper.
LEMMA StepReads ==
    ASSUME NEW doc, NEW stack \in SUBSET DOMAIN doc.groups, NEW f, NEW g,
           \A n \in DOMAIN doc.groups \ stack : f[stack \cup {n}] = g[stack \cup {n}]
    PROVE  Step(doc, f, stack) = Step(doc, g, stack)
<1>1. ASSUME NEW n \in Named(doc) \cup {any}
      PROVE  Step(doc, f, stack)[n] = Step(doc, g, stack)[n]
  <2>1. CASE n \in DOMAIN doc.objects \/ n = any \/ n \in stack
    BY <2>1 DEF Step
  <2>2. CASE ~(n \in DOMAIN doc.objects \/ n = any \/ n \in stack)
    <3>1. f[stack \cup {n}] = g[stack \cup {n}]
      BY <2>2 DEF Named
    <3> QED
      BY <2>2, <3>1 DEF Step
  <2> QED
    BY <2>1, <2>2
<1> DEFINE F == Step(doc, f, stack)  G == Step(doc, g, stack)
<1>2. /\ F = [n \in Named(doc) \cup {any} |-> F[n]]
      /\ G = [n \in Named(doc) \cup {any} |-> G[n]]
  BY DEF Step
<1> HIDE DEF F, G
<1>3. \A n \in Named(doc) \cup {any} : F[n] = G[n]
  BY <1>1 DEF F, G
<1>4. F = G
  BY <1>2, <1>3
<1> QED
  BY <1>4 DEF F, G

\* Some function resolves every name for every stack.
LEMMA ResolutionExists ==
    ASSUME NEW doc, IsFiniteSet(DOMAIN doc.groups)
    PROVE  \E f : f = [stack \in SUBSET DOMAIN doc.groups |-> Step(doc, f, stack)]
<1> DEFINE Stacks == SUBSET DOMAIN doc.groups
           Good == {k \in Nat : \E f : \A stack \in Stacks :
                       Open(doc, stack) < k => f[stack] = Step(doc, f, stack)}
           total == Cardinality(DOMAIN doc.groups)
<1>1. \A stack \in Stacks : Open(doc, stack) \in Nat /\ Open(doc, stack) <= total
  <2> TAKE stack \in Stacks
  <2>1. IsFiniteSet(DOMAIN doc.groups \ stack) /\ Open(doc, stack) <= total
    BY FS_Subset DEF Open
  <2> QED
    BY <2>1, FS_CardinalityType DEF Open
<1>2. 0 \in Good
  BY <1>1
<1>3. ASSUME NEW k \in Nat, k \in Good PROVE k + 1 \in Good
  <2>1. PICK f : \A stack \in Stacks : Open(doc, stack) < k => f[stack] = Step(doc, f, stack)
    BY <1>3
  <2> DEFINE h == [stack \in Stacks |-> Step(doc, f, stack)]
  <2>2. ASSUME NEW stack \in Stacks, Open(doc, stack) < k + 1
        PROVE  h[stack] = Step(doc, h, stack)
    <3>1. ASSUME NEW n \in DOMAIN doc.groups \ stack
          PROVE  f[stack \cup {n}] = h[stack \cup {n}]
      <4>1. /\ stack \cup {n} \in Stacks
            /\ Open(doc, stack) \in Nat /\ Open(doc, stack \cup {n}) \in Nat
            /\ Open(doc, stack \cup {n}) = Open(doc, stack) - 1
        BY OpenFalls
      <4>2. Open(doc, stack \cup {n}) < k
        BY <2>2, <4>1
      <4> QED
        BY <2>1, <4>1, <4>2
    <3> HIDE DEF h
    <3>2. Step(doc, f, stack) = Step(doc, h, stack)
      BY <3>1, StepReads
    <3> QED
      BY <3>2 DEF h
  <2> HIDE DEF h
  <2> QED
    BY <2>2
<1>4. total + 1 \in Good
  <2>1. total \in Nat
    BY FS_CardinalityType
  <2> HIDE DEF Good, total
  <2> QED
    BY <1>2, <1>3, <2>1, SetInduction
<1>5. PICK f : \A stack \in Stacks : Open(doc, stack) < total + 1 => f[stack] = Step(doc, f, stack)
  BY <1>4
<1>6. total \in Nat
  BY FS_CardinalityType
<1>7. \A stack \in Stacks : f[stack] = Step(doc, f, stack)
  <2> HIDE DEF total
  <2> QED
    BY <1>1, <1>5, <1>6
<1> DEFINE h == [stack \in Stacks |-> f[stack]]
<1>8. \A stack \in Stacks : h[stack] = Step(doc, h, stack)
  <2> TAKE stack \in Stacks
  <2>1. ASSUME NEW n \in DOMAIN doc.groups \ stack
        PROVE  f[stack \cup {n}] = h[stack \cup {n}]
    OBVIOUS
  <2>2. h[stack] = Step(doc, f, stack)
    BY <1>7
  <2> HIDE DEF h
  <2>3. Step(doc, f, stack) = Step(doc, h, stack)
    BY <2>1, StepReads
  <2> QED
    BY <2>2, <2>3
<1>9. h = [stack \in Stacks |-> h[stack]]
  OBVIOUS
<1> HIDE DEF h
<1>10. h = [stack \in Stacks |-> Step(doc, h, stack)]
  BY <1>8, <1>9
<1> QED
  BY <1>10

\* What a function makes of a finite set is finite.
LEMMA FiniteImage ==
    ASSUME NEW S, IsFiniteSet(S), NEW f
    PROVE  IsFiniteSet({f[x] : x \in S})
<1> DEFINE T == {f[x] : x \in S}
           g == [x \in S |-> f[x]]
<1>1. g \in Surjection(S, T)
  BY DEF Surjection
<1> QED
  BY <1>1, FS_Surjection

\* What a name can stand for.
Meanings == {v \in SUBSET Values : v # {} /\ IsFiniteSet(v)} \cup {Unresolved}

\* The values of an object, with the whole address space as "any".
LEMMA ObjectMeans ==
    ASSUME NEW doc, IsDocument(doc), Valid(doc), NEW n \in DOMAIN doc.objects
    PROVE  {Normalize(v) : v \in doc.objects[n]} \in Meanings
<1> DEFINE S == doc.objects[n]
           f == [v \in S |-> Normalize(v)]
           T == {f[v] : v \in S}
<1>1. S \subseteq Values \cup Everything /\ IsFiniteSet(S) /\ S # {}
  BY DEF IsDocument, Valid
<1>2. \A v \in S : Normalize(v) \in Values
  BY <1>1 DEF Normalize, Values
<1>3. {Normalize(v) : v \in S} = T
  OBVIOUS
<1>4. IsFiniteSet(T)
  <2> HIDE DEF f
  <2> QED
    BY <1>1, FiniteImage
<1>5. T \in SUBSET Values /\ T # {}
  BY <1>1, <1>2
<1> HIDE DEF T, S
<1>6. T \in Meanings
  BY <1>4, <1>5 DEF Meanings
<1> QED
  BY <1>3, <1>6 DEF S

\* So does a group whose members do.
LEMMA JoinedMeans ==
    ASSUME NEW parts \in SUBSET Meanings, IsFiniteSet(parts), parts # {}
    PROVE  Joined(parts) \in Meanings
<1>1. CASE Unresolved \in parts
  BY <1>1 DEF Joined, Meanings
<1>2. CASE Unresolved \notin parts
  <2>1. \A v \in parts : v \in SUBSET Values /\ v # {} /\ IsFiniteSet(v)
    BY <1>2 DEF Meanings
  <2>2. IsFiniteSet(UNION parts)
    BY <2>1, FS_UNION
  <2>3. UNION parts \in SUBSET Values /\ UNION parts # {}
    BY <2>1
  <2>4. Joined(parts) = UNION parts
    BY <1>2 DEF Joined
  <2> QED
    BY <2>2, <2>3, <2>4 DEF Meanings
<1> QED
  BY <1>1, <1>2

LEMMA StepMeans ==
    ASSUME NEW doc, IsDocument(doc), Valid(doc), NEW stack \in SUBSET DOMAIN doc.groups, NEW f,
           \A n \in DOMAIN doc.groups \ stack : \A m \in Named(doc) \cup {any} :
               f[stack \cup {n}][m] \in Meanings,
           NEW n \in Named(doc) \cup {any}
    PROVE  Step(doc, f, stack)[n] \in Meanings
<1>1. CASE n \in DOMAIN doc.objects
  <2>1. Step(doc, f, stack)[n] = {Normalize(v) : v \in doc.objects[n]}
    BY <1>1 DEF Step
  <2> QED
    BY <1>1, <2>1, ObjectMeans
<1>2. CASE n \notin DOMAIN doc.objects /\ n = any
  <2>1. Step(doc, f, stack)[n] = {any}
    BY <1>2 DEF Step
  <2>2. {any} \in SUBSET Values /\ {any} # {} /\ IsFiniteSet({any})
    BY FS_Singleton DEF Values
  <2> QED
    BY <2>1, <2>2 DEF Meanings
<1>3. CASE n \notin DOMAIN doc.objects /\ n # any /\ n \in stack
  <2>1. Step(doc, f, stack)[n] = Unresolved
    BY <1>3 DEF Step
  <2> QED
    BY <2>1 DEF Meanings
<1>4. CASE n \notin DOMAIN doc.objects /\ n # any /\ n \notin stack
  <2> DEFINE deeper == f[stack \cup {n}]
             parts == {deeper[m] : m \in doc.groups[n]}
  <2>1. n \in DOMAIN doc.groups \ stack
    BY <1>4 DEF Named
  <2>2. doc.groups[n] # {} /\ doc.groups[n] \subseteq Named(doc) \cup {any}
        /\ IsFiniteSet(doc.groups[n])
    BY <2>1 DEF IsDocument, Valid
  <2>3. parts \in SUBSET Meanings /\ parts # {}
    BY <2>1, <2>2
  <2>4. IsFiniteSet(parts)
    <3> HIDE DEF deeper
    <3> QED
      BY <2>2, FiniteImage
  <2>5. Step(doc, f, stack)[n] = Joined(parts)
    BY <1>4 DEF Step
  <2> HIDE DEF parts
  <2> QED
    BY <2>3, <2>4, <2>5, JoinedMeans
<1> QED
  BY <1>1, <1>2, <1>3, <1>4

\* Every name of a valid document stands for some values, unless it raises.
LEMMA NamesMean ==
    ASSUME NEW doc, IsDocument(doc), Valid(doc), NEW name \in Named(doc)
    PROVE  Resolve(doc)[name] \in Meanings
<1> DEFINE Stacks == SUBSET DOMAIN doc.groups
           f == CHOOSE f : f = [stack \in Stacks |-> Step(doc, f, stack)]
           Good == {k \in Nat : \A stack \in Stacks : Open(doc, stack) < k =>
                       \A n \in Named(doc) \cup {any} : f[stack][n] \in Meanings}
           total == Cardinality(DOMAIN doc.groups)
<1>1. IsFiniteSet(DOMAIN doc.groups) /\ total \in Nat
  BY FS_CardinalityType DEF IsDocument
<1>2. f = [stack \in Stacks |-> Step(doc, f, stack)]
  BY <1>1, ResolutionExists
<1>3. Resolve(doc) = [n \in Named(doc) |-> f[{}][n]]
  BY DEF Resolve, Step
<1> HIDE DEF f
<1>4. \A stack \in Stacks : f[stack] = Step(doc, f, stack)
  BY <1>2
<1>5. 0 \in Good
  <2>1. \A stack \in Stacks : Open(doc, stack) \in Nat
    BY <1>1, FS_Subset, FS_CardinalityType DEF Open
  <2> QED
    BY <2>1
<1>6. ASSUME NEW k \in Nat, k \in Good PROVE k + 1 \in Good
  <2>1. ASSUME NEW stack \in Stacks, Open(doc, stack) < k + 1,
               NEW n \in Named(doc) \cup {any}
        PROVE  f[stack][n] \in Meanings
    <3>1. ASSUME NEW g \in DOMAIN doc.groups \ stack, NEW m \in Named(doc) \cup {any}
          PROVE  f[stack \cup {g}][m] \in Meanings
      <4>1. /\ stack \cup {g} \in Stacks
            /\ Open(doc, stack) \in Nat /\ Open(doc, stack \cup {g}) \in Nat
            /\ Open(doc, stack \cup {g}) = Open(doc, stack) - 1
        BY <1>1, OpenFalls
      <4>2. Open(doc, stack \cup {g}) < k
        BY <2>1, <4>1
      <4> QED
        BY <1>6, <4>1, <4>2
    <3>2. Step(doc, f, stack)[n] \in Meanings
      BY <3>1, StepMeans
    <3> QED
      BY <1>4, <3>2
  <2> QED
    BY <2>1
<1>7. total + 1 \in Good
  <2> HIDE DEF Good, total
  <2> QED
    BY <1>1, <1>5, <1>6, SetInduction
<1>8. {} \in Stacks /\ Open(doc, {}) = total
  <2>1. DOMAIN doc.groups \ {} = DOMAIN doc.groups
    OBVIOUS
  <2> QED
    BY <2>1 DEF Open
<1>9. f[{}][name] \in Meanings
  <2>1. total < total + 1
    BY <1>1
  <2> HIDE DEF total
  <2> QED
    BY <1>7, <1>8, <2>1
<1> QED
  BY <1>3, <1>9

\* A compiled document is what the analyses take it for.
LEMMA BuiltIsPolicy ==
    ASSUME NEW doc, IsDocument(doc), Valid(doc), ~Raises(doc), NEW pins \in HostMaps
    PROVE  IsPolicy(BuildIR(doc, pins))
<1> DEFINE p == BuildIR(doc, pins)
           names == Named(doc) \cup {any}
           meaning == [n \in names |-> IF n = any THEN {any} ELSE Expand(Resolve(doc)[n], pins)]
<1>1. /\ p.addresses = meaning
      /\ p.policies = doc.policies
      /\ p.services = [s \in DOMAIN doc.services \cup {any} |->
                           IF s = any THEN [protocol |-> "any", ports |-> AllPorts]
                                      ELSE doc.services[s]]
  BY DEF BuildIR
<1>2. ASSUME NEW n \in names
      PROVE  meaning[n] \in SUBSET Values /\ meaning[n] # {} /\ IsFiniteSet(meaning[n])
  <2>1. CASE n = any
    BY <2>1, FS_Singleton DEF Values
  <2>2. CASE n # any
    <3> DEFINE values == Resolve(doc)[n]
               pinned == [v \in values |-> IF v \in DOMAIN pins THEN pins[v] ELSE {v}]
               parts == {pinned[v] : v \in values}
    <3>1. n \in Named(doc) /\ values \in Meanings /\ values # Unresolved
      BY <2>2, NamesMean DEF Raises
    <3>2. values \in SUBSET Values /\ values # {} /\ IsFiniteSet(values)
      BY <3>1 DEF Meanings
    <3> HIDE DEF values
    <3>3. ASSUME NEW v \in values
          PROVE  pinned[v] \in SUBSET Values /\ pinned[v] # {} /\ IsFiniteSet(pinned[v])
      <4>1. CASE v \in DOMAIN pins
        <5>1. pins[v] \subseteq Networks /\ pins[v] # {} /\ IsFiniteSet(pins[v])
          BY <4>1, HostMapsAssumption
        <5> QED
          BY <4>1, <5>1 DEF Values
      <4>2. CASE v \notin DOMAIN pins
        BY <3>2, <4>2, FS_Singleton
      <4> QED
        BY <4>1, <4>2
    <3>4. meaning[n] = UNION parts
      BY <2>2 DEF Expand, values
    <3> HIDE DEF pinned
    <3>5. IsFiniteSet(parts)
      BY <3>2, FiniteImage
    <3>6. IsFiniteSet(UNION parts)
      BY <3>3, <3>5, FS_UNION
    <3>7. UNION parts \in SUBSET Values /\ UNION parts # {}
      BY <3>2, <3>3
    <3> QED
      BY <3>4, <3>6, <3>7
  <2> QED
    BY <2>1, <2>2
<1>3. meaning[any] = {any} /\ DOMAIN meaning = names /\ meaning = [n \in names |-> meaning[n]]
  OBVIOUS
<1> HIDE DEF meaning, p
<1>4. /\ p.services \in [DOMAIN p.services -> Service]
      /\ DOMAIN p.services = DOMAIN doc.services \cup {any}
      /\ p.services[any] = [protocol |-> "any", ports |-> AllPorts]
  BY <1>1 DEF IsDocument, Service
<1>5. Len(doc.policies) \in Nat /\ DOMAIN doc.policies = 1..Len(doc.policies)
  BY LenProperties DEF IsDocument
<1>6. ASSUME NEW i \in 1..Len(doc.policies)
      PROVE  LET rule == doc.policies[i] IN
             /\ Range(rule.source) # {} /\ Range(rule.destination) # {} /\ Range(rule.services) # {}
             /\ Range(rule.source) \subseteq names /\ Range(rule.destination) \subseteq names
             /\ Range(rule.services) \subseteq DOMAIN doc.services \cup {any}
             /\ rule.enabled \in BOOLEAN
  <2> DEFINE rule == doc.policies[i]
  <2>1. /\ rule.source # <<>> /\ rule.destination # <<>> /\ rule.services # <<>>
        /\ Range(rule.source) \cup Range(rule.destination) \subseteq names
        /\ Range(rule.services) \subseteq DOMAIN doc.services \cup {any}
    BY DEF Valid
  <2>2. /\ rule.source \in Seq(Range(rule.source))
        /\ rule.destination \in Seq(Range(rule.destination))
        /\ rule.services \in Seq(Range(rule.services))
        /\ rule.enabled \in BOOLEAN
    BY DEF IsDocument
  <2>3. ASSUME NEW list, list \in Seq(Range(list)), list # <<>> PROVE Range(list) # {}
    <3>1. Len(list) \in Nat \ {0} /\ DOMAIN list = 1..Len(list)
      BY <2>3, LenProperties, EmptySeq
    <3>2. list[1] \in Range(list)
      BY <3>1 DEF Range
    <3> QED
      BY <3>2
  <2> QED
    BY <2>1, <2>2, <2>3
<1>7. /\ p.addresses \in [DOMAIN p.addresses -> SUBSET Values]
      /\ \A n \in DOMAIN p.addresses : p.addresses[n] # {} /\ IsFiniteSet(p.addresses[n])
      /\ any \in DOMAIN p.addresses /\ p.addresses[any] = {any} /\ DOMAIN p.addresses = names
  <2>1. meaning \in [names -> SUBSET Values]
    BY <1>2, <1>3
  <2> QED
    BY <1>1, <1>2, <1>3, <2>1
<1>8. any \in DOMAIN p.services
  BY <1>4
<1>9. \A i \in 1..Len(p.policies) :
          /\ Range(p.policies[i].source) # {} /\ Range(p.policies[i].destination) # {}
          /\ Range(p.policies[i].source) \subseteq DOMAIN p.addresses
          /\ Range(p.policies[i].destination) \subseteq DOMAIN p.addresses
          /\ Range(p.policies[i].services) # {}
          /\ Range(p.policies[i].services) \subseteq DOMAIN p.services
          /\ p.policies[i].enabled \in BOOLEAN
  BY <1>1, <1>4, <1>6, <1>7
<1>10. any \notin p.repeated
  BY DEF p, BuildIR, Repeated
<1>11. IsPolicy(p)
  BY <1>1, <1>4, <1>5, <1>7, <1>8, <1>9, <1>10 DEF IsPolicy
<1> QED
  BY <1>11 DEF p

-----------------------------------------------------------------------------
(* What can be reached from some names through groups.                     *)

\* One round more: the members of the groups among the names.
Grown(groups, names) == names \cup UNION {groups[g] : g \in names \cap DOMAIN groups}

IsClosed(groups, names) == \A g \in names \cap DOMAIN groups : groups[g] \subseteq names

\* f is the recursive function of Within, up to m.
Rounds(groups, names, f, m) ==
    \A k \in 0..m : f[k] = IF k = 0 THEN names ELSE Grown(groups, f[k-1])

LEMMA RoundsExist ==
    ASSUME NEW groups, NEW names
    PROVE  \A m \in Nat : \E f : Rounds(groups, names, f, m)
<1> DEFINE Good == {m \in Nat : \E f : Rounds(groups, names, f, m)}
<1>1. 0 \in Good
  <2>1. Rounds(groups, names, [k \in 0..0 |-> names], 0)
    BY DEF Rounds
  <2> QED
    BY <2>1
<1>2. ASSUME NEW m \in Nat, m \in Good PROVE m + 1 \in Good
  <2>1. PICK f : Rounds(groups, names, f, m)
    BY <1>2
  <2> DEFINE h == [k \in 0..(m+1) |-> IF k = m + 1 THEN Grown(groups, f[m]) ELSE f[k]]
  <2>2. ASSUME NEW k \in 0..(m+1)
        PROVE  h[k] = IF k = 0 THEN names ELSE Grown(groups, h[k-1])
    <3>1. CASE k = m + 1
      <4>1. h[k] = Grown(groups, f[m]) /\ k - 1 \in 0..(m+1) /\ k - 1 = m /\ k # 0 /\ h[m] = f[m]
        BY <3>1
      <4> QED
        BY <4>1
    <3>2. CASE k # m + 1
      <4>1. k \in 0..m /\ h[k] = f[k] /\ (k # 0 => h[k-1] = f[k-1])
        BY <3>2
      <4> QED
        BY <2>1, <4>1 DEF Rounds
    <3> QED
      BY <3>1, <3>2
  <2>3. Rounds(groups, names, h, m + 1)
    <3> HIDE DEF h
    <3> QED
      BY <2>2 DEF Rounds
  <2> QED
    BY <2>3
<1>3. Nat \subseteq Good
  <2> HIDE DEF Good
  <2> QED
    BY <1>1, <1>2, SetInduction
<1> QED
  BY <1>3

LEMMA RoundsAgree ==
    ASSUME NEW groups, NEW names, NEW f, NEW h, NEW m \in Nat,
           Rounds(groups, names, f, m), Rounds(groups, names, h, m)
    PROVE  f[m] = h[m]
<1> DEFINE Good == {k \in Nat : k <= m => f[k] = h[k]}
<1>1. 0 \in Good
  BY DEF Rounds
<1>2. ASSUME NEW k \in Nat, k \in Good PROVE k + 1 \in Good
  <2> SUFFICES ASSUME k + 1 <= m PROVE f[k+1] = h[k+1]
    OBVIOUS
  <2>1. f[k] = h[k] /\ k + 1 \in 0..m /\ k + 1 # 0 /\ (k + 1) - 1 = k
    BY <1>2
  <2>2. f[k+1] = Grown(groups, f[k]) /\ h[k+1] = Grown(groups, h[k])
    BY <2>1 DEF Rounds
  <2> QED
    BY <2>1, <2>2
<1>3. m \in Good
  <2> HIDE DEF Good
  <2> QED
    BY <1>1, <1>2, SetInduction
<1> QED
  BY <1>3

\* The value of Within is that of its function.
LEMMA WithinRounds ==
    ASSUME NEW groups, NEW names
    PROVE  \E f : /\ \A m \in Nat : Rounds(groups, names, f, m)
                  /\ Within(groups, names) = f[Cardinality(DOMAIN groups)]
<1> DEFINE upTo(m) == CHOOSE f : Rounds(groups, names, f, m)
           h == [k \in Nat |-> upTo(k)[k]]
           body(f) == [k \in Nat |-> IF k = 0 THEN names ELSE Grown(groups, f[k-1])]
           f == CHOOSE f : f = body(f)
<1>1. \A m \in Nat : Rounds(groups, names, upTo(m), m)
  BY RoundsExist
<1>2. ASSUME NEW k \in Nat PROVE h[k] = IF k = 0 THEN names ELSE Grown(groups, h[k-1])
  <2> HIDE DEF upTo
  <2>1. upTo(k)[k] = IF k = 0 THEN names ELSE Grown(groups, upTo(k)[k-1])
    BY <1>1 DEF Rounds
  <2>2. CASE k # 0
    <3>1. k - 1 \in Nat /\ Rounds(groups, names, upTo(k), k - 1)
      BY <1>1, <2>2 DEF Rounds
    <3>2. upTo(k)[k-1] = upTo(k-1)[k-1]
      BY <1>1, <3>1, RoundsAgree
    <3> QED
      BY <2>1, <2>2, <3>1, <3>2
  <2> QED
    BY <2>1, <2>2
<1>3. h = body(h)
  <2>1. h = [k \in Nat |-> h[k]]
    OBVIOUS
  <2> HIDE DEF h
  <2> QED
    BY <1>2, <2>1
<1>4. f = body(f)
  <2> HIDE DEF h, body
  <2> QED
    BY <1>3
<1>5. Within(groups, names) = f[Cardinality(DOMAIN groups)]
  BY DEF Within, Grown
<1> HIDE DEF f
<1>6. \A k \in Nat : f[k] = IF k = 0 THEN names ELSE Grown(groups, f[k-1])
  BY <1>4
<1>7. \A m \in Nat : Rounds(groups, names, f, m)
  BY <1>6 DEF Rounds
<1> QED
  BY <1>5, <1>7

\* The names themselves are within reach, and nothing outside a closed set is.
LEMMA WithinLeast ==
    ASSUME NEW groups, IsFiniteSet(DOMAIN groups), NEW names
    PROVE  /\ names \subseteq Within(groups, names)
           /\ \A T : names \subseteq T /\ IsClosed(groups, T) => Within(groups, names) \subseteq T
<1>1. PICK f : /\ \A m \in Nat : Rounds(groups, names, f, m)
               /\ Within(groups, names) = f[Cardinality(DOMAIN groups)]
  BY WithinRounds
<1>2. f[0] = names /\ \A k \in Nat : f[k+1] = Grown(groups, f[k])
  <2>1. f[0] = names
    BY <1>1 DEF Rounds
  <2>2. ASSUME NEW k \in Nat PROVE f[k+1] = Grown(groups, f[k])
    <3>1. k + 1 \in Nat /\ k + 1 \in 0..(k+1) /\ k + 1 # 0 /\ (k + 1) - 1 = k
      OBVIOUS
    <3> QED
      BY <1>1, <3>1 DEF Rounds
  <2> QED
    BY <2>1, <2>2
<1>3. Cardinality(DOMAIN groups) \in Nat
  BY FS_CardinalityType
<1>4. names \subseteq Within(groups, names)
  <2> DEFINE Good == {k \in Nat : names \subseteq f[k]}
  <2>1. 0 \in Good
    BY <1>2
  <2>2. ASSUME NEW k \in Nat, k \in Good PROVE k + 1 \in Good
    BY <1>2, <2>2 DEF Grown
  <2>3. Cardinality(DOMAIN groups) \in Good
    <3> HIDE DEF Good
    <3> QED
      BY <1>3, <2>1, <2>2, SetInduction
  <2> QED
    BY <1>1, <2>3
<1>5. ASSUME NEW T, names \subseteq T, IsClosed(groups, T) PROVE Within(groups, names) \subseteq T
  <2> DEFINE Good == {k \in Nat : f[k] \subseteq T}
  <2>1. 0 \in Good
    BY <1>2, <1>5
  <2>2. ASSUME NEW k \in Nat, k \in Good PROVE k + 1 \in Good
    BY <1>2, <1>5, <2>2 DEF Grown, IsClosed
  <2>3. Cardinality(DOMAIN groups) \in Good
    <3> HIDE DEF Good
    <3> QED
      BY <1>3, <2>1, <2>2, SetInduction
  <2> QED
    BY <1>1, <2>3
<1> QED
  BY <1>4, <1>5

\* As many rounds as there are groups are enough: each that is not the last
\* goes into a group that no earlier one has gone into.
LEMMA WithinClosed ==
    ASSUME NEW groups, IsFiniteSet(DOMAIN groups), NEW names
    PROVE  IsClosed(groups, Within(groups, names))
<1> DEFINE N == Cardinality(DOMAIN groups)
<1>1. PICK f : (\A m \in Nat : Rounds(groups, names, f, m)) /\ Within(groups, names) = f[N]
  BY WithinRounds
<1> DEFINE Seen(k) == f[k] \cap DOMAIN groups
<1>2. \A k \in Nat : f[k+1] = Grown(groups, f[k])
  <2> TAKE k \in Nat
  <2>1. k + 1 \in Nat /\ k + 1 \in 0..(k+1) /\ k + 1 # 0 /\ (k + 1) - 1 = k
    OBVIOUS
  <2> QED
    BY <1>1, <2>1 DEF Rounds
<1>3. N \in Nat
  BY FS_CardinalityType
<1>4. ASSUME NEW k \in Nat
      PROVE  /\ IsFiniteSet(Seen(k)) /\ Cardinality(Seen(k)) \in Nat
             /\ Cardinality(Seen(k)) <= N
  <2>1. IsFiniteSet(Seen(k)) /\ Cardinality(Seen(k)) <= N
    BY FS_Subset
  <2> QED
    BY <2>1, FS_CardinalityType
<1> HIDE DEF N
<1> SUFFICES ASSUME ~IsClosed(groups, f[N]) PROVE FALSE
  BY <1>1
<1>5. ASSUME NEW k \in Nat, k <= N PROVE ~IsClosed(groups, f[k])
  <2> SUFFICES ASSUME IsClosed(groups, f[k]) PROVE FALSE
    OBVIOUS
  <2> DEFINE Good == {j \in Nat : f[k+j] = f[k]}
  <2>1. 0 \in Good
    OBVIOUS
  <2>2. ASSUME NEW j \in Nat, j \in Good PROVE j + 1 \in Good
    <3>1. k + j \in Nat /\ k + (j + 1) = (k + j) + 1 /\ f[k+j] = f[k]
      BY <2>2
    <3>2. f[(k + j) + 1] = Grown(groups, f[k])
      BY <1>2, <3>1
    <3>3. Grown(groups, f[k]) = f[k]
      BY DEF Grown, IsClosed
    <3> QED
      BY <3>1, <3>2, <3>3
  <2>3. N - k \in Good
    <3>1. N - k \in Nat
      BY <1>3, <1>5
    <3> HIDE DEF Good
    <3> QED
      BY <2>1, <2>2, <3>1, SetInduction
  <2>4. k + (N - k) = N
    BY <1>3
  <2> QED
    BY <2>3, <2>4
<1>6. DEFINE Good == {k \in Nat : k <= N => Cardinality(Seen(k)) >= k + 1}
<1>7. 0 \in Good
  <2>1. 0 <= N /\ Seen(0) # {}
    BY <1>3, <1>5 DEF IsClosed
  <2>2. Cardinality(Seen(0)) # 0
    BY <1>4, <2>1, FS_EmptySet
  <2>3. Cardinality(Seen(0)) \in Nat
    BY <1>4
  <2> HIDE DEF Seen
  <2> QED
    BY <2>2, <2>3
<1>8. ASSUME NEW k \in Nat, k \in Good PROVE k + 1 \in Good
  <2> SUFFICES ASSUME k + 1 <= N PROVE Cardinality(Seen(k+1)) >= (k + 1) + 1
    OBVIOUS
  <2>1. k + 1 \in Nat /\ k <= N
    BY <1>3
  <2>2. PICK g \in f[k+1] \cap DOMAIN groups : ~(groups[g] \subseteq f[k+1])
    BY <1>5, <2>1 DEF IsClosed
  <2>3. g \notin f[k] /\ f[k] \subseteq f[k+1]
    BY <1>2, <2>2 DEF Grown
  <2>4. Seen(k) \cup {g} \subseteq Seen(k+1) /\ g \notin Seen(k)
    BY <2>2, <2>3
  <2>5. /\ IsFiniteSet(Seen(k)) /\ IsFiniteSet(Seen(k+1))
        /\ Cardinality(Seen(k)) \in Nat /\ Cardinality(Seen(k+1)) \in Nat
    BY <1>4, <2>1
  <2>6. Cardinality(Seen(k)) >= k + 1
    BY <1>8, <2>1
  <2> HIDE DEF Seen
  <2>7. Cardinality(Seen(k) \cup {g}) = Cardinality(Seen(k)) + 1
    BY <2>4, <2>5, FS_AddElement
  <2>8. Cardinality(Seen(k) \cup {g}) <= Cardinality(Seen(k+1))
    BY <2>4, <2>5, FS_Subset
  <2> QED
    BY <2>5, <2>6, <2>7, <2>8
<1>9. N \in Good
  <2> HIDE DEF Good
  <2> QED
    BY <1>3, <1>7, <1>8, SetInduction
<1>10. Cardinality(Seen(N)) >= N + 1
  BY <1>3, <1>9
<1> HIDE DEF Seen
<1> QED
  BY <1>3, <1>4, <1>10

-----------------------------------------------------------------------------
(* What is unused.                                                         *)

\* Resolve has the value that its recursion says.
LEMMA ResolveIs ==
    ASSUME NEW doc, IsFiniteSet(DOMAIN doc.groups)
    PROVE  \E f : /\ \A stack \in SUBSET DOMAIN doc.groups : f[stack] = Step(doc, f, stack)
                  /\ Resolve(doc) = [n \in Named(doc) |-> f[{}][n]]
<1> DEFINE f == CHOOSE f : f = [stack \in SUBSET DOMAIN doc.groups |-> Step(doc, f, stack)]
<1>1. f = [stack \in SUBSET DOMAIN doc.groups |-> Step(doc, f, stack)]
  BY ResolutionExists
<1>2. Resolve(doc) = [n \in Named(doc) |-> f[{}][n]]
  BY DEF Resolve, Step
<1> HIDE DEF f
<1>3. \A stack \in SUBSET DOMAIN doc.groups : f[stack] = Step(doc, f, stack)
  BY <1>1
<1> QED
  BY <1>2, <1>3

\* t is what is left of doc when all names but those of W are removed.
IsPart(t, doc, W) ==
    /\ DOMAIN t.objects = DOMAIN doc.objects \cap W
    /\ DOMAIN t.groups = DOMAIN doc.groups \cap W
    /\ \A o \in DOMAIN t.objects : t.objects[o] = doc.objects[o]
    /\ \A g \in DOMAIN t.groups : t.groups[g] = doc.groups[g]
    /\ any \in W
    /\ IsClosed(doc.groups, W)
    /\ \A g \in DOMAIN doc.groups : doc.groups[g] \subseteq Named(doc) \cup {any}

\* What is left resolves as before: a group that is left has its members.
LEMMA PartResolvesAlike ==
    ASSUME NEW doc, IsFiniteSet(DOMAIN doc.groups), NEW t, NEW W, IsPart(t, doc, W),
           NEW name \in Named(t)
    PROVE  Resolve(t)[name] = Resolve(doc)[name]
<1>1. IsFiniteSet(DOMAIN t.groups) /\ DOMAIN t.groups \subseteq DOMAIN doc.groups
      /\ Named(t) = Named(doc) \cap W
  BY FS_Subset DEF IsPart, Named
<1>2. PICK f : /\ \A stack \in SUBSET DOMAIN t.groups : f[stack] = Step(t, f, stack)
               /\ Resolve(t) = [n \in Named(t) |-> f[{}][n]]
  BY <1>1, ResolveIs
<1>3. PICK h : /\ \A stack \in SUBSET DOMAIN doc.groups : h[stack] = Step(doc, h, stack)
               /\ Resolve(doc) = [n \in Named(doc) |-> h[{}][n]]
  BY ResolveIs
<1> DEFINE Stacks == SUBSET DOMAIN t.groups
           Good == {k \in Nat : \A stack \in Stacks : Open(t, stack) < k =>
                       \A n \in Named(t) \cup {any} : f[stack][n] = h[stack][n]}
           total == Cardinality(DOMAIN t.groups)
<1>4. \A stack \in Stacks : Open(t, stack) \in Nat
  BY <1>1, FS_Subset, FS_CardinalityType DEF Open
<1>5. 0 \in Good
  BY <1>4
<1>6. ASSUME NEW k \in Nat, k \in Good PROVE k + 1 \in Good
  <2>1. ASSUME NEW stack \in Stacks, Open(t, stack) < k + 1,
               NEW n \in Named(t) \cup {any}
        PROVE  f[stack][n] = h[stack][n]
    <3>1. /\ f[stack][n] = Step(t, f, stack)[n]
          /\ h[stack][n] = Step(doc, h, stack)[n]
          /\ n \in Named(doc) \cup {any} /\ n \in W
          /\ n \in DOMAIN t.objects <=> n \in DOMAIN doc.objects
      BY <1>1, <1>2, <1>3 DEF IsPart
    <3>2. CASE n \in DOMAIN t.objects
      <4>1. t.objects[n] = doc.objects[n]
        BY <3>2 DEF IsPart
      <4> QED
        BY <3>1, <3>2, <4>1 DEF Step
    <3>3. CASE n \notin DOMAIN t.objects /\ (n = any \/ n \in stack)
      BY <3>1, <3>3 DEF Step
    <3>4. CASE n \notin DOMAIN t.objects /\ n # any /\ n \notin stack
      <4>1. n \in DOMAIN t.groups \ stack
        BY <3>4 DEF Named
      <4>2. /\ stack \cup {n} \in Stacks
            /\ Open(t, stack) \in Nat /\ Open(t, stack \cup {n}) \in Nat
            /\ Open(t, stack \cup {n}) = Open(t, stack) - 1
        BY <1>1, <4>1, OpenFalls
      <4>3. Open(t, stack \cup {n}) < k
        BY <2>1, <4>2
      <4>4. \A m \in Named(t) \cup {any} : f[stack \cup {n}][m] = h[stack \cup {n}][m]
        BY <1>6, <4>2, <4>3
      <4>5. t.groups[n] = doc.groups[n] /\ doc.groups[n] \subseteq Named(t) \cup {any}
        BY <1>1, <4>1 DEF IsPart, IsClosed
      <4>6. {f[stack \cup {n}][m] : m \in t.groups[n]} = {h[stack \cup {n}][m] : m \in doc.groups[n]}
        BY <4>4, <4>5
      <4>7. f[stack][n] = Joined({f[stack \cup {n}][m] : m \in t.groups[n]})
        BY <3>1, <3>4 DEF Step
      <4>8. h[stack][n] = Joined({h[stack \cup {n}][m] : m \in doc.groups[n]})
        BY <3>1, <3>4 DEF Step
      <4> QED
        BY <4>6, <4>7, <4>8
    <3> QED
      BY <3>2, <3>3, <3>4
  <2> QED
    BY <2>1
<1>7. total \in Nat /\ Open(t, {}) = total
  <2>1. DOMAIN t.groups \ {} = DOMAIN t.groups
    OBVIOUS
  <2> QED
    BY <1>1, <2>1, FS_CardinalityType DEF Open
<1>8. total + 1 \in Good
  <2> HIDE DEF Good, total
  <2> QED
    BY <1>5, <1>6, <1>7, SetInduction
<1>9. f[{}][name] = h[{}][name]
  <2>1. total < total + 1 /\ {} \in Stacks
    BY <1>7
  <2> HIDE DEF total
  <2> QED
    BY <1>7, <1>8, <2>1
<1> QED
  BY <1>1, <1>2, <1>3, <1>9

\* The names in the rules.
InRules(p) ==
    UNION {Range(p.policies[i].source) \cup Range(p.policies[i].destination) : i \in 1..Len(p.policies)}

\* Two policies with the same rules decide alike if the names in the rules mean
\* the same.
LEMMA SameMeaningsDecideAlike ==
    ASSUME NEW p, Len(p.policies) \in Nat, NEW q, q.policies = p.policies,
           \A n \in InRules(p) : q.addresses[n] = p.addresses[n],
           \A i \in 1..Len(p.policies) : \A s \in Range(p.policies[i].services) :
               q.services[s] = p.services[s]
    PROVE  SameDecisions(p, q)
<1>1. ASSUME NEW i \in 1..Len(p.policies), NEW f
      PROVE  Matches(p, p.policies[i], f) <=> Matches(q, q.policies[i], f)
  <2>1. AddressValues(q, p.policies[i].source) = AddressValues(p, p.policies[i].source)
    BY DEF AddressValues, InRules
  <2>2. AddressValues(q, p.policies[i].destination) = AddressValues(p, p.policies[i].destination)
    BY DEF AddressValues, InRules
  <2>3. ServiceValues(q, p.policies[i].services) = ServiceValues(p, p.policies[i].services)
    BY DEF ServiceValues
  <2> QED
    BY <2>1, <2>2, <2>3 DEF Matches
<1>2. ASSUME NEW i \in 1..Len(p.policies), NEW f
      PROVE  Decides(p, i, f) <=> Decides(q, i, f)
  <2>1. 1..(i-1) \subseteq 1..Len(p.policies)
    OBVIOUS
  <2> QED
    BY <1>1, <2>1 DEF Decides
<1> QED
  BY <1>1, <1>2 DEF SameDecisions, Allowed

\* What `analyze` calls unused can be removed.
LEMMA UnusedIsNeedless ==
    ASSUME NEW doc, IsDocument(doc), Valid(doc), ~Raises(doc), doc.tests = {},
           NEW pins \in HostMaps
    PROVE  LET p == BuildIR(doc, pins)  t == Trimmed(doc, p)
           IN  Valid(t) /\ SameDecisions(p, BuildIR(t, pins))
<1> DEFINE p == BuildIR(doc, pins)
           t == Trimmed(doc, p)
           q == BuildIR(t, pins)
           W == Within(doc.groups, {any} \cup InRules(p))
<1>1. IsFiniteSet(DOMAIN doc.groups)
  BY DEF IsDocument
<1>2. {any} \cup InRules(p) \subseteq W /\ IsClosed(doc.groups, W)
  BY <1>1, WithinLeast, WithinClosed
<1>3. /\ p.policies = doc.policies /\ p.groups = doc.groups
      /\ p.addresses = [n \in Named(doc) \cup {any} |->
                           IF n = any THEN {any} ELSE Expand(Resolve(doc)[n], pins)]
      /\ p.services = [s \in DOMAIN doc.services \cup {any} |->
                           IF s = any THEN [protocol |-> "any", ports |-> AllPorts]
                                      ELSE doc.services[s]]
  BY DEF BuildIR
<1>4. UnusedObjects(p) = (Named(doc) \cup {any}) \ W
  BY <1>3 DEF UnusedObjects, WithMembers, InRules
<1> DEFINE S == DOMAIN doc.services \ UnusedServices(p)
<1>5. /\ t.objects = Restrict(doc.objects, DOMAIN doc.objects \cap W)
      /\ t.groups = Restrict(doc.groups, DOMAIN doc.groups \cap W)
      /\ t.services = Restrict(doc.services, S)
      /\ t.policies = doc.policies /\ t.exceptions = doc.exceptions /\ t.tests = {}
  <2>1. /\ DOMAIN doc.objects \ UnusedObjects(p) = DOMAIN doc.objects \cap W
        /\ DOMAIN doc.groups \ UnusedObjects(p) = DOMAIN doc.groups \cap W
    BY <1>4 DEF Named
  <2>2. /\ t.objects = Restrict(doc.objects, DOMAIN doc.objects \ UnusedObjects(p))
        /\ t.groups = Restrict(doc.groups, DOMAIN doc.groups \ UnusedObjects(p))
        /\ t.services = Restrict(doc.services, DOMAIN doc.services \ UnusedServices(p))
        /\ t.policies = doc.policies /\ t.exceptions = doc.exceptions /\ t.tests = doc.tests
    BY DEF IsDocument, Trimmed
  <2> QED
    BY <2>1, <2>2
<1>6. \A g \in DOMAIN doc.groups : doc.groups[g] \subseteq Named(doc) \cup {any}
  BY DEF Valid
<1>7. Named(t) = Named(doc) \cap W
  BY <1>5 DEF Named, Restrict
<1>8. IsPart(t, doc, W)
  <2> HIDE DEF t, W
  <2> QED
    BY <1>2, <1>5, <1>6 DEF IsPart, Restrict
<1>9. \A n \in Named(t) : Resolve(t)[n] = Resolve(doc)[n]
  <2> HIDE DEF t, W
  <2> QED
    BY <1>1, <1>8, PartResolvesAlike
<1>10. /\ Len(doc.policies) \in Nat
       /\ \A i \in 1..Len(doc.policies) :
             /\ Range(doc.policies[i].services) \subseteq DOMAIN doc.services \cup {any}
             /\ Range(doc.policies[i].source) \cup Range(doc.policies[i].destination)
                   \subseteq Named(doc) \cup {any}
  BY LenProperties DEF IsDocument, Valid
<1>11. InRules(p) \subseteq (Named(doc) \cup {any}) \cap W
  BY <1>2, <1>3, <1>10 DEF InRules
<1>12. ASSUME NEW i \in 1..Len(doc.policies)
       PROVE  Range(doc.policies[i].services) \subseteq DOMAIN t.services \cup {any}
  <2>1. Range(doc.policies[i].services) \cap UnusedServices(p) = {}
    BY <1>3 DEF UnusedServices
  <2> HIDE DEF t
  <2> QED
    BY <1>5, <1>10, <2>1 DEF Restrict
<1>13. Valid(t)
  <2> HIDE DEF t, p, W, S
  <2>1. \A o \in DOMAIN t.objects : t.objects[o] # {}
    BY <1>5 DEF Restrict, Valid
  <2>2. ASSUME NEW g \in DOMAIN t.groups
        PROVE  t.groups[g] # {} /\ t.groups[g] \subseteq Named(t) \cup {any}
    BY <1>5, <1>6, <1>7, <1>2 DEF Restrict, Valid, IsClosed
  <2>3. ASSUME NEW i \in 1..Len(doc.policies)
        PROVE  Range(doc.policies[i].source) \cup Range(doc.policies[i].destination)
                  \subseteq Named(t) \cup {any}
    <3>1. Range(doc.policies[i].source) \cup Range(doc.policies[i].destination) \subseteq InRules(p)
      BY <1>3 DEF InRules
    <3> QED
      BY <1>7, <1>11, <3>1
  <2>4. /\ \A w \in t.exceptions : \E i \in 1..Len(t.policies) : t.policies[i].name = w.rule
        /\ \A x \in t.tests : IsFlowEndpoint(t, x.src) /\ IsFlowEndpoint(t, x.dst)
    BY <1>5 DEF Valid
  <2>5. \A i \in 1..Len(t.policies) :
           LET rule == t.policies[i] IN
           rule.source # <<>> /\ rule.destination # <<>> /\ rule.services # <<>>
    BY <1>5 DEF Valid
  <2> QED
    BY <1>5, <1>12, <2>1, <2>2, <2>3, <2>4, <2>5 DEF Valid
<1>14. SameDecisions(p, q)
  <2>1. /\ q.policies = t.policies
        /\ q.addresses = [n \in Named(t) \cup {any} |->
                           IF n = any THEN {any} ELSE Expand(Resolve(t)[n], pins)]
        /\ q.services = [s \in DOMAIN t.services \cup {any} |->
                           IF s = any THEN [protocol |-> "any", ports |-> AllPorts]
                                      ELSE t.services[s]]
    BY DEF BuildIR
  <2> HIDE DEF q, p, t, W, S
  <2>2. ASSUME NEW n \in InRules(p) PROVE q.addresses[n] = p.addresses[n]
    BY <1>3, <1>7, <1>9, <1>11, <2>1
  <2>3. ASSUME NEW i \in 1..Len(p.policies), NEW s \in Range(p.policies[i].services)
        PROVE  q.services[s] = p.services[s]
    <3>1. s \in DOMAIN t.services \cup {any} /\ s \in DOMAIN doc.services \cup {any}
      BY <1>3, <1>10, <1>12
    <3>2. s \in DOMAIN t.services => t.services[s] = doc.services[s]
      BY <1>5 DEF Restrict
    <3> QED
      BY <1>3, <2>1, <3>1, <3>2
  <2>4. q.policies = p.policies /\ Len(p.policies) \in Nat
    BY <1>3, <1>5, <1>10, <2>1
  <2> QED
    BY <2>2, <2>3, <2>4, SameMeaningsDecideAlike
<1> QED
  BY <1>13, <1>14

-----------------------------------------------------------------------------
(* What a group stands for.                                                *)

\* A name, and what can be reached from it.
Reach(doc, n) == {n} \cup (IF n \in DOMAIN GroupsOf(doc) THEN MembersOf(doc, n) ELSE {})

\* The groups that can be reached from themselves.
Cyclic(doc) == {g \in DOMAIN GroupsOf(doc) : g \in MembersOf(doc, g)}

\* The values of the objects among some names, and "any".
ValuesAmong(doc, names) ==
    {Normalize(v) : v \in UNION {doc.objects[o] : o \in names \cap DOMAIN doc.objects}}
    \cup (IF any \in names \ DOMAIN doc.objects THEN {any} ELSE {})

LEMMA OwnGroups ==
    ASSUME NEW doc, IsFiniteSet(DOMAIN doc.groups)
    PROVE  /\ DOMAIN GroupsOf(doc) = DOMAIN doc.groups \ (DOMAIN doc.objects \cup {any})
           /\ \A g \in DOMAIN GroupsOf(doc) : GroupsOf(doc)[g] = doc.groups[g]
           /\ IsFiniteSet(DOMAIN GroupsOf(doc))
BY FS_Subset DEF GroupsOf, Restrict

\* What can be reached from a group is what can be reached from its members.
LEMMA ReachOfMembers ==
    ASSUME NEW doc, IsFiniteSet(DOMAIN doc.groups), NEW g \in DOMAIN GroupsOf(doc)
    PROVE  MembersOf(doc, g) = UNION {Reach(doc, m) : m \in doc.groups[g]}
<1> DEFINE own == GroupsOf(doc)
           R == UNION {Reach(doc, m) : m \in doc.groups[g]}
<1>1. \A h \in DOMAIN own : /\ own[h] = doc.groups[h]
                            /\ own[h] \subseteq MembersOf(doc, h)
                            /\ IsClosed(own, MembersOf(doc, h))
                            /\ \A T : own[h] \subseteq T /\ IsClosed(own, T) => MembersOf(doc, h) \subseteq T
  BY OwnGroups, WithinLeast, WithinClosed DEF MembersOf
<1> HIDE DEF own
<1>2. ASSUME NEW m \in doc.groups[g] PROVE Reach(doc, m) \subseteq MembersOf(doc, g)
  <2>1. m \in MembersOf(doc, g)
    BY <1>1, <1>2 DEF own
  <2>2. ASSUME m \in DOMAIN own PROVE MembersOf(doc, m) \subseteq MembersOf(doc, g)
    <3>1. own[m] \subseteq MembersOf(doc, g)
      BY <1>1, <2>1, <2>2 DEF IsClosed, own
    <3> QED
      BY <1>1, <2>2, <3>1 DEF own
  <2> QED
    BY <2>1, <2>2 DEF Reach, own
<1>3. MembersOf(doc, g) \subseteq R
  <2>1. own[g] \subseteq R
    BY <1>1 DEF Reach, own
  <2>2. ASSUME NEW x \in R \cap DOMAIN own PROVE own[x] \subseteq R
    <3>1. PICK m \in doc.groups[g] : x \in Reach(doc, m)
      BY <2>2
    <3>2. own[x] \subseteq Reach(doc, m)
      <4>1. CASE x = m
        BY <1>1, <2>2, <4>1 DEF Reach, own
      <4>2. CASE x # m
        <5>1. m \in DOMAIN own /\ x \in MembersOf(doc, m)
          BY <3>1, <4>2 DEF Reach, own
        <5>2. own[x] \subseteq MembersOf(doc, m)
          BY <1>1, <2>2, <5>1 DEF IsClosed
        <5> QED
          BY <5>1, <5>2 DEF Reach, own
      <4> QED
        BY <4>1, <4>2
    <3> QED
      BY <3>1, <3>2
  <2>3. IsClosed(own, R)
    BY <2>2 DEF IsClosed
  <2> QED
    BY <1>1, <2>1, <2>3 DEF own
<1> QED
  BY <1>2, <1>3

LEMMA AmongNames ==
    ASSUME NEW doc, NEW names, NEW v
    PROVE  v \in ValuesAmong(doc, names)
           <=> \/ \E o \in names \cap DOMAIN doc.objects : \E w \in doc.objects[o] : v = Normalize(w)
               \/ v = any /\ any \in names /\ any \notin DOMAIN doc.objects
BY DEF ValuesAmong

\* What a name stands for while the groups of the stack are being resolved.
Meaning(doc, stack, n) ==
    IF Reach(doc, n) \cap DOMAIN GroupsOf(doc) \cap (stack \cup Cyclic(doc)) # {}
    THEN Unresolved
    ELSE ValuesAmong(doc, Reach(doc, n))

\* A group raises if a member does, with the group being resolved, and has
\* their values otherwise.
LEMMA GroupMeans ==
    ASSUME NEW doc, IsFiniteSet(DOMAIN doc.groups), NEW stack \in SUBSET DOMAIN doc.groups,
           NEW g \in DOMAIN GroupsOf(doc), g \notin stack,
           \A o \in DOMAIN doc.objects : doc.objects[o] \subseteq Values \cup Everything
    PROVE  Joined({Meaning(doc, stack \cup {g}, m) : m \in doc.groups[g]}) = Meaning(doc, stack, g)
<1> DEFINE own == DOMAIN GroupsOf(doc)
           bad(S) == own \cap (S \cup Cyclic(doc))
           parts == {Meaning(doc, stack \cup {g}, m) : m \in doc.groups[g]}
<1>1. MembersOf(doc, g) = UNION {Reach(doc, m) : m \in doc.groups[g]}
  BY ReachOfMembers
<1>2. Reach(doc, g) = {g} \cup MembersOf(doc, g)
  BY DEF Reach
<1>3. (\E m \in doc.groups[g] : Reach(doc, m) \cap bad(stack \cup {g}) # {})
      <=> Reach(doc, g) \cap bad(stack) # {}
  <2>1. (\E m \in doc.groups[g] : Reach(doc, m) \cap bad(stack \cup {g}) # {})
        <=> MembersOf(doc, g) \cap bad(stack \cup {g}) # {}
    BY <1>1
  <2>2. g \in MembersOf(doc, g) <=> g \in Cyclic(doc)
    BY DEF Cyclic
  <2>3. MembersOf(doc, g) \cap bad(stack \cup {g}) # {}
        <=> g \in MembersOf(doc, g) \/ MembersOf(doc, g) \cap bad(stack) # {}
    OBVIOUS
  <2>4. Reach(doc, g) \cap bad(stack) # {}
        <=> g \in Cyclic(doc) \/ MembersOf(doc, g) \cap bad(stack) # {}
    BY <1>2
  <2> QED
    BY <2>1, <2>2, <2>3, <2>4
<1>4. ASSUME NEW names PROVE ValuesAmong(doc, names) # Unresolved
  <2>1. ValuesAmong(doc, names) \in SUBSET (Values \cup Everything)
    BY DEF ValuesAmong, Normalize, Values
  <2> QED
    BY <2>1, UnresolvedAssumption
<1>5. Unresolved \in parts <=> \E m \in doc.groups[g] : Reach(doc, m) \cap bad(stack \cup {g}) # {}
  BY <1>4 DEF Meaning
<1>6. CASE Reach(doc, g) \cap bad(stack) # {}
  BY <1>3, <1>5, <1>6 DEF Joined, Meaning
<1>7. CASE Reach(doc, g) \cap bad(stack) = {}
  <2>1. parts = {ValuesAmong(doc, Reach(doc, m)) : m \in doc.groups[g]}
    BY <1>3, <1>7 DEF Meaning
  <2>2. Joined(parts) = UNION parts
    BY <1>3, <1>5, <1>7 DEF Joined
  <2>3. UNION parts = ValuesAmong(doc, MembersOf(doc, g))
    <3>1. ASSUME NEW v, v \in UNION parts PROVE v \in ValuesAmong(doc, MembersOf(doc, g))
      <4>1. PICK m \in doc.groups[g] : v \in ValuesAmong(doc, Reach(doc, m))
        BY <2>1, <3>1
      <4>2. Reach(doc, m) \subseteq MembersOf(doc, g)
        BY <1>1
      <4> QED
        BY <4>1, <4>2, AmongNames
    <3>2. ASSUME NEW v, v \in ValuesAmong(doc, MembersOf(doc, g)) PROVE v \in UNION parts
      <4>1. \E m \in doc.groups[g] : v \in ValuesAmong(doc, Reach(doc, m))
        BY <1>1, <3>2, AmongNames
      <4> QED
        BY <2>1, <4>1
    <3> QED
      BY <3>1, <3>2
  <2>4. g \notin DOMAIN doc.objects /\ g # any
    BY OwnGroups
  <2>5. ValuesAmong(doc, MembersOf(doc, g)) = ValuesAmong(doc, Reach(doc, g))
    BY <1>2, <2>4 DEF ValuesAmong
  <2>6. Meaning(doc, stack, g) = ValuesAmong(doc, Reach(doc, g))
    BY <1>7 DEF Meaning
  <2> QED
    BY <2>2, <2>3, <2>5, <2>6
<1> QED
  BY <1>6, <1>7

\* What is resolved for a name is what can be reached from it.
LEMMA ResolvedIsMeant ==
    ASSUME NEW doc, IsDocument(doc), Valid(doc),
           NEW name \in Named(doc)
    PROVE  Resolve(doc)[name] = Meaning(doc, {}, name)
<1>1. /\ IsFiniteSet(DOMAIN doc.groups)
      /\ \A o \in DOMAIN doc.objects : doc.objects[o] \subseteq Values \cup Everything
      /\ \A g \in DOMAIN doc.groups : doc.groups[g] \subseteq Named(doc) \cup {any}
  BY DEF IsDocument, Valid
<1>2. PICK f : /\ \A stack \in SUBSET DOMAIN doc.groups : f[stack] = Step(doc, f, stack)
               /\ Resolve(doc) = [n \in Named(doc) |-> f[{}][n]]
  BY <1>1, ResolveIs
<1> DEFINE Stacks == SUBSET DOMAIN doc.groups
           Good == {k \in Nat : \A stack \in Stacks : Open(doc, stack) < k =>
                       \A n \in Named(doc) \cup {any} : f[stack][n] = Meaning(doc, stack, n)}
           total == Cardinality(DOMAIN doc.groups)
<1>3. \A stack \in Stacks : Open(doc, stack) \in Nat
  BY <1>1, FS_Subset, FS_CardinalityType DEF Open
<1>4. 0 \in Good
  BY <1>3
<1>5. ASSUME NEW k \in Nat, k \in Good PROVE k + 1 \in Good
  <2>1. ASSUME NEW stack \in Stacks, Open(doc, stack) < k + 1,
               NEW n \in Named(doc) \cup {any}
        PROVE  f[stack][n] = Meaning(doc, stack, n)
    <3>1. f[stack][n] = Step(doc, f, stack)[n]
      BY <1>2
    <3>2. n \in DOMAIN GroupsOf(doc) <=> n \notin DOMAIN doc.objects /\ n # any
      <4>1. DOMAIN GroupsOf(doc) = DOMAIN doc.groups \ (DOMAIN doc.objects \cup {any})
        BY <1>1, OwnGroups
      <4> QED
        BY <4>1 DEF Named
    <3>3. CASE n \notin DOMAIN GroupsOf(doc)
      <4>1. Reach(doc, n) = {n}
        BY <3>3 DEF Reach
      <4>2. Meaning(doc, stack, n) = ValuesAmong(doc, {n})
        BY <3>3, <4>1 DEF Meaning
      <4>3. CASE n \in DOMAIN doc.objects
        <5>1. \A v : v \in ValuesAmong(doc, {n}) <=> v \in {Normalize(w) : w \in doc.objects[n]}
          BY <4>3, AmongNames
        <5>2. ValuesAmong(doc, {n}) = {Normalize(w) : w \in doc.objects[n]}
          BY <5>1
        <5> QED
          BY <3>1, <4>2, <4>3, <5>2 DEF Step
      <4>4. CASE n \notin DOMAIN doc.objects
        <5>1. n = any
          BY <3>2, <3>3, <4>4
        <5>2. \A v : v \in ValuesAmong(doc, {n}) <=> v \in {any}
          BY <4>4, <5>1, AmongNames
        <5>3. ValuesAmong(doc, {n}) = {any}
          BY <5>2
        <5> QED
          BY <3>1, <4>2, <4>4, <5>1, <5>3 DEF Step
      <4> QED
        BY <4>3, <4>4
    <3>4. CASE n \in DOMAIN GroupsOf(doc) /\ n \in stack
      <4>1. f[stack][n] = Unresolved
        BY <3>1, <3>2, <3>4 DEF Step
      <4>2. Meaning(doc, stack, n) = Unresolved
        BY <3>4 DEF Meaning, Reach
      <4> QED
        BY <4>1, <4>2
    <3>5. CASE n \in DOMAIN GroupsOf(doc) /\ n \notin stack
      <4>1. n \in DOMAIN doc.groups \ stack
        BY <1>1, <3>5, OwnGroups
      <4>2. /\ stack \cup {n} \in Stacks
            /\ Open(doc, stack) \in Nat /\ Open(doc, stack \cup {n}) \in Nat
            /\ Open(doc, stack \cup {n}) = Open(doc, stack) - 1
        BY <1>1, <4>1, OpenFalls
      <4>3. Open(doc, stack \cup {n}) < k
        BY <2>1, <4>2
      <4>4. \A m \in doc.groups[n] : f[stack \cup {n}][m] = Meaning(doc, stack \cup {n}, m)
        BY <1>1, <1>5, <4>1, <4>2, <4>3
      <4>5. {f[stack \cup {n}][m] : m \in doc.groups[n]}
            = {Meaning(doc, stack \cup {n}, m) : m \in doc.groups[n]}
        BY <4>4
      <4>6. f[stack][n] = Joined({f[stack \cup {n}][m] : m \in doc.groups[n]})
        BY <3>1, <3>2, <3>5 DEF Step
      <4>7. Joined({Meaning(doc, stack \cup {n}, m) : m \in doc.groups[n]}) = Meaning(doc, stack, n)
        BY <1>1, <3>5, GroupMeans
      <4> QED
        BY <4>5, <4>6, <4>7
    <3> QED
      BY <3>3, <3>4, <3>5
  <2> QED
    BY <2>1
<1>6. total \in Nat /\ Open(doc, {}) = total
  <2>1. DOMAIN doc.groups \ {} = DOMAIN doc.groups
    OBVIOUS
  <2> QED
    BY <1>1, <2>1, FS_CardinalityType DEF Open
<1>7. total + 1 \in Good
  <2> HIDE DEF Good, total
  <2> QED
    BY <1>4, <1>5, <1>6, SetInduction
<1>8. f[{}][name] = Meaning(doc, {}, name)
  <2>1. total < total + 1 /\ {} \in Stacks
    BY <1>6
  <2> HIDE DEF total
  <2> QED
    BY <1>6, <1>7, <2>1
<1> QED
  BY <1>2, <1>8

LEMMA GroupsMean ==
    ASSUME NEW doc, IsDocument(doc), Valid(doc)
    PROVE  ResolvesToMembers(doc)
<1> SUFFICES ASSUME NEW g \in DOMAIN GroupsOf(doc)
             PROVE  LET members == MembersOf(doc, g) IN
                    Resolve(doc)[g] =
                      IF \E m \in (members \cup {g}) \cap DOMAIN GroupsOf(doc) : m \in MembersOf(doc, m)
                      THEN Unresolved
                      ELSE ValuesAmong(doc, members)
  BY DEF ResolvesToMembers, ValuesAmong
<1>1. IsFiniteSet(DOMAIN doc.groups)
  BY DEF IsDocument
<1>2. g \in Named(doc) /\ g \notin DOMAIN doc.objects /\ g # any
  BY <1>1, OwnGroups DEF Named
<1>3. Resolve(doc)[g] = Meaning(doc, {}, g)
  BY <1>2, ResolvedIsMeant
<1>4. Reach(doc, g) = {g} \cup MembersOf(doc, g)
  BY DEF Reach
<1>5. ValuesAmong(doc, Reach(doc, g)) = ValuesAmong(doc, MembersOf(doc, g))
  BY <1>2, <1>4 DEF ValuesAmong
<1>6. Reach(doc, g) \cap DOMAIN GroupsOf(doc) \cap ({} \cup Cyclic(doc)) # {}
      <=> \E m \in (MembersOf(doc, g) \cup {g}) \cap DOMAIN GroupsOf(doc) : m \in MembersOf(doc, m)
  BY <1>4 DEF Cyclic
<1> QED
  BY <1>3, <1>5, <1>6 DEF Meaning

-----------------------------------------------------------------------------
(* The invariant: what the command knows at every stage.                   *)

Failed == {"invalid", "raised"}
Written == {"written", "written lossy"}
Targeted == {"disallowed", "not rendered", "lossy", "unverified"} \cup Written

DocumentsInv ==
    /\ \E c \in Cases : document = c.document /\ earlier = c.earlier
    /\ IsDocument(document) /\ IsDocument(earlier)
    /\ stage \in {"start", "compiled", "checked"} \cup Exits

\* Nothing is there before it is made.
AbsentInv ==
    /\ stage \in {"start"} \cup Failed =>
          hosts = Absent /\ ir = Absent /\ controls = Absent
    /\ stage = "compiled" => controls = Absent
    /\ stage \notin Targeted => target = Absent
    /\ stage \notin Written => config = Absent

\* The policy is made of a valid document and its pins.
BuiltInv ==
    stage \notin {"start"} \cup Failed =>
        /\ Valid(document) /\ ~Raises(document)
        /\ hosts \in HostMaps
        /\ ir = BuildIR(document, hosts)

\* It has passed the gate before it is rendered.
PassedInv ==
    /\ stage \in {"checked", "blocked"} \cup Targeted => controls \in Baselines
    /\ stage \in {"checked"} \cup Targeted => GatePasses(controls)

\* The configuration is the target's of the policy, and the device has it.
WrittenInv ==
    /\ stage \in Targeted => target \in Targets
    /\ stage \in Written =>
          /\ TargetAllowed(target) /\ ~Raising(target)
          /\ config = Render(target, ir)
          /\ device = Installed(target, config)
    /\ stage = "written" => Lossless(ir, target)

CompileInv == DocumentsInv /\ AbsentInv /\ BuiltInv /\ PassedInv /\ WrittenInv

LEMMA InitEstablishes == Init => CompileInv
<1> SUFFICES ASSUME Init PROVE CompileInv
  OBVIOUS
<1>1. DocumentsInv
  BY CasesAssumption DEF Init, DocumentsInv
<1>2. AbsentInv /\ BuiltInv /\ PassedInv /\ WrittenInv
  BY DEF Init, AbsentInv, BuiltInv, PassedInv, WrittenInv, Failed, Written, Targeted
<1> QED
  BY <1>1, <1>2 DEF CompileInv

\* The gate says the same of the same policy.
LEMMA SameGate ==
    /\ UNCHANGED <<document, ir, controls>> => (GatePasses(controls)' <=> GatePasses(controls))
    /\ \A b : UNCHANGED <<document, ir>> /\ controls' = b => (GatePasses(controls)' <=> GatePasses(b))
BY DEF GatePasses, Blocks, IsWaived, AnalysisFindings, Undocumented, NoRule, Tests, TestPasses,
       KnownEndpoint

\* After the check the policy stays as it is.
LEMMA TargetedKeeps ==
    ASSUME CompileInv, stage = "checked", stage' \in Targeted,
           UNCHANGED <<document, earlier, hosts, ir, controls>>
    PROVE  /\ DocumentsInv' /\ BuiltInv' /\ PassedInv'
           /\ controls \in Baselines
<1>1. stage' \notin {"start", "compiled"} \cup Failed
  BY DEF Targeted, Written, Failed
<1>2. stage' \in {"start", "compiled", "checked"} \cup Exits
  BY DEF Targeted, Written, Exits
<1>3. DocumentsInv'
  BY <1>2 DEF CompileInv, DocumentsInv
<1>4. BuiltInv'
  BY DEF CompileInv, BuiltInv, Failed
<1>5. PassedInv'
  BY SameGate DEF CompileInv, PassedInv
<1>6. controls \in Baselines
  BY DEF CompileInv, PassedInv
<1> QED
  BY <1>3, <1>4, <1>5, <1>6

\* A command that ends without a configuration keeps the invariant.
LEMMA EndKeeps ==
    ASSUME CompileInv, stage = "checked", NEW t \in Targets, target' = t,
           stage' \in Targeted \ Written,
           UNCHANGED <<document, earlier, hosts, ir, controls, config, device>>
    PROVE  CompileInv'
<1>1. DocumentsInv' /\ BuiltInv' /\ PassedInv'
  BY TargetedKeeps
<1>2. AbsentInv'
  BY DEF CompileInv, AbsentInv, Targeted, Written, Failed
<1>3. WrittenInv'
  BY DEF WrittenInv, Written
<1> QED
  BY <1>1, <1>2, <1>3 DEF CompileInv

LEMMA NextPreserves == CompileInv /\ [Next]_vars => CompileInv'
<1> SUFFICES ASSUME CompileInv, [Next]_vars PROVE CompileInv'
  OBVIOUS
<1>1. CASE Invalid \/ BuildRaises
  <2>1. /\ stage = "start" /\ stage' \in Failed
        /\ UNCHANGED <<document, earlier, hosts, ir, controls, target, config, device>>
    BY <1>1 DEF Invalid, BuildRaises, Failed
  <2>2. DocumentsInv'
    BY <2>1 DEF CompileInv, DocumentsInv, Failed, Exits
  <2>3. AbsentInv' /\ BuiltInv' /\ PassedInv' /\ WrittenInv'
    BY <2>1 DEF CompileInv, AbsentInv, BuiltInv, PassedInv, WrittenInv, Failed, Written, Targeted
  <2> QED
    BY <2>2, <2>3 DEF CompileInv
<1>2. CASE Build
  <2>1. /\ stage = "start" /\ stage' = "compiled"
        /\ Valid(document) /\ ~Raises(document)
        /\ hosts' \in HostMaps /\ ir' = BuildIR(document, hosts')
        /\ UNCHANGED <<document, earlier, controls, target, config, device>>
    BY <1>2 DEF Build
  <2>2. DocumentsInv'
    BY <2>1 DEF CompileInv, DocumentsInv
  <2>3. BuiltInv'
    BY <2>1 DEF BuiltInv
  <2>4. AbsentInv' /\ PassedInv' /\ WrittenInv'
    BY <2>1 DEF CompileInv, AbsentInv, PassedInv, WrittenInv, Failed, Written, Targeted
  <2> QED
    BY <2>2, <2>3, <2>4 DEF CompileInv
<1>3. CASE Check
  <2>1. PICK b \in Baselines :
            /\ stage' = IF GatePasses(b) THEN "checked" ELSE "blocked"
            /\ controls' = b
    BY <1>3 DEF Check
  <2>2. stage = "compiled" /\ UNCHANGED <<document, earlier, hosts, ir, target, config, device>>
    BY <1>3 DEF Check
  <2>3. stage' \in {"checked", "blocked"}
    BY <2>1
  <2>4. DocumentsInv'
    BY <2>2, <2>3 DEF CompileInv, DocumentsInv, Exits
  <2>5. AbsentInv' /\ BuiltInv' /\ WrittenInv'
    BY <2>2, <2>3 DEF CompileInv, AbsentInv, BuiltInv, WrittenInv, Failed, Written, Targeted
  <2>6. PassedInv'
    <3>1. GatePasses(controls)' <=> GatePasses(b)
      BY <2>1, <2>2, SameGate
    <3>2. controls' \in Baselines /\ (stage' = "checked" => GatePasses(controls)')
      BY <2>1, <3>1
    <3> QED
      BY <2>3, <3>2 DEF PassedInv, Targeted, Written
  <2> QED
    BY <2>4, <2>5, <2>6 DEF CompileInv
<1>4. ASSUME NEW t \in Targets, Disallowed(t) \/ ExportRaises(t) \/ Lossy(t) \/ Unverified(t)
      PROVE  CompileInv'
  <2>1. /\ stage = "checked" /\ stage' \in Targeted \ Written /\ target' = t
        /\ UNCHANGED <<document, earlier, hosts, ir, controls, config, device>>
    BY <1>4 DEF Disallowed, ExportRaises, Lossy, Unverified, Targeted, Written
  <2> QED
    BY <2>1, EndKeeps
<1>5. ASSUME NEW t \in Targets, Write(t) PROVE CompileInv'
  <2>1. /\ stage = "checked" /\ target' = t
        /\ TargetAllowed(t) /\ ~Raising(t)
        /\ stage' = IF Lossless(ir, t) THEN "written" ELSE "written lossy"
        /\ config' = Render(t, ir) /\ device' = Installed(t, config')
        /\ UNCHANGED <<document, earlier, hosts, ir, controls>>
    BY <1>5 DEF Write
  <2>2. stage' \in Written /\ stage' \in Targeted
    BY <2>1 DEF Written, Targeted
  <2>3. DocumentsInv' /\ BuiltInv' /\ PassedInv'
    BY <2>1, <2>2, TargetedKeeps
  <2>4. AbsentInv'
    BY <2>1, <2>2 DEF AbsentInv, Targeted, Written, Failed
  <2>5. TargetAllowed(target)' /\ ~Raising(target)'
    BY <2>1 DEF TargetAllowed, Raising
  <2>6. WrittenInv'
    BY <2>1, <2>2, <2>5 DEF WrittenInv
  <2> QED
    BY <2>3, <2>4, <2>6 DEF CompileInv
<1>6. CASE UNCHANGED vars
  <2>1. DocumentsInv' /\ AbsentInv' /\ BuiltInv'
    BY <1>6 DEF CompileInv, DocumentsInv, AbsentInv, BuiltInv, vars
  <2>2. PassedInv'
    BY <1>6, SameGate DEF CompileInv, PassedInv, vars
  <2>3. TargetAllowed(target)' <=> TargetAllowed(target)
    BY <1>6 DEF TargetAllowed, vars
  <2>4. Raising(target)' <=> Raising(target)
    BY <1>6 DEF Raising, vars
  <2>5. WrittenInv'
    BY <1>6, <2>3, <2>4 DEF CompileInv, WrittenInv, vars
  <2> QED
    BY <2>1, <2>2, <2>5 DEF CompileInv
<1> QED
  BY <1>1, <1>2, <1>3, <1>4, <1>5, <1>6 DEF Next

LEMMA CompileInvHolds == Spec => []CompileInv
BY InitEstablishes, NextPreserves, PTL DEF Spec

\* What is compiled is a policy the analyses can rely on.
LEMMA CompiledIsPolicy ==
    ASSUME CompileInv, stage \notin {"start"} \cup Failed
    PROVE  IsPolicy(ir)
<1>1. /\ IsDocument(document) /\ Valid(document) /\ ~Raises(document)
      /\ hosts \in HostMaps /\ ir = BuildIR(document, hosts)
  BY DEF CompileInv, DocumentsInv, BuiltInv
<1> QED
  BY <1>1, BuiltIsPolicy

-----------------------------------------------------------------------------
(* The theorems.                                                           *)

\* Every name of a compiled policy stands for values, every service is one,
\* and a device has lines for every rule.
THEOREM TypeCorrect == Spec => []TypeOK
<1>1. CompileInv => TypeOK
  <2> SUFFICES ASSUME CompileInv PROVE TypeOK
    OBVIOUS
  <2>1. IsDocument(document) /\ IsDocument(earlier) /\ stage \in {"start", "compiled", "checked"} \cup Exits
    BY DEF CompileInv, DocumentsInv
  <2>2. hosts \in HostMaps \cup {Absent}
    BY DEF CompileInv, AbsentInv, BuiltInv
  <2>3. ir # Absent => IsPolicy(ir)
    BY CompiledIsPolicy DEF CompileInv, AbsentInv
  <2>4. controls \in Baselines \cup {Absent}
    BY <2>1 DEF CompileInv, AbsentInv, PassedInv, Failed, Targeted, Written, Exits
  <2>5. target \in Targets \cup {Absent}
    BY DEF CompileInv, AbsentInv, WrittenInv
  <2>6. config # Absent => DOMAIN device = DOMAIN ir.policies
    <3> SUFFICES ASSUME config # Absent PROVE DOMAIN device = DOMAIN ir.policies
      OBVIOUS
    <3>1. stage \in Written
      BY DEF CompileInv, AbsentInv
    <3>2. target \in Targets /\ device = Installed(target, Render(target, ir))
      BY <3>1 DEF CompileInv, WrittenInv, Targeted
    <3>3. DOMAIN ir.policies = 1..Len(ir.policies)
      BY <3>1, CompiledIsPolicy DEF IsPolicy, Written, Failed
    <3>4. CASE target \in LineTargets
      <4>1. Render(target, ir) = Export(target, ir) /\ device = Render(target, ir)
        BY <3>2, <3>4 DEF Installed, Render, LineTargets, FirstMatch, AllowOnly
      <4>2. DOMAIN Export(target, ir) = 1..Len(ir.policies)
        BY DEF Export
      <4> QED
        BY <3>3, <4>1, <4>2
    <3>5. CASE target \notin LineTargets
      <4>1. target = "paloalto" \/ target = "fortigate" \/ target = "checkpoint"
        BY <3>2, <3>5 DEF Targets, ObjectTargets
      <4>2. DOMAIN Render(target, ir).rules = 1..Len(ir.policies)
        BY <3>5, <4>1 DEF Render, PaloAlto, FortiGate, CheckPoint, NamedRules
      <4> QED
        BY <3>2, <3>3, <3>5, <4>2 DEF Installed, Loaded
    <3> QED
      BY <3>4, <3>5
  <2> QED
    BY <2>1, <2>2, <2>3, <2>4, <2>5, <2>6 DEF TypeOK, IsPolicy
<1> QED
  BY <1>1, CompileInvHolds, PTL

\* A rule reported as shadowed or redundant decides no packet, if the rule said
\* to cover it has one protocol and one range of ports.
THEOREM ReportedRulesCorrect == Spec => []ReportedRulesAreUnreachable
<1>1. CompileInv => ReportedRulesAreUnreachable
  BY CompiledIsPolicy, ReportedDecidesNothing DEF ReportedRulesAreUnreachable, Failed
<1> QED
  BY <1>1, CompileInvHolds, PTL

\* Of two rules that decide a packet in opposite ways the later is reported,
\* unless one mixes icmp with ports.
THEOREM OppositesCorrect == Spec => []OppositeRulesAreReported
<1>1. CompileInv => OppositeRulesAreReported
  BY CompiledIsPolicy, OppositesHaveFindings DEF OppositeRulesAreReported, Failed
<1> QED
  BY <1>1, CompileInvHolds, PTL

\* Between two policies with unique names in the same order, a diff without
\* changes is no change of any decision.
THEOREM UnchangedPoliciesCorrect == Spec => []UnchangedPoliciesDecideAlike
<1>1. CompileInv => UnchangedPoliciesDecideAlike
  <2> SUFFICES ASSUME CompileInv, stage = "compiled", Valid(earlier), ~Raises(earlier)
               PROVE  UnchangedDecidesAlike(BuildIR(earlier, hosts), ir)
    BY DEF UnchangedPoliciesDecideAlike
  <2>1. IsPolicy(ir)
    BY CompiledIsPolicy DEF Failed
  <2>2. IsPolicy(BuildIR(earlier, hosts))
    BY BuiltIsPolicy DEF CompileInv, DocumentsInv, BuiltInv, Failed
  <2> QED
    BY <2>1, <2>2, UnchangedDecides DEF IsPolicy
<1> QED
  BY <1>1, CompileInvHolds, PTL

\* A control that passes is kept by every decision, and the two modules that
\* look for exposed rules name the same ones.
THEOREM PassedControlsCorrect == Spec => []PassedControlsHold
<1>1. CompileInv => PassedControlsHold
  BY CompiledIsPolicy, PassedControls DEF PassedControlsHold, Failed
<1> QED
  BY <1>1, CompileInvHolds, PTL

\* What is reported as unused can be removed from a document without tests.
THEOREM UnusedCorrect == Spec => []UnusedCanGo
<1>1. CompileInv => UnusedCanGo
  <2> SUFFICES ASSUME CompileInv, stage = "compiled", document.tests = {}
               PROVE  LET trimmed == Trimmed(document, ir)
                      IN  Valid(trimmed) /\ SameDecisions(ir, BuildIR(trimmed, hosts))
    BY DEF UnusedCanGo
  <2>1. /\ IsDocument(document) /\ Valid(document) /\ ~Raises(document)
        /\ hosts \in HostMaps /\ ir = BuildIR(document, hosts)
    BY DEF CompileInv, DocumentsInv, BuiltInv, Failed
  <2> QED
    BY <2>1, UnusedIsNeedless
<1> QED
  BY <1>1, CompileInvHolds, PTL

\* A group stands for what its members, their members and so on stand for, and
\* raises if and only if a cycle can be reached.
THEOREM GroupsCorrect == Spec => []GroupsResolveToMembers
<1>1. CompileInv => GroupsResolveToMembers
  BY GroupsMean DEF GroupsResolveToMembers, CompileInv, DocumentsInv
<1> QED
  BY <1>1, CompileInvHolds, PTL
=============================================================================
