---------------------------- MODULE ExportProofs ----------------------------
(***************************************************************************)
(* Proofs about what compile writes: a device that has loaded it decides   *)
(* as the policy does, so that what the gate has found out about the       *)
(* policy holds of the device.                                             *)
(***************************************************************************)
EXTENDS CompileProofs

\* Every service of a policy has its ports.
Ported(p) == \A s \in Range(p.services) : s.protocol \in {"tcp", "udp"} => s.ports # {}

\* A line of the i-th rule of a device matches the packet.
LineOf(d, i, f) == \E line \in d[i].lines : LineMatches(line, f)

\* The device has a rule for each of the policy's, which matches as it does.
Mirrors(d, p, f) ==
    /\ DOMAIN d = 1..Len(p.policies)
    /\ \A i \in 1..Len(p.policies) :
          /\ (d[i].action = "allow") <=> (p.policies[i].action = "allow")
          /\ (LineOf(d, i, f) <=> Matches(p, p.policies[i], f))

\* Such a device decides as the policy.
LEMMA MirrorsDecideAlike ==
    ASSUME NEW p, Len(p.policies) \in Nat, NEW d, NEW f, Mirrors(d, p, f)
    PROVE  Passed(d, f) <=> Allowed(p, f)
<1>1. \A i \in 1..Len(p.policies) : \A j \in 1..(i-1) : j \in 1..Len(p.policies)
  OBVIOUS
<1>2. ASSUME NEW i \in 1..Len(p.policies)
      PROVE  Decides(p, i, f) <=> LineOf(d, i, f) /\ \A j \in 1..(i-1) : ~LineOf(d, j, f)
  BY <1>1 DEF Decides, Mirrors
<1>3. Passed(d, f) <=>
         \E i \in 1..Len(p.policies) :
             /\ d[i].action = "allow"
             /\ LineOf(d, i, f) /\ \A j \in 1..(i-1) : ~LineOf(d, j, f)
  BY DEF Passed, LineOf, Mirrors
<1> QED
  BY <1>2, <1>3 DEF Allowed, Mirrors

-----------------------------------------------------------------------------
(* Targets with one line per combination.                                  *)

\* Which ends contain an address: hostnames do not.
LEMMA EndsContain ==
    ASSUME NEW values \in SUBSET Values, NEW a
    PROVE  InEnds(values, a) <=> AddrContains(values, a)
<1>1. \A n \in values : n \notin Hostnames \cup {any} <=> n \in Networks
  BY ValuesAssumption DEF Values
<1> QED
  BY <1>1 DEF InEnds, AddrContains

\* The protocol and the ports that a line takes from a service.
LEMMA ServiceOnLine ==
    ASSUME NEW s \in Service, s.protocol \in {"tcp", "udp"} => s.ports # {}, NEW f \in Packets
    PROVE  /\ ServiceMatches(s, f) <=>
                 /\ s.protocol \in {"any", f.protocol}
                 /\ NamesPorts(s) => f.port \in s.ports
           /\ ServiceMatches(s, f) <=>
                 s.protocol \in {"any", f.protocol} /\ (s.ports = {} \/ f.port \in s.ports \/ s.protocol = "any")
<1>1. /\ f.port \in 0..MaxPort /\ f.protocol \in {"tcp", "udp", "icmp"}
      /\ f.protocol = "icmp" <=> f.port = NoPort
  BY DEF Packets
<1>2. f.protocol # "icmp" => f.port \in AllPorts
  BY <1>1, MaxPortAssumption DEF AllPorts, NoPort
<1>3. \/ s.protocol \in {"tcp", "udp"} /\ s.ports # {}
      \/ s.protocol = "icmp" /\ s.ports = {}
      \/ s.protocol = "any" /\ s.ports = AllPorts
  BY DEF Service
<1>4. CASE s.protocol = "any" /\ s.ports = AllPorts
  BY <1>4 DEF ServiceMatches, NamesPorts
<1>5. CASE s.protocol = "icmp" /\ s.ports = {}
  BY <1>5 DEF ServiceMatches, NamesPorts
<1>6. CASE s.protocol \in {"tcp", "udp"} /\ s.ports # {}
  <2>1. s.protocol # "any" /\ s.protocol # "icmp"
    BY <1>6
  <2> QED
    BY <1>1, <1>2, <1>6, <2>1 DEF ServiceMatches, NamesPorts
<1> QED
  BY <1>3, <1>4, <1>5, <1>6

\* What a service line of a target that writes both ends matches.
LEMMA LineMatching ==
    ASSUME NEW p, IsPolicy(p), Ported(p), NEW i \in 1..Len(p.policies),
           NEW s \in ServiceValues(p, p.policies[i].services), NEW f \in Packets
    PROVE  /\ s \in Service
           /\ ServiceMatches(s, f) <=>
                 /\ s.protocol \in {"any", f.protocol}
                 /\ (IF NamesPorts(s) THEN s.ports ELSE {}) = {}
                       \/ f.port \in (IF NamesPorts(s) THEN s.ports ELSE {})
<1>1. s \in Service
  BY ServicesOfRule
<1>2. s.protocol \in {"tcp", "udp"} => s.ports # {}
  <2>1. PICK n \in Range(p.policies[i].services) : s = p.services[n]
    BY DEF ServiceValues
  <2>2. n \in DOMAIN p.services
    BY DEF IsPolicy
  <2>3. s \in Range(p.services)
    BY <2>1, <2>2 DEF Range
  <2> QED
    BY <2>3 DEF Ported
<1>3. ServiceMatches(s, f) <=> s.protocol \in {"any", f.protocol} /\ (NamesPorts(s) => f.port \in s.ports)
  BY <1>1, <1>2, ServiceOnLine
<1>4. CASE NamesPorts(s)
  <2>1. s.ports # {}
    BY <1>4 DEF NamesPorts
  <2> QED
    BY <1>1, <1>3, <1>4, <2>1
<1>5. CASE ~NamesPorts(s)
  BY <1>1, <1>3, <1>5
<1> QED
  BY <1>4, <1>5

\* The values of a rule are values.
LEMMA ValuesOfRule ==
    ASSUME NEW p, IsPolicy(p), NEW i \in 1..Len(p.policies)
    PROVE  /\ AddressValues(p, p.policies[i].source) \in SUBSET Values
           /\ AddressValues(p, p.policies[i].destination) \in SUBSET Values
<1>1. \A n \in DOMAIN p.addresses : p.addresses[n] \in SUBSET Values
  BY DEF IsPolicy
<1>2. /\ Range(p.policies[i].source) \subseteq DOMAIN p.addresses
      /\ Range(p.policies[i].destination) \subseteq DOMAIN p.addresses
  BY DEF IsPolicy
<1> QED
  BY <1>1, <1>2 DEF AddressValues

\* Rules without lines.
LEMMA NoLines ==
    ASSUME NEW p, NEW rule, NEW t, ~rule.enabled \/ (t = "aws-sg" /\ rule.action # "allow")
    PROVE  Lines(t, p, rule) = {}
BY DEF Lines, AllowOnly

\* A rule matches if one of each of its sources, destinations and services does.
LEMMA MatchesByParts ==
    ASSUME NEW p, IsPolicy(p), NEW i \in 1..Len(p.policies), p.policies[i].enabled, NEW f
    PROVE  Matches(p, p.policies[i], f) <=>
               /\ InEnds(AddressValues(p, p.policies[i].source), f.source)
               /\ InEnds(AddressValues(p, p.policies[i].destination), f.destination)
               /\ \E v \in ServiceValues(p, p.policies[i].services) : ServiceMatches(v, f)
<1> DEFINE sources == AddressValues(p, p.policies[i].source)
           destinations == AddressValues(p, p.policies[i].destination)
<1>1. InEnds(sources, f.source) <=> AddrContains(sources, f.source)
  BY ValuesOfRule, EndsContain
<1>2. InEnds(destinations, f.destination) <=> AddrContains(destinations, f.destination)
  BY ValuesOfRule, EndsContain
<1> QED
  BY <1>1, <1>2 DEF Matches, ServicesMatch

\* An end matches by one of its values.
LEMMA EndsByValue ==
    ASSUME NEW values, NEW a
    PROVE  InEnds(values, a) <=> \E s \in values : InEnds({s}, a)
BY DEF InEnds

\* So does a rule: by a combination of a source, a destination and a service.
LEMMA MatchesByValues ==
    ASSUME NEW p, IsPolicy(p), NEW i \in 1..Len(p.policies), p.policies[i].enabled, NEW f
    PROVE  Matches(p, p.policies[i], f) <=>
               \E s \in AddressValues(p, p.policies[i].source),
                  d \in AddressValues(p, p.policies[i].destination),
                  v \in ServiceValues(p, p.policies[i].services) :
                     InEnds({s}, f.source) /\ InEnds({d}, f.destination) /\ ServiceMatches(v, f)
<1> DEFINE sources == AddressValues(p, p.policies[i].source)
           destinations == AddressValues(p, p.policies[i].destination)
           services == ServiceValues(p, p.policies[i].services)
<1>1. InEnds(sources, f.source) <=> \E s \in sources : InEnds({s}, f.source)
  BY EndsByValue
<1>2. InEnds(destinations, f.destination) <=> \E d \in destinations : InEnds({d}, f.destination)
  BY EndsByValue
<1>3. Matches(p, p.policies[i], f) <=>
         /\ InEnds(sources, f.source) /\ InEnds(destinations, f.destination)
         /\ \E v \in services : ServiceMatches(v, f)
  BY MatchesByParts
<1> HIDE DEF sources, destinations, services
<1>4. Matches(p, p.policies[i], f) <=>
         \E s \in sources, d \in destinations, v \in services :
            InEnds({s}, f.source) /\ InEnds({d}, f.destination) /\ ServiceMatches(v, f)
  BY <1>1, <1>2, <1>3
<1> QED
  BY <1>4 DEF sources, destinations, services

\* iptables: the lines of a rule for version 4.
LEMMA IptablesRule ==
    ASSUME NEW p, IsPolicy(p), Ported(p), NEW i \in 1..Len(p.policies), p.policies[i].enabled,
           NEW f \in Packets, f.source \notin V6
    PROVE  Matches(p, p.policies[i], f) <=>
               \E line \in Lines("iptables", p, p.policies[i]) : LineMatches(line, f)
<1> DEFINE sources == AddressValues(p, p.policies[i].source)
           destinations == AddressValues(p, p.policies[i].destination)
           services == ServiceValues(p, p.policies[i].services)
<1>1. Lines("iptables", p, p.policies[i]) =
         {Iptables(s, d, v) : s \in sources, d \in destinations, v \in services}
  <2>1. p.policies[i].enabled \in BOOLEAN
    BY DEF IsPolicy
  <2> QED
    BY <2>1 DEF Lines, AllowOnly
<1>2. f.destination \notin V6
  BY DEF Packets
<1>3. ASSUME NEW s, NEW a, a \notin V6, InEnds({s}, a) PROVE ~IsV6(s)
  BY <1>3, ValuesAssumption DEF InEnds, IsV6
<1>4. ASSUME NEW s \in sources, NEW d \in destinations, NEW v \in services
      PROVE  LineMatches(Iptables(s, d, v), f) <=>
                InEnds({s}, f.source) /\ InEnds({d}, f.destination) /\ ServiceMatches(v, f)
  <2> DEFINE line == Iptables(s, d, v)
  <2>1. /\ line.src = {s} /\ line.dst = {d} /\ line.protocol = v.protocol
        /\ line.ports = IF NamesPorts(v) THEN v.ports ELSE {}
        /\ line.versions = IF IsV6(s) \/ IsV6(d) THEN {6} ELSE {4}
    BY DEF Iptables
  <2>2. InEnds({s}, f.source) /\ InEnds({d}, f.destination) => 4 \in line.versions
    BY <1>2, <1>3, <2>1
  <2>3. ServiceMatches(v, f) <=>
            v.protocol \in {"any", f.protocol} /\ (line.ports = {} \/ f.port \in line.ports)
    BY <2>1, LineMatching
  <2> HIDE DEF line
  <2>4. LineMatches(line, f) <=>
            /\ 4 \in line.versions
            /\ InEnds({s}, f.source) /\ InEnds({d}, f.destination)
            /\ v.protocol \in {"any", f.protocol} /\ (line.ports = {} \/ f.port \in line.ports)
    BY <2>1 DEF LineMatches
  <2>5. LineMatches(line, f) <=>
            InEnds({s}, f.source) /\ InEnds({d}, f.destination) /\ ServiceMatches(v, f)
    BY <2>2, <2>3, <2>4
  <2> QED
    BY <2>5 DEF line
<1>5. Matches(p, p.policies[i], f) <=>
         \E s \in sources, d \in destinations, v \in services :
            InEnds({s}, f.source) /\ InEnds({d}, f.destination) /\ ServiceMatches(v, f)
  BY MatchesByValues
<1>6. (\E line \in Lines("iptables", p, p.policies[i]) : LineMatches(line, f)) <=>
         \E s \in sources, d \in destinations, v \in services : LineMatches(Iptables(s, d, v), f)
  BY <1>1
<1> HIDE DEF sources, destinations, services
<1> QED
  BY <1>4, <1>5, <1>6

\* ciscoasa writes both versions alike.
LEMMA CiscoAsaRule ==
    ASSUME NEW p, IsPolicy(p), Ported(p), NEW i \in 1..Len(p.policies), p.policies[i].enabled,
           NEW f \in Packets
    PROVE  Matches(p, p.policies[i], f) <=>
               \E line \in Lines("ciscoasa", p, p.policies[i]) : LineMatches(line, f)
<1> DEFINE sources == AddressValues(p, p.policies[i].source)
           destinations == AddressValues(p, p.policies[i].destination)
           services == ServiceValues(p, p.policies[i].services)
<1>1. Lines("ciscoasa", p, p.policies[i]) =
         {CiscoAsa(s, d, v) : s \in sources, d \in destinations, v \in services}
  <2>1. p.policies[i].enabled \in BOOLEAN
    BY DEF IsPolicy
  <2> QED
    BY <2>1 DEF Lines, AllowOnly
<1>2. ASSUME NEW s \in sources, NEW d \in destinations, NEW v \in services
      PROVE  LineMatches(CiscoAsa(s, d, v), f) <=>
                InEnds({s}, f.source) /\ InEnds({d}, f.destination) /\ ServiceMatches(v, f)
  <2> DEFINE line == CiscoAsa(s, d, v)
  <2>1. /\ line.src = {s} /\ line.dst = {d} /\ line.protocol = v.protocol
        /\ line.ports = IF NamesPorts(v) THEN v.ports ELSE {}
        /\ line.versions = {4, 6}
    BY DEF CiscoAsa
  <2>2. ServiceMatches(v, f) <=>
            v.protocol \in {"any", f.protocol} /\ (line.ports = {} \/ f.port \in line.ports)
    BY <2>1, LineMatching
  <2> HIDE DEF line
  <2>3. LineMatches(line, f) <=>
            /\ InEnds({s}, f.source) /\ InEnds({d}, f.destination)
            /\ v.protocol \in {"any", f.protocol} /\ (line.ports = {} \/ f.port \in line.ports)
    BY <2>1 DEF LineMatches
  <2>4. LineMatches(line, f) <=>
            InEnds({s}, f.source) /\ InEnds({d}, f.destination) /\ ServiceMatches(v, f)
    BY <2>2, <2>3
  <2> QED
    BY <2>4 DEF line
<1>3. Matches(p, p.policies[i], f) <=>
         \E s \in sources, d \in destinations, v \in services :
            InEnds({s}, f.source) /\ InEnds({d}, f.destination) /\ ServiceMatches(v, f)
  BY MatchesByValues
<1>4. (\E line \in Lines("ciscoasa", p, p.policies[i]) : LineMatches(line, f)) <=>
         \E s \in sources, d \in destinations, v \in services : LineMatches(CiscoAsa(s, d, v), f)
  BY <1>1
<1> HIDE DEF sources, destinations, services
<1> QED
  BY <1>2, <1>3, <1>4

\* azure-nsg has a line per service.
LEMMA AzureRule ==
    ASSUME NEW p, IsPolicy(p), Ported(p), NEW i \in 1..Len(p.policies), p.policies[i].enabled,
           NEW f \in Packets
    PROVE  Matches(p, p.policies[i], f) <=>
               \E line \in Lines("azure-nsg", p, p.policies[i]) : LineMatches(line, f)
<1> DEFINE sources == AddressValues(p, p.policies[i].source)
           destinations == AddressValues(p, p.policies[i].destination)
           services == ServiceValues(p, p.policies[i].services)
<1>1. Lines("azure-nsg", p, p.policies[i]) = {Azure(sources, destinations, v) : v \in services}
  <2>1. p.policies[i].enabled \in BOOLEAN
    BY DEF IsPolicy
  <2> QED
    BY <2>1 DEF Lines, AllowOnly
<1>2. ASSUME NEW v \in services
      PROVE  LineMatches(Azure(sources, destinations, v), f) <=>
                /\ InEnds(sources, f.source) /\ InEnds(destinations, f.destination)
                /\ ServiceMatches(v, f)
  <2> DEFINE line == Azure(sources, destinations, v)
  <2>1. /\ line.src = sources /\ line.dst = destinations /\ line.protocol = v.protocol
        /\ line.ports = IF NamesPorts(v) THEN v.ports ELSE {}
        /\ line.versions = {4, 6}
    BY DEF Azure
  <2>2. ServiceMatches(v, f) <=>
            v.protocol \in {"any", f.protocol} /\ (line.ports = {} \/ f.port \in line.ports)
    BY <2>1, LineMatching
  <2> HIDE DEF line
  <2>3. LineMatches(line, f) <=>
            /\ InEnds(sources, f.source) /\ InEnds(destinations, f.destination)
            /\ v.protocol \in {"any", f.protocol} /\ (line.ports = {} \/ f.port \in line.ports)
    BY <2>1 DEF LineMatches
  <2>4. LineMatches(line, f) <=>
            /\ InEnds(sources, f.source) /\ InEnds(destinations, f.destination)
            /\ ServiceMatches(v, f)
    BY <2>2, <2>3
  <2> QED
    BY <2>4 DEF line
<1> QED
  BY <1>1, <1>2, MatchesByParts

\* What these targets get mirrors the policy.
LEMMA LinesMirror ==
    ASSUME NEW p, IsPolicy(p), Ported(p), NEW f \in Packets, NEW t \in {"iptables", "ciscoasa", "azure-nsg"},
           t = "iptables" => f.source \notin V6
    PROVE  Mirrors(Export(t, p), p, f)
<1>1. ASSUME NEW i \in 1..Len(p.policies)
      PROVE  LineOf(Export(t, p), i, f) <=> Matches(p, p.policies[i], f)
  <2>1. Export(t, p)[i].lines = Lines(t, p, p.policies[i])
    BY DEF Export
  <2>2. CASE p.policies[i].enabled
    BY <2>1, <2>2, IptablesRule, CiscoAsaRule, AzureRule DEF LineOf
  <2>3. CASE ~p.policies[i].enabled
    <3>1. Lines(t, p, p.policies[i]) = {}
      BY <2>3, NoLines
    <3> QED
      BY <2>1, <2>3, <3>1 DEF LineOf, Matches
  <2> QED
    BY <2>2, <2>3
<1>2. ASSUME NEW i \in 1..Len(p.policies)
      PROVE  Export(t, p)[i].action = "allow" <=> p.policies[i].action = "allow"
  BY DEF Export
<1>3. DOMAIN Export(t, p) = 1..Len(p.policies)
  BY DEF Export
<1> QED
  BY <1>1, <1>2, <1>3 DEF Mirrors

\* aws-sg passes nothing but what an enabled rule allows from a source.
LEMMA AwsSgRule ==
    ASSUME NEW p, IsPolicy(p), Ported(p), NEW i \in 1..Len(p.policies),
           NEW f \in Packets, LineOf(Export("aws-sg", p), i, f)
    PROVE  LET rule == p.policies[i] IN
           /\ rule.enabled /\ rule.action = "allow"
           /\ AddrContains(AddressValues(p, rule.source), f.source)
           /\ ServicesMatch(ServiceValues(p, rule.services), f)
<1> DEFINE rule == p.policies[i]
           sources == AddressValues(p, rule.source)
           services == ServiceValues(p, rule.services)
<1>1. Export("aws-sg", p)[i].lines = Lines("aws-sg", p, rule)
  BY DEF Export
<1>2. PICK line \in Lines("aws-sg", p, rule) : LineMatches(line, f)
  BY <1>1 DEF LineOf
<1>3. rule.enabled \in BOOLEAN
  BY DEF IsPolicy
<1>4. rule.enabled /\ rule.action = "allow"
  <2>1. ~(~rule.enabled \/ rule.action # "allow")
    BY <1>2, NoLines
  <2> QED
    BY <1>3, <2>1
<1>5. PICK v \in services : line = AwsSg(sources, v)
  <2>1. Lines("aws-sg", p, rule) = {AwsSg(sources, v) : v \in services}
    BY <1>3, <1>4 DEF Lines, AllowOnly
  <2> QED
    BY <1>2, <2>1
<1>6. /\ line.src = Sources(sources) /\ line.protocol = v.protocol
      /\ line.ports = IF NamesPorts(v) THEN v.ports ELSE {}
  BY <1>5 DEF AwsSg
<1>7. ServiceMatches(v, f)
  BY <1>2, <1>6, LineMatching DEF LineMatches
<1>8. InEnds(Sources(sources), f.source)
  BY <1>2, <1>6 DEF LineMatches
<1>9. AddrContains(sources, f.source)
  <2>1. CASE any \in sources
    BY <2>1 DEF AddrContains
  <2>2. CASE any \notin sources
    <3>1. Sources(sources) = sources
      BY <2>2 DEF Sources
    <3> QED
      BY <1>8, <3>1, ValuesOfRule, EndsContain
  <2> QED
    BY <2>1, <2>2
<1> QED
  BY <1>4, <1>7, <1>9 DEF ServicesMatch

-----------------------------------------------------------------------------
(* Targets with objects.                                                   *)

\* What a repeated "any" adds to a list.
LEMMA AnyOnceMore ==
    ASSUME NEW S, any \in S, NEW more \in BOOLEAN
    PROVE  LET last == IF more THEN <<any>> ELSE <<>> IN
           last \in Seq(S) /\ ToSet(last) = IF more THEN {any} ELSE {}
<1>1. <<any>> \in Seq(S) /\ ToSet(<<any>>) = {any}
  BY DEF ToSet
<1>2. <<>> \in Seq(S) /\ ToSet(<<>>) = {}
  BY DEF ToSet
<1> QED
  BY <1>1, <1>2

\* The values of a name are listed, with "any" once more if it is repeated.
LEMMA ListOfValues ==
    ASSUME NEW p, IsPolicy(p), NEW n \in DOMAIN p.addresses
    PROVE  LET list == ValueList(p, n) IN
           /\ Len(list) \in Nat \ {0} /\ DOMAIN list = 1..Len(list)
           /\ Range(list) = p.addresses[n] \cup (IF n \in p.repeated THEN {any} ELSE {})
<1> DEFINE T == p.addresses[n]
           S == T \cup {any}
           first == SetToSeq(T)
           second == IF n \in p.repeated THEN <<any>> ELSE <<>>
           list == first \o second
<1>1. IsFiniteSet(T) /\ T # {}
  BY DEF IsPolicy
<1>2. first \in Seq(T) /\ ToSet(first) = T
  BY <1>1, SetToSeqElements
<1>3. second \in Seq(S) /\ ToSet(second) = IF n \in p.repeated THEN {any} ELSE {}
  BY AnyOnceMore
<1> HIDE DEF first, second
<1>4. first \in Seq(S)
  BY <1>2
<1>5. list \in Seq(S) /\ ToSet(list) = ToSet(first) \cup ToSet(second)
  BY <1>3, <1>4, ElementsOfConcat
<1>6. list # <<>>
  BY <1>1, <1>2, <1>5 DEF ToSet
<1>7. Len(list) \in Nat \ {0} /\ DOMAIN list = 1..Len(list)
  BY <1>5, <1>6, LenProperties, EmptySeq
<1>8. Range(list) = ToSet(list)
  BY DEF Range, ToSet
<1> HIDE DEF list
<1>9. Range(list) = T \cup (IF n \in p.repeated THEN {any} ELSE {})
  BY <1>2, <1>3, <1>5, <1>8
<1> QED
  BY <1>7, <1>9 DEF ValueList, list, first, second

\* A name with one value has no other.
LEMMA OneValue ==
    ASSUME NEW p, IsPolicy(p), NEW n \in DOMAIN p.addresses, Len(ValueList(p, n)) <= 1
    PROVE  p.addresses[n] = {ValueList(p, n)[1]} /\ (IsAny(p, n) <=> p.addresses[n] = {any})
<1> DEFINE list == ValueList(p, n)
<1>1. /\ Len(list) \in Nat \ {0} /\ DOMAIN list = 1..Len(list)
      /\ Range(list) = p.addresses[n] \cup (IF n \in p.repeated THEN {any} ELSE {})
  BY ListOfValues
<1>2. p.addresses[n] # {}
  BY DEF IsPolicy
<1>3. Len(list) = 1
  BY <1>1
<1>4. DOMAIN list = {1}
  BY <1>1, <1>3
<1>5. Range(list) = {list[1]}
  BY <1>4 DEF Range
<1>6. list = [i \in {1} |-> list[1]]
  <2> DEFINE T == p.addresses[n]
             S == T \cup {any}
  <2>1. SetToSeq(T) \in Seq(T)
    BY SetToSeqElements DEF IsPolicy
  <2>2. SetToSeq(T) \in Seq(S)
    BY <2>1
  <2>3. (IF n \in p.repeated THEN <<any>> ELSE <<>>) \in Seq(S)
    BY AnyOnceMore
  <2>4. list \in Seq(S)
    BY <2>2, <2>3, ConcatProperties DEF ValueList
  <2> HIDE DEF list
  <2>5. list \in [1..Len(list) -> S]
    BY <2>4, LenProperties
  <2> QED
    BY <1>4, <2>5
<1>7. IsAny(p, n) <=> list[1] = any
  <2> HIDE DEF list
  <2>1. list = [i \in {1} |-> list[1]]
    BY <1>6
  <2>2. <<any>> = [i \in {1} |-> any]
    OBVIOUS
  <2>3. list = <<any>> <=> list[1] = any
    BY <2>1, <2>2
  <2> QED
    BY <2>3 DEF IsAny, list
<1> HIDE DEF list
<1>8. p.addresses[n] = {list[1]}
  BY <1>1, <1>2, <1>5
<1> QED
  BY <1>7, <1>8 DEF list

\* A name whose only value is "any" is not one of several values.
LEMMA AnyIsOne ==
    ASSUME NEW p, IsPolicy(p), NEW n \in DOMAIN p.addresses, IsAny(p, n)
    PROVE  p.addresses[n] = {any} /\ n \notin Several(p)
<1>1. ValueList(p, n) = <<any>> /\ Len(ValueList(p, n)) = 1
  BY DEF IsAny
<1>2. Len(ValueList(p, n)) <= 1 /\ ~(Len(ValueList(p, n)) > 1)
  BY <1>1
<1>3. p.addresses[n] = {ValueList(p, n)[1]}
  BY <1>2, OneValue
<1>4. p.addresses[n] = {any}
  BY <1>1, <1>3
<1> QED
  BY <1>2, <1>4 DEF Several

\* The names of rules are names of the policy.
LEMMA ReferencedNames ==
    ASSUME NEW p, IsPolicy(p)
    PROVE  /\ Referenced(p) \subseteq DOMAIN p.addresses
           /\ \A i \in 1..Len(p.policies) :
                 Range(p.policies[i].source) \cup Range(p.policies[i].destination) \subseteq Referenced(p)
<1>1. DOMAIN p.policies = 1..Len(p.policies)
  BY DEF IsPolicy
<1>2. \A rule \in Range(p.policies) : \E i \in 1..Len(p.policies) : rule = p.policies[i]
  BY <1>1 DEF Range
<1>3. \A i \in 1..Len(p.policies) : p.policies[i] \in Range(p.policies)
  BY <1>1 DEF Range
<1>4. \A i \in 1..Len(p.policies) :
          Range(p.policies[i].source) \cup Range(p.policies[i].destination) \subseteq DOMAIN p.addresses
  BY DEF IsPolicy
<1> QED
  BY <1>2, <1>3, <1>4 DEF Referenced

\* The names of addresses and services.
OwnNames(p) == DOMAIN p.addresses \cup DOMAIN p.services

\* Names that cannot be made up.
KeepsClear(p) ==
    \A m \in OwnNames(p) \cup {all} \cup Range(Spelled) : m \notin OwnNames(p) \X Nat

\* Names made up of different names or numbers are different.
LEMMA MadeUpNamesDiffer ==
    ASSUME NEW p, KeepsClear(p), any \in OwnNames(p),
           NEW n \in OwnNames(p), NEW i \in Nat,
           NEW m \in OwnNames(p), NEW j \in Nat
    PROVE  /\ MemberName(n, i) = MemberName(m, j) => n = m /\ i = j
           /\ MemberName(n, i) \notin {any, all}
<1>1. <<n, i>> \in OwnNames(p) \X Nat /\ <<m, j>> \in OwnNames(p) \X Nat
  OBVIOUS
<1>2. \A x \in DOMAIN Spelled : Spelled[x] \in Range(Spelled)
  BY DEF Range
<1>3. \A x \in DOMAIN Spelled : Spelled[x] \notin OwnNames(p) \X Nat /\ Spelled[x] \notin {any, all}
  BY <1>2, SpelledAssumption DEF KeepsClear
<1>4. MemberName(n, i) = MemberName(m, j) => <<n, i>> = <<m, j>>
  BY <1>1, <1>3, SpelledAssumption DEF MemberName, IsInjective
<1>5. any \notin OwnNames(p) \X Nat /\ all \notin OwnNames(p) \X Nat
  BY DEF KeepsClear
<1>6. MemberName(n, i) \notin {any, all}
  BY <1>1, <1>3, <1>5 DEF MemberName
<1> QED
  BY <1>4, <1>6

\* Members of different names or places have different names.
LEMMA MemberNamesDiffer ==
    ASSUME NEW p, KeepsClear(p), any \in DOMAIN p.addresses,
           NEW n \in DOMAIN p.addresses, NEW i \in Nat,
           NEW m \in DOMAIN p.addresses, NEW j \in Nat
    PROVE  /\ MemberName(n, i) = MemberName(m, j) => n = m /\ i = j
           /\ MemberName(n, i) \notin {any, all}
BY MadeUpNamesDiffer DEF OwnNames

\* The objects and groups of Palo Alto and FortiGate.
HasAddresses(c, p) == c.objects = AddressObjects(p) /\ c.groups = AddressGroups(p)

\* An object is a name of the policy or a member of one.
LEMMA ObjectIs ==
    ASSUME NEW p, NEW o \in AddressObjects(p)
    PROVE  \/ /\ o.own /\ o.name \in Referenced(p) \ Several(p)
              /\ ~IsAny(p, o.name) /\ o.value = ValueList(p, o.name)[1]
           \/ /\ ~o.own
              /\ \E n \in Several(p) : \E i \in DOMAIN ValueList(p, n) :
                    o.name = MemberName(n, i) /\ o.value = ValueList(p, n)[i]
<1> DEFINE singles == {n \in Referenced(p) \ Several(p) : ~IsAny(p, n)}
           owns == {[name |-> n, value |-> ValueList(p, n)[1], own |-> TRUE] : n \in singles}
           members(n) == {[name |-> MemberName(n, i), value |-> ValueList(p, n)[i], own |-> FALSE]
                            : i \in DOMAIN ValueList(p, n)}
<1>1. o \in owns \/ o \in UNION {members(n) : n \in Several(p)}
  BY DEF AddressObjects
<1>2. CASE o \in owns
  <2>1. PICK n \in singles : o = [name |-> n, value |-> ValueList(p, n)[1], own |-> TRUE]
    BY <1>2
  <2> QED
    BY <2>1
<1>3. CASE o \in UNION {members(n) : n \in Several(p)}
  <2>1. PICK n \in Several(p) : o \in members(n)
    BY <1>3
  <2>2. PICK i \in DOMAIN ValueList(p, n) :
           o = [name |-> MemberName(n, i), value |-> ValueList(p, n)[i], own |-> FALSE]
    BY <2>1
  <2>3. ~o.own /\ o.name = MemberName(n, i) /\ o.value = ValueList(p, n)[i]
    BY <2>2
  <2> QED
    BY <2>3
<1> QED
  BY <1>1, <1>2, <1>3

\* A name with one value that is not "any" is an object.
LEMMA SingleIsObject ==
    ASSUME NEW p, NEW n \in Referenced(p) \ Several(p), ~IsAny(p, n)
    PROVE  [name |-> n, value |-> ValueList(p, n)[1], own |-> TRUE] \in AddressObjects(p)
BY DEF AddressObjects

\* So is every member of a name with several.
LEMMA MemberIsObject ==
    ASSUME NEW p, NEW n \in Several(p), NEW i \in DOMAIN ValueList(p, n)
    PROVE  [name |-> MemberName(n, i), value |-> ValueList(p, n)[i], own |-> FALSE]
              \in AddressObjects(p)
<1> DEFINE members(m) == {[name |-> MemberName(m, j), value |-> ValueList(p, m)[j], own |-> FALSE]
                            : j \in DOMAIN ValueList(p, m)}
           all_members == UNION {members(m) : m \in Several(p)}
           o == [name |-> MemberName(n, i), value |-> ValueList(p, n)[i], own |-> FALSE]
<1>1. o \in members(n)
  OBVIOUS
<1>2. members(n) \in {members(m) : m \in Several(p)}
  OBVIOUS
<1> HIDE DEF o, members
<1>3. o \in all_members
  BY <1>1, <1>2
<1>4. all_members \subseteq AddressObjects(p)
  BY DEF AddressObjects, members
<1>5. o \in AddressObjects(p)
  BY <1>3, <1>4
<1> QED
  BY <1>5 DEF o

\* A name with one value is looked up as that value.
LEMMA SingleLookUp ==
    ASSUME NEW p, IsPolicy(p), NEW c, HasAddresses(c, p),
           NEW n \in Referenced(p) \ Several(p), ~IsAny(p, n)
    PROVE  LookUp(c, n) = p.addresses[n]
<1> DEFINE v == ValueList(p, n)[1]
           o == [name |-> n, value |-> v, own |-> TRUE]
           definitions == {d \in c.objects : d.name = n}
<1>1. n \in DOMAIN p.addresses
  BY ReferencedNames
<1>2. Len(ValueList(p, n)) <= 1
  <2>1. Len(ValueList(p, n)) \in Nat
    BY <1>1, ListOfValues
  <2> QED
    BY <2>1 DEF Several
<1>3. p.addresses[n] = {v}
  BY <1>1, <1>2, OneValue
<1>4. o \in c.objects
  BY SingleIsObject DEF HasAddresses
<1>5. n \notin DOMAIN c.groups /\ n \in Defined(c)
  <2>1. o.name = n
    OBVIOUS
  <2> HIDE DEF o
  <2>2. n \in Defined(c)
    BY <1>4, <2>1 DEF Defined
  <2> QED
    BY <2>2 DEF HasAddresses, AddressGroups
<1>6. ASSUME NEW d \in definitions, d.own PROVE d.value = v
  BY <1>6, ObjectIs DEF HasAddresses
<1>7. o \in definitions /\ o.own /\ o.value = v
  BY <1>4
<1> HIDE DEF v, o
<1>8. Value(c, n) = {v}
  BY <1>6, <1>7 DEF Value
<1> QED
  BY <1>3, <1>5, <1>8 DEF LookUp

\* A name with several is looked up as them, if no name of the policy is
\* spelled like one of its members.
LEMMA SeveralLookUp ==
    ASSUME NEW p, IsPolicy(p), KeepsClear(p), NEW c, HasAddresses(c, p),
           NEW n \in Several(p), MemberNames(p, n) \cap Referenced(p) = {}
    PROVE  LookUp(c, n) = Range(ValueList(p, n))
<1>1. n \in DOMAIN p.addresses /\ Several(p) \subseteq DOMAIN p.addresses
  BY ReferencedNames DEF Several
<1>2. \A m \in DOMAIN p.addresses : DOMAIN ValueList(p, m) \subseteq Nat
  BY ListOfValues
<1>3. any \in DOMAIN p.addresses
  BY DEF IsPolicy
<1>4. ASSUME NEW i \in DOMAIN ValueList(p, n)
      PROVE  Value(c, MemberName(n, i)) = {ValueList(p, n)[i]}
  <2> DEFINE name == MemberName(n, i)
             v == ValueList(p, n)[i]
             o == [name |-> name, value |-> v, own |-> FALSE]
             definitions == {d \in c.objects : d.name = name}
  <2>1. o \in definitions /\ o.value = v
    BY MemberIsObject DEF HasAddresses
  <2>2. name \notin Referenced(p)
    BY DEF MemberNames
  <2>3. ASSUME NEW d \in definitions PROVE ~d.own /\ d.value = v
    <3>1. ~d.own /\ \E m \in Several(p) : \E j \in DOMAIN ValueList(p, m) :
                       d.name = MemberName(m, j) /\ d.value = ValueList(p, m)[j]
      BY <2>2, ObjectIs DEF HasAddresses
    <3>2. PICK m \in Several(p) : \E j \in DOMAIN ValueList(p, m) :
                       d.name = MemberName(m, j) /\ d.value = ValueList(p, m)[j]
      BY <3>1
    <3>3. PICK j \in DOMAIN ValueList(p, m) : d.name = MemberName(m, j) /\ d.value = ValueList(p, m)[j]
      BY <3>2
    <3>4. m \in DOMAIN p.addresses /\ j \in Nat /\ i \in Nat
      BY <1>1, <1>2
    <3>5. n = m /\ i = j
      BY <1>1, <1>3, <3>3, <3>4, MemberNamesDiffer
    <3> QED
      BY <3>1, <3>3, <3>5
  <2> HIDE DEF o, v, name
  <2>4. Value(c, name) = {v}
    BY <2>1, <2>3 DEF Value
  <2> QED
    BY <2>4 DEF name, v
<1>5. n \in DOMAIN c.groups /\ c.groups[n] = MemberNames(p, n)
  BY DEF HasAddresses, AddressGroups
<1>6. LookUp(c, n) = UNION {Value(c, m) : m \in MemberNames(p, n)}
  <2>1. n \in Defined(c)
    BY <1>5 DEF Defined
  <2>2. LookUp(c, n) = UNION {Value(c, m) : m \in c.groups[n]}
    BY <1>5, <2>1 DEF LookUp
  <2> QED
    BY <1>5, <2>2
<1>7. MemberNames(p, n) = {MemberName(n, i) : i \in DOMAIN ValueList(p, n)}
  BY DEF MemberNames
<1>8. \A x : x \in LookUp(c, n) <=> \E i \in DOMAIN ValueList(p, n) : x \in Value(c, MemberName(n, i))
  BY <1>6, <1>7
<1>9. ASSUME NEW x PROVE x \in LookUp(c, n) <=> x \in Range(ValueList(p, n))
  <2>1. x \in LookUp(c, n) <=> \E i \in DOMAIN ValueList(p, n) : x = ValueList(p, n)[i]
    BY <1>4, <1>8
  <2> QED
    BY <2>1 DEF Range
<1>10. \A x : x \in LookUp(c, n) <=> x \in Range(ValueList(p, n))
  BY <1>9
<1> DEFINE found == LookUp(c, n)
           list == Range(ValueList(p, n))
<1> HIDE DEF found, list
<1>11. found = list
  <2>1. \A x : x \in found <=> x \in list
    BY <1>10 DEF found, list
  <2> QED
    BY <2>1
<1> QED
  BY <1>11 DEF found, list

\* The target's word for everything, which names no object.
LEMMA WordLookUp ==
    ASSUME NEW p, IsPolicy(p), KeepsClear(p), NEW c, HasAddresses(c, p),
           NEW word \in {any, all}, word \notin Referenced(p) \/ IsAny(p, word)
    PROVE  LookUp(c, word) = {any}
<1>1. word \notin Several(p)
  <2>1. CASE word \notin Referenced(p)
    BY <2>1 DEF Several
  <2>2. CASE word \in Referenced(p) /\ IsAny(p, word)
    BY <2>2, ReferencedNames, AnyIsOne
  <2> QED
    BY <2>1, <2>2
<1>2. ASSUME NEW o \in c.objects PROVE o.name # word
  <2>1. CASE o.own /\ o.name \in Referenced(p) /\ ~IsAny(p, o.name)
    BY <2>1
  <2>2. CASE \E n \in Several(p) : \E i \in DOMAIN ValueList(p, n) : o.name = MemberName(n, i)
    <3>1. PICK n \in Several(p) : \E i \in DOMAIN ValueList(p, n) : o.name = MemberName(n, i)
      BY <2>2
    <3>2. PICK i \in DOMAIN ValueList(p, n) : o.name = MemberName(n, i)
      BY <3>1
    <3>3. n \in DOMAIN p.addresses
      BY ReferencedNames DEF Several
    <3>4. i \in Nat
      BY <3>3, ListOfValues
    <3>5. any \in DOMAIN p.addresses
      BY DEF IsPolicy
    <3> QED
      BY <3>2, <3>3, <3>4, <3>5, MemberNamesDiffer
  <2> QED
    BY <2>1, <2>2, ObjectIs DEF HasAddresses
<1>3. DOMAIN c.groups = Several(p)
  BY DEF HasAddresses, AddressGroups
<1>4. word \notin Defined(c)
  BY <1>1, <1>2, <1>3 DEF Defined
<1> QED
  BY <1>1, <1>3, <1>4 DEF LookUp

\* A service as a device reads it matches the packet.
OnLine(s, f) == s.protocol \in {"any", f.protocol} /\ (s.ports = {} \/ f.port \in s.ports)

\* What a side of a rule stands for on a device.
Found(c, address, names) == UNION {LookUp(c, m) : m \in {address[n] : n \in Range(names)}}

\* The names of the i-th rule mean on the device what they mean in the policy.
NamesMeanAlike(c, p, f, i, address, service) ==
    /\ \A n \in Range(p.policies[i].source) :
          InEnds(LookUp(c, address[n]), f.source) <=> AddrContains(p.addresses[n], f.source)
    /\ \A n \in Range(p.policies[i].destination) :
          InEnds(LookUp(c, address[n]), f.destination) <=> AddrContains(p.addresses[n], f.destination)
    /\ \A s \in Range(p.policies[i].services) :
          OnLine(LookUpService(c, service[s]), f) <=> ServiceMatches(p.services[s], f)

\* A side of a rule matches by one of its names, on the device and in the policy.
LEMMA SideByName ==
    ASSUME NEW p, NEW c, NEW names, NEW address, NEW a,
           \A n \in Range(names) : InEnds(LookUp(c, address[n]), a) <=> AddrContains(p.addresses[n], a)
    PROVE  InEnds(Found(c, address, names), a) <=> AddrContains(AddressValues(p, names), a)
<1> DEFINE found == Found(c, address, names)
<1>1. \A x : x \in found <=> \E n \in Range(names) : x \in LookUp(c, address[n])
  BY DEF Found
<1>2. \A x : x \in AddressValues(p, names) <=> \E n \in Range(names) : x \in p.addresses[n]
  BY DEF AddressValues
<1> HIDE DEF found
<1>3. InEnds(found, a) <=> \E n \in Range(names) : InEnds(LookUp(c, address[n]), a)
  BY <1>1 DEF InEnds
<1>4. AddrContains(AddressValues(p, names), a) <=> \E n \in Range(names) : AddrContains(p.addresses[n], a)
  BY <1>2 DEF AddrContains
<1>5. InEnds(found, a) <=> AddrContains(AddressValues(p, names), a)
  BY <1>3, <1>4
<1> QED
  BY <1>5 DEF found

\* The rule of a device that is made of one rule of the policy.
LEMMA LoadedRule ==
    ASSUME NEW p, IsPolicy(p), NEW c, NEW t, NEW address, NEW service, NEW f \in Packets,
           c.rules = NamedRules(p, address, service), t = "fortigate" => f.source \notin V6,
           NEW i \in 1..Len(p.policies), p.policies[i].enabled, Parts(t, c, i) = {i},
           NamesMeanAlike(c, p, f, i, address, service)
    PROVE  LineOf(Loaded(t, c), i, f) <=> Matches(p, p.policies[i], f)
<1> DEFINE rule == p.policies[i]
           sources == Found(c, address, rule.source)
           destinations == Found(c, address, rule.destination)
           services == {LookUpService(c, m) : m \in {service[s] : s \in Range(rule.services)}}
           versions == IF t = "fortigate" THEN {4} ELSE {4, 6}
           lines == {[protocol |-> s.protocol, ports |-> s.ports, src |-> sources,
                      dst |-> destinations, versions |-> versions] : s \in services}
<1>1. DOMAIN c.rules = 1..Len(p.policies)
  BY DEF NamedRules
<1>2. /\ c.rules[i].source = {address[n] : n \in Range(rule.source)}
      /\ c.rules[i].destination = {address[n] : n \in Range(rule.destination)}
      /\ c.rules[i].services = {service[s] : s \in Range(rule.services)}
  BY DEF NamedRules
<1>3. Loaded(t, c)[i].lines = lines
  <2> DEFINE parts == {c.rules[j] : j \in Parts(t, c, i)}
             named == UNION {r.source : r \in parts}
             reached == UNION {r.destination : r \in parts}
             offered == UNION {r.services : r \in parts}
  <2>1. parts = {c.rules[i]}
    OBVIOUS
  <2>2. Loaded(t, c)[i].lines =
           {[protocol |-> s.protocol, ports |-> s.ports,
             src |-> UNION {LookUp(c, n) : n \in named}, dst |-> UNION {LookUp(c, n) : n \in reached},
             versions |-> versions] : s \in {LookUpService(c, s) : s \in offered}}
    BY <1>1 DEF Loaded
  <2> HIDE DEF parts
  <2>3. named = c.rules[i].source /\ reached = c.rules[i].destination /\ offered = c.rules[i].services
    BY <2>1
  <2>4. /\ named = {address[n] : n \in Range(rule.source)}
        /\ reached = {address[n] : n \in Range(rule.destination)}
        /\ offered = {service[s] : s \in Range(rule.services)}
    BY <1>2, <2>3
  <2> HIDE DEF named, reached, offered
  <2>5. /\ UNION {LookUp(c, n) : n \in named} = sources
        /\ UNION {LookUp(c, n) : n \in reached} = destinations
        /\ {LookUpService(c, s) : s \in offered} = services
    BY <2>4 DEF Found
  <2> HIDE DEF sources, destinations, services, versions
  <2> QED
    BY <2>2, <2>5
<1>4. /\ \A n \in Range(rule.source) :
             InEnds(LookUp(c, address[n]), f.source) <=> AddrContains(p.addresses[n], f.source)
      /\ \A n \in Range(rule.destination) :
             InEnds(LookUp(c, address[n]), f.destination) <=> AddrContains(p.addresses[n], f.destination)
  BY DEF NamesMeanAlike
<1>6. InEnds(sources, f.source) <=> AddrContains(AddressValues(p, rule.source), f.source)
  BY <1>4, SideByName
<1>7. InEnds(destinations, f.destination) <=> AddrContains(AddressValues(p, rule.destination), f.destination)
  BY <1>4, SideByName
<1>8. (\E s \in services : OnLine(s, f)) <=> ServicesMatch(ServiceValues(p, rule.services), f)
  BY DEF NamesMeanAlike, ServicesMatch, ServiceValues
<1>9. (IF f.source \in V6 THEN 6 ELSE 4) \in versions
  OBVIOUS
<1> HIDE DEF sources, destinations, services, versions
<1>10. (\E line \in lines : LineMatches(line, f)) <=>
          /\ InEnds(sources, f.source) /\ InEnds(destinations, f.destination)
          /\ \E s \in services : OnLine(s, f)
  <2> DEFINE Line(s) == [protocol |-> s.protocol, ports |-> s.ports, src |-> sources,
                         dst |-> destinations, versions |-> versions]
  <2>1. ASSUME NEW s
        PROVE  LineMatches(Line(s), f) <=>
                  InEnds(sources, f.source) /\ InEnds(destinations, f.destination) /\ OnLine(s, f)
    BY <1>9 DEF LineMatches, OnLine
  <2>2. \A line \in lines : \E s \in services : line = Line(s)
    OBVIOUS
  <2>3. \A s \in services : Line(s) \in lines
    OBVIOUS
  <2> HIDE DEF Line, lines
  <2> QED
    BY <2>1, <2>2, <2>3
<1> QED
  BY <1>3, <1>6, <1>7, <1>8, <1>10 DEF LineOf, Matches

\* A rule that is disabled has no lines.
LEMMA DisabledRule ==
    ASSUME NEW p, IsPolicy(p), NEW c, NEW t, NEW address, NEW service, NEW f \in Packets,
           c.rules = NamedRules(p, address, service),
           NEW i \in 1..Len(p.policies), ~p.policies[i].enabled, Parts(t, c, i) = {}
    PROVE  LineOf(Loaded(t, c), i, f) <=> Matches(p, p.policies[i], f)
<1>1. DOMAIN c.rules = 1..Len(p.policies)
  BY DEF NamedRules
<1>2. {c.rules[j] : j \in Parts(t, c, i)} = {}
  OBVIOUS
<1>3. {LookUpService(c, s) : s \in UNION {rule.services : rule \in {}}} = {}
  OBVIOUS
<1>4. Loaded(t, c)[i].lines = {}
  BY <1>1, <1>2, <1>3 DEF Loaded
<1> QED
  BY <1>4 DEF LineOf, Matches

\* What a device has loaded mirrors the policy if names mean on it what they
\* mean in the policy.
LEMMA LoadedMirrors ==
    ASSUME NEW p, IsPolicy(p), NEW c, NEW t, NEW address, NEW service, NEW f \in Packets,
           c.rules = NamedRules(p, address, service), t = "fortigate" => f.source \notin V6,
           \A i \in 1..Len(p.policies) :
              Parts(t, c, i) = IF p.policies[i].enabled THEN {i} ELSE {},
           \A i \in 1..Len(p.policies) :
              p.policies[i].enabled => NamesMeanAlike(c, p, f, i, address, service)
    PROVE  Mirrors(Loaded(t, c), p, f)
<1>1. DOMAIN Loaded(t, c) = 1..Len(p.policies)
  BY DEF NamedRules, Loaded
<1>2. ASSUME NEW i \in 1..Len(p.policies)
      PROVE  LineOf(Loaded(t, c), i, f) <=> Matches(p, p.policies[i], f)
  <2>1. p.policies[i].enabled \in BOOLEAN
    BY DEF IsPolicy
  <2>2. CASE p.policies[i].enabled
    BY <2>2, LoadedRule
  <2>3. CASE ~p.policies[i].enabled
    BY <2>3, DisabledRule
  <2> QED
    BY <2>2, <2>3
<1>3. ASSUME NEW i \in 1..Len(p.policies)
      PROVE  (Loaded(t, c)[i].action = "allow") <=> (p.policies[i].action = "allow")
  <2>1. DOMAIN c.rules = 1..Len(p.policies)
    BY DEF NamedRules
  <2>2. {i} \cup Parts(t, c, i) = {i}
    OBVIOUS
  <2>3. Max({i}) = i
    <3>1. i \in Int
      OBVIOUS
    <3>2. \A x \in {i} : (\A y \in {i} : x >= y) <=> x = i
      BY <3>1
    <3> QED
      BY <3>2 DEF Max
  <2>4. Loaded(t, c)[i].action = c.rules[i].action
    BY <2>1, <2>2, <2>3 DEF Loaded
  <2>5. c.rules[i].action = IF p.policies[i].action = "allow" THEN "allow" ELSE "deny"
    BY DEF NamedRules
  <2> QED
    BY <2>4, <2>5
<1> QED
  BY <1>1, <1>2, <1>3 DEF Mirrors

\* The name "any" has the one value "any".
LEMMA AnyIsAny ==
    ASSUME NEW p, IsPolicy(p)
    PROVE  IsAny(p, any)
<1>1. p.addresses[any] = {any} /\ any \notin p.repeated
  BY DEF IsPolicy
<1>2. Cardinality({any}) = 1
  BY FS_Singleton
<1> DEFINE only == [i \in 1..1 |-> any]
<1>3. only \in [1..1 -> {any}] /\ IsInjective(only)
  BY DEF IsInjective
<1>4. SetToSeq({any}) \in [1..1 -> {any}]
  BY <1>2, <1>3 DEF SetToSeq
<1> DEFINE first == SetToSeq({any})
<1> HIDE DEF first
<1>5. first = [i \in 1..1 |-> any]
  BY <1>4 DEF first
<1>6. first = <<any>>
  BY <1>5
<1>7. first \o <<>> = <<any>>
  BY <1>6
<1> QED
  BY <1>1, <1>7 DEF IsAny, ValueList, first

\* An address name means on a device what it means in the policy, if values
\* are networks and the names of the policy keep clear of those made up.
LEMMA NameMeans ==
    ASSUME NEW p, IsPolicy(p), KeepsClear(p), NEW c, HasAddresses(c, p), NEW a,
           \A o \in c.objects : o.value \in Networks,
           \A m \in Several(p) : MemberNames(p, m) \cap Referenced(p) = {},
           NEW word \in {any, all}, word \notin Referenced(p) \/ IsAny(p, word),
           NEW n \in Referenced(p)
    PROVE  InEnds(LookUp(c, IF IsAny(p, n) THEN word ELSE n), a) <=> AddrContains(p.addresses[n], a)
<1>1. n \in DOMAIN p.addresses /\ p.addresses[n] \in SUBSET Values
  <2>1. n \in DOMAIN p.addresses
    BY ReferencedNames
  <2> QED
    BY <2>1 DEF IsPolicy
<1>2. CASE IsAny(p, n)
  <2>1. LookUp(c, word) = {any} /\ p.addresses[n] = {any}
    BY <1>1, <1>2, WordLookUp, AnyIsOne
  <2> QED
    BY <1>2, <2>1 DEF InEnds, AddrContains
<1>3. CASE ~IsAny(p, n) /\ n \notin Several(p)
  <2>1. LookUp(c, n) = p.addresses[n]
    BY <1>3, SingleLookUp
  <2> QED
    BY <1>1, <1>3, <2>1, EndsContain
<1>4. CASE ~IsAny(p, n) /\ n \in Several(p)
  <2> DEFINE list == ValueList(p, n)
  <2>1. LookUp(c, n) = Range(list)
    BY <1>4, SeveralLookUp
  <2>2. Range(list) = p.addresses[n] \cup (IF n \in p.repeated THEN {any} ELSE {})
    BY <1>1, ListOfValues
  <2>3. \A i \in DOMAIN list : list[i] \in Networks
    <3> TAKE i \in DOMAIN list
    <3>1. [name |-> MemberName(n, i), value |-> list[i], own |-> FALSE] \in c.objects
      BY <1>4, MemberIsObject DEF HasAddresses
    <3> HIDE DEF list
    <3> QED
      BY <3>1
  <2>4. any \notin Range(list)
    BY <2>3, ValuesAssumption DEF Range
  <2>5. Range(list) = p.addresses[n]
    BY <2>2, <2>4
  <2> QED
    BY <1>1, <1>4, <2>1, <2>5, EndsContain
<1> QED
  BY <1>2, <1>3, <1>4

\* A service that is defined as in the policy, or the word for all of them.
LEMMA ServiceMeans ==
    ASSUME NEW p, IsPolicy(p), Ported(p), NEW s \in DOMAIN p.services, NEW f \in Packets,
           NEW read, \/ read = p.services[s] /\ p.services[s].protocol # "any"
                     \/ read = [protocol |-> "any", ports |-> {}] /\ p.services[s].protocol = "any"
    PROVE  OnLine(read, f) <=> ServiceMatches(p.services[s], f)
<1> DEFINE v == p.services[s]
<1>1. v \in Service
  BY DEF IsPolicy
<1>2. v.protocol \in {"tcp", "udp"} => v.ports # {}
  BY DEF Ported, Range
<1> HIDE DEF v
<1>3. ServiceMatches(v, f) <=>
         v.protocol \in {"any", f.protocol} /\ (v.ports = {} \/ f.port \in v.ports \/ v.protocol = "any")
  BY <1>1, <1>2, ServiceOnLine
<1>4. CASE v.protocol = "any"
  <2>1. ServiceMatches(v, f)
    BY <1>3, <1>4
  <2>2. read = [protocol |-> "any", ports |-> {}]
    BY <1>4 DEF v
  <2> QED
    BY <2>1, <2>2 DEF OnLine, v
<1>5. CASE v.protocol # "any"
  <2>1. read = v
    BY <1>5 DEF v
  <2> QED
    BY <1>3, <1>5, <2>1 DEF OnLine, v
<1> QED
  BY <1>4, <1>5

\* A rule of an accepted configuration refers to what is defined.
LEMMA AcceptedServices ==
    ASSUME NEW p, IsPolicy(p), NEW c, NEW t \in ObjectTargets, Accepted(t, c),
           NEW address, NEW service, c.rules = NamedRules(p, address, service),
           NEW i \in 1..Len(p.policies), p.policies[i].enabled,
           NEW s \in Range(p.policies[i].services)
    PROVE  service[s] \in DOMAIN c.services \cup Words(t)
<1>1. DOMAIN c.rules = 1..Len(p.policies)
  BY DEF NamedRules
<1>2. c.rules[i] \in Range(c.rules)
  BY <1>1 DEF Range
<1>3. c.rules[i].enabled /\ c.rules[i].services = {service[x] : x \in Range(p.policies[i].services)}
  BY DEF NamedRules
<1>4. \A rule \in Range(c.rules) : rule.enabled => rule.services \subseteq DOMAIN c.services \cup Words(t)
  BY DEF Accepted
<1>5. c.rules[i].services \subseteq DOMAIN c.services \cup Words(t)
  BY <1>2, <1>3, <1>4
<1> QED
  BY <1>3, <1>5

\* A device with rules of its own makes the i-th of them of the i-th.
LEMMA PartsOfRule ==
    ASSUME NEW p, IsPolicy(p), NEW c, NEW t, NEW address, NEW service,
           c.rules = NamedRules(p, address, service),
           t = "paloalto" =>
              \A i, j \in 1..Len(p.policies) :
                 i # j /\ p.policies[i].enabled /\ p.policies[j].enabled
                    => p.policies[i].name # p.policies[j].name
    PROVE  \A i \in 1..Len(p.policies) :
              Parts(t, c, i) = IF p.policies[i].enabled THEN {i} ELSE {}
<1> TAKE i \in 1..Len(p.policies)
<1>1. DOMAIN c.rules = 1..Len(p.policies)
  BY DEF NamedRules
<1>2. \A j \in 1..Len(p.policies) :
         /\ c.rules[j].enabled = p.policies[j].enabled
         /\ c.rules[j].name = p.policies[j].name
  BY DEF NamedRules
<1>3. p.policies[i].enabled \in BOOLEAN
  BY DEF IsPolicy
<1> DEFINE same == {j \in DOMAIN c.rules : /\ c.rules[j].enabled
                                           /\ c.rules[j].name = c.rules[i].name}
<1>4. CASE ~p.policies[i].enabled
  BY <1>2, <1>4 DEF Parts
<1>5. CASE p.policies[i].enabled /\ t # "paloalto"
  BY <1>2, <1>5 DEF Parts
<1>6. CASE p.policies[i].enabled /\ t = "paloalto"
  <2>1. same = {i}
    BY <1>1, <1>2, <1>6
  <2>2. Min({i}) = i
    <3>1. i \in Int
      OBVIOUS
    <3>2. \A x \in {i} : (\A y \in {i} : x =< y) <=> x = i
      BY <3>1
    <3> QED
      BY <3>2 DEF Min
  <2>3. Parts(t, c, i) = IF i = Min(same) THEN same ELSE {}
    BY <1>2, <1>6 DEF Parts
  <2> QED
    BY <1>6, <2>1, <2>2, <2>3
<1> QED
  BY <1>3, <1>4, <1>5, <1>6

\* Palo Alto.
LEMMA PaloAltoMirrors ==
    ASSUME NEW p, IsPolicy(p), Ported(p), KeepsClear(p), NEW f \in Packets,
           NamesAreApart("paloalto", p), Accepted("paloalto", PaloAlto(p))
    PROVE  Mirrors(Loaded("paloalto", PaloAlto(p)), p, f)
<1> DEFINE address == [n \in DOMAIN p.addresses |-> IF IsAny(p, n) THEN any ELSE n]
           service == [s \in DOMAIN p.services |-> s]
           defined == {s \in DOMAIN p.services :
                          p.services[s].protocol \in {"tcp", "udp"} /\ NamesPorts(p.services[s])}
           c == PaloAlto(p)
<1>1. /\ c.objects = AddressObjects(p) /\ c.groups = AddressGroups(p)
      /\ c.services = Restrict(p.services, defined)
      /\ c.rules = NamedRules(p, address, service)
  BY DEF PaloAlto
<1>2. HasAddresses(c, p)
  BY <1>1 DEF HasAddresses
<1>3. /\ \A o \in c.objects : o.value \in Networks
      /\ \A m \in Several(p) : MemberNames(p, m) \cap Referenced(p) = {}
  BY DEF Accepted, NamesAreApart, ObjectTargets
<1>4. IsAny(p, any)
  BY AnyIsAny
<1>5. Accepted("paloalto", c)
  OBVIOUS
<1> HIDE DEF c, address, service
<1>6. ASSUME NEW n \in Referenced(p), NEW a
      PROVE  InEnds(LookUp(c, address[n]), a) <=> AddrContains(p.addresses[n], a)
  <2>1. address[n] = IF IsAny(p, n) THEN any ELSE n
    BY ReferencedNames DEF address
  <2> QED
    BY <1>2, <1>3, <1>4, <2>1, NameMeans
<1>7. ASSUME NEW i \in 1..Len(p.policies), p.policies[i].enabled
      PROVE  NamesMeanAlike(c, p, f, i, address, service)
  <2>1. ASSUME NEW s \in Range(p.policies[i].services)
        PROVE  OnLine(LookUpService(c, service[s]), f) <=> ServiceMatches(p.services[s], f)
    <3>1. s \in DOMAIN p.services /\ service[s] = s
      BY DEF IsPolicy, service
    <3>2. s \in DOMAIN c.services \cup {any}
      BY <1>1, <1>5, <1>7, <3>1, AcceptedServices DEF ObjectTargets, Words
    <3>3. CASE s \in DOMAIN c.services
      <4>1. s \in defined /\ c.services[s] = p.services[s]
        BY <1>1, <3>3 DEF Restrict
      <4>2. LookUpService(c, s) = p.services[s] /\ p.services[s].protocol # "any"
        BY <3>3, <4>1 DEF LookUpService
      <4> QED
        BY <3>1, <4>2, ServiceMeans
    <3>4. CASE s \notin DOMAIN c.services
      <4>1. s = any /\ p.services[s].protocol = "any"
        BY <3>2, <3>4 DEF IsPolicy
      <4>2. LookUpService(c, s) = [protocol |-> "any", ports |-> {}]
        BY <3>4 DEF LookUpService
      <4> QED
        BY <3>1, <4>1, <4>2, ServiceMeans
    <3> QED
      BY <3>3, <3>4
  <2> QED
    BY <1>6, <2>1, ReferencedNames DEF NamesMeanAlike
<1>8. \A i \in 1..Len(p.policies) :
         Parts("paloalto", c, i) = IF p.policies[i].enabled THEN {i} ELSE {}
  BY <1>1, PartsOfRule DEF NamesAreApart
<1>9. Mirrors(Loaded("paloalto", c), p, f)
  BY <1>1, <1>7, <1>8, LoadedMirrors
<1> QED
  BY <1>9 DEF c

\* FortiGate, for version 4.
LEMMA FortiGateMirrors ==
    ASSUME NEW p, IsPolicy(p), Ported(p), KeepsClear(p), NEW f \in Packets, f.source \notin V6,
           NamesAreApart("fortigate", p), Accepted("fortigate", FortiGate(p))
    PROVE  Mirrors(Loaded("fortigate", FortiGate(p)), p, f)
<1> DEFINE address == [n \in DOMAIN p.addresses |-> IF IsAny(p, n) THEN all ELSE n]
           service == [s \in DOMAIN p.services |-> IF s = any THEN all ELSE s]
           defined == {s \in DOMAIN p.services : p.services[s].protocol # "any"}
           c == FortiGate(p)
<1>1. /\ c.objects = AddressObjects(p) /\ c.groups = AddressGroups(p)
      /\ c.services = Restrict(p.services, defined)
      /\ c.rules = NamedRules(p, address, service)
  BY DEF FortiGate
<1>2. HasAddresses(c, p)
  BY <1>1 DEF HasAddresses
<1>3. /\ \A o \in c.objects : o.value \in Networks
      /\ \A m \in Several(p) : MemberNames(p, m) \cap Referenced(p) = {}
      /\ all \notin Referenced(p) /\ all \notin DOMAIN p.services
  BY DEF Accepted, NamesAreApart, ObjectTargets
<1>4. Accepted("fortigate", c)
  OBVIOUS
<1> HIDE DEF c, address, service
<1>5. ASSUME NEW n \in Referenced(p), NEW a
      PROVE  InEnds(LookUp(c, address[n]), a) <=> AddrContains(p.addresses[n], a)
  <2>1. address[n] = IF IsAny(p, n) THEN all ELSE n
    BY ReferencedNames DEF address
  <2> QED
    BY <1>2, <1>3, <2>1, NameMeans
<1>6. ASSUME NEW i \in 1..Len(p.policies), p.policies[i].enabled
      PROVE  NamesMeanAlike(c, p, f, i, address, service)
  <2>1. ASSUME NEW s \in Range(p.policies[i].services)
        PROVE  OnLine(LookUpService(c, service[s]), f) <=> ServiceMatches(p.services[s], f)
    <3>1. s \in DOMAIN p.services /\ service[s] = IF s = any THEN all ELSE s
      BY DEF IsPolicy, service
    <3>2. service[s] \in DOMAIN c.services \cup {all}
      BY <1>1, <1>4, <1>6, AcceptedServices DEF ObjectTargets, Words
    <3>3. all \notin DOMAIN c.services
      BY <1>1, <1>3 DEF Restrict
    <3>4. CASE s = any
      <4>1. p.services[s].protocol = "any"
        BY <3>4 DEF IsPolicy
      <4>2. LookUpService(c, service[s]) = [protocol |-> "any", ports |-> {}]
        BY <3>1, <3>3, <3>4 DEF LookUpService
      <4> QED
        BY <3>1, <4>1, <4>2, ServiceMeans
    <3>5. CASE s # any
      <4>1. service[s] = s /\ s # all
        BY <1>3, <3>1, <3>5
      <4>2. s \in DOMAIN c.services
        BY <3>2, <4>1
      <4>3. s \in defined /\ c.services[s] = p.services[s]
        BY <1>1, <4>2 DEF Restrict
      <4>4. LookUpService(c, s) = p.services[s] /\ p.services[s].protocol # "any"
        BY <4>2, <4>3 DEF LookUpService
      <4> QED
        BY <3>1, <4>1, <4>4, ServiceMeans
    <3> QED
      BY <3>4, <3>5
  <2> QED
    BY <1>5, <2>1, ReferencedNames DEF NamesMeanAlike
<1>7. \A i \in 1..Len(p.policies) :
         Parts("fortigate", c, i) = IF p.policies[i].enabled THEN {i} ELSE {}
  BY <1>1, PartsOfRule
<1>8. Mirrors(Loaded("fortigate", c), p, f)
  BY <1>1, <1>6, <1>7, LoadedMirrors
<1> QED
  BY <1>8 DEF c

\* A list of Check Point holds the values of its name.
LEMMA ListLookUp ==
    ASSUME NEW p, IsPolicy(p), NEW n \in DOMAIN p.addresses
    PROVE  LookUp(CheckPoint(p), n) = IF IsAny(p, n) THEN {any} ELSE p.addresses[n]
<1> DEFINE listed == {m \in DOMAIN p.addresses : ~IsAny(p, m)}
           list(m) == {[name |-> m, value |-> v, own |-> TRUE] : v \in p.addresses[m]}
           c == CheckPoint(p)
           definitions == {o \in c.objects : o.name = n}
<1>1. c.objects = UNION {list(m) : m \in listed} /\ c.groups = [m \in {} |-> {}]
  BY DEF CheckPoint
<1> HIDE DEF c
<1>2. ASSUME NEW o \in c.objects PROVE o.own /\ o.name \in listed /\ o.value \in p.addresses[o.name]
  <2>1. PICK m \in listed : o \in list(m)
    BY <1>1
  <2>2. PICK v \in p.addresses[m] : o = [name |-> m, value |-> v, own |-> TRUE]
    BY <2>1
  <2> QED
    BY <2>1, <2>2
<1>3. ASSUME NEW m \in listed, NEW v \in p.addresses[m]
      PROVE  [name |-> m, value |-> v, own |-> TRUE] \in c.objects
  <2>1. [name |-> m, value |-> v, own |-> TRUE] \in list(m)
    OBVIOUS
  <2>2. list(m) \in {list(x) : x \in listed}
    OBVIOUS
  <2> HIDE DEF list
  <2> QED
    BY <1>1, <2>1, <2>2
<1>4. n \notin DOMAIN c.groups /\ DOMAIN c.groups = {}
  BY <1>1
<1>5. CASE IsAny(p, n)
  <2>1. n \notin Defined(c)
    BY <1>2, <1>4, <1>5 DEF Defined
  <2>2. LookUp(c, n) = {any}
    BY <1>4, <2>1 DEF LookUp
  <2> QED
    BY <1>5, <2>2 DEF c
<1>6. CASE ~IsAny(p, n)
  <2>1. PICK v \in p.addresses[n] : TRUE
    BY DEF IsPolicy
  <2> DEFINE o == [name |-> n, value |-> v, own |-> TRUE]
  <2>2. o \in c.objects /\ o.name = n
    BY <1>3, <1>6
  <2> HIDE DEF o
  <2>3. n \in Defined(c) /\ o \in definitions /\ o.own
    BY <1>2, <2>2 DEF Defined
  <2>4. Value(c, n) = {d.value : d \in {d \in definitions : d.own}}
    BY <2>3 DEF Value
  <2>5. \A d \in definitions : d.own /\ d.value \in p.addresses[n]
    BY <1>2
  <2>6. ASSUME NEW x \in p.addresses[n] PROVE x \in Value(c, n)
    <3> DEFINE d == [name |-> n, value |-> x, own |-> TRUE]
    <3>1. d \in c.objects /\ d.name = n /\ d.own /\ d.value = x
      BY <1>3, <1>6
    <3> HIDE DEF d
    <3> QED
      BY <2>4, <3>1
  <2>7. Value(c, n) = p.addresses[n]
    BY <2>4, <2>5, <2>6
  <2>8. LookUp(c, n) = p.addresses[n]
    BY <1>4, <2>3, <2>7 DEF LookUp
  <2> QED
    BY <1>6, <2>8 DEF c
<1> QED
  BY <1>5, <1>6

\* Check Point.
LEMMA CheckPointMirrors ==
    ASSUME NEW p, IsPolicy(p), Ported(p), NamesAreApart("checkpoint", p), NEW f \in Packets
    PROVE  Mirrors(Loaded("checkpoint", CheckPoint(p)), p, f)
<1> DEFINE address == [n \in DOMAIN p.addresses |-> IF any \in p.addresses[n] THEN AnyWord ELSE n]
           service == [s \in DOMAIN p.services |-> IF p.services[s].protocol = "any" THEN AnyWord ELSE s]
           defined == {s \in DOMAIN p.services : p.services[s].protocol # "any"}
           c == CheckPoint(p)
<1>1. c.services = Restrict(p.services, defined) /\ c.rules = NamedRules(p, address, service)
  BY DEF CheckPoint
<1>2. \A n \in DOMAIN p.addresses : LookUp(c, n) = IF IsAny(p, n) THEN {any} ELSE p.addresses[n]
  BY ListLookUp
<1>3. AnyWord \notin DOMAIN p.addresses /\ AnyWord \notin DOMAIN p.services
  BY DEF NamesAreApart
<1>4. LookUp(c, AnyWord) = {any}
  <2>1. /\ DOMAIN c.groups = {}
        /\ c.objects = UNION {{[name |-> n, value |-> v, own |-> TRUE] : v \in p.addresses[n]}
                              : n \in {n \in DOMAIN p.addresses : ~IsAny(p, n)}}
    BY DEF CheckPoint
  <2>2. \A o \in c.objects : o.name \in DOMAIN p.addresses
    BY <2>1
  <2> HIDE DEF c
  <2>3. AnyWord \notin Defined(c)
    BY <1>3, <2>1, <2>2 DEF Defined
  <2> QED
    BY <2>1, <2>3 DEF LookUp
<1> HIDE DEF c, address, service
<1>5. ASSUME NEW n \in DOMAIN p.addresses, NEW a
      PROVE  InEnds(LookUp(c, address[n]), a) <=> AddrContains(p.addresses[n], a)
  <2>1. address[n] = IF any \in p.addresses[n] THEN AnyWord ELSE n
    BY DEF address
  <2>2. CASE any \in p.addresses[n]
    BY <1>4, <2>1, <2>2 DEF InEnds, AddrContains
  <2>3. CASE any \notin p.addresses[n]
    <3>1. ~IsAny(p, n)
      BY <2>3, AnyIsOne
    <3>2. LookUp(c, address[n]) = p.addresses[n]
      BY <1>2, <2>1, <2>3, <3>1
    <3>3. p.addresses[n] \in SUBSET Values
      BY DEF IsPolicy
    <3> QED
      BY <3>2, <3>3, EndsContain
  <2> QED
    BY <2>2, <2>3
<1>6. ASSUME NEW i \in 1..Len(p.policies), p.policies[i].enabled
      PROVE  NamesMeanAlike(c, p, f, i, address, service)
  <2>1. ASSUME NEW s \in Range(p.policies[i].services)
        PROVE  OnLine(LookUpService(c, service[s]), f) <=> ServiceMatches(p.services[s], f)
    <3>1. s \in DOMAIN p.services /\ service[s] = IF p.services[s].protocol = "any" THEN AnyWord ELSE s
      BY DEF IsPolicy, service
    <3>2. AnyWord \notin DOMAIN c.services
      BY <1>1, <1>3 DEF Restrict
    <3>3. CASE p.services[s].protocol = "any"
      <4>1. LookUpService(c, service[s]) = [protocol |-> "any", ports |-> {}]
        BY <3>1, <3>2, <3>3 DEF LookUpService
      <4> QED
        BY <3>1, <3>3, <4>1, ServiceMeans
    <3>4. CASE p.services[s].protocol # "any"
      <4>1. s \in DOMAIN c.services /\ c.services[s] = p.services[s] /\ service[s] = s
        BY <1>1, <3>1, <3>4 DEF Restrict
      <4>2. LookUpService(c, service[s]) = p.services[s]
        BY <4>1 DEF LookUpService
      <4> QED
        BY <3>1, <3>4, <4>2, ServiceMeans
    <3> QED
      BY <3>3, <3>4
  <2>2. Range(p.policies[i].source) \cup Range(p.policies[i].destination) \subseteq DOMAIN p.addresses
    BY DEF IsPolicy
  <2> QED
    BY <1>5, <2>1, <2>2 DEF NamesMeanAlike
<1>7. \A i \in 1..Len(p.policies) :
         Parts("checkpoint", c, i) = IF p.policies[i].enabled THEN {i} ELSE {}
  BY <1>1, PartsOfRule
<1>8. Mirrors(Loaded("checkpoint", c), p, f)
  BY <1>1, <1>6, <1>7, LoadedMirrors
<1> QED
  BY <1>8 DEF c

-----------------------------------------------------------------------------
(* What has been written.                                                  *)

\* The names of a compiled policy cannot be made up.
LEMMA CompiledKeepsClear ==
    ASSUME CompileInv, stage \notin {"start"} \cup Failed
    PROVE  KeepsClear(ir)
<1>1. ir = BuildIR(document, hosts)
  BY DEF CompileInv, BuiltInv
<1>2. OwnNames(ir) = Named(document) \cup DOMAIN document.services \cup {any}
  <2>1. /\ DOMAIN ir.addresses = Named(document) \cup {any}
        /\ DOMAIN ir.services = DOMAIN document.services \cup {any}
    BY <1>1 DEF BuildIR
  <2> QED
    BY <2>1 DEF OwnNames
<1>3. PICK c \in Cases : document = c.document
  BY DEF CompileInv, DocumentsInv
<1> DEFINE names == Named(document) \cup DOMAIN document.services \cup {any}
<1>4. \A m \in names \cup {all} \cup Range(Spelled) : m \notin names \X Nat
  BY <1>3, MadeUpAssumption
<1> QED
  BY <1>2, <1>4 DEF KeepsClear

\* A device that has taken the configuration mirrors the policy, for the
\* packets whose decision the target keeps.
LEMMA DeviceMirrors ==
    ASSUME CompileInv, stage \in Written, Faithful, NEW f \in Packets, Kept(target, f)
    PROVE  Mirrors(device, ir, f)
<1>1. IsPolicy(ir)
  BY CompiledIsPolicy DEF Written, Failed
<1>2. Ported(ir)
  BY DEF Faithful, PortsAreGiven, Ported
<1>3. device = Installed(target, Render(target, ir)) /\ config = Render(target, ir)
  BY DEF CompileInv, WrittenInv
<1>4. NamesAreApart(target, ir) /\ Accepted(target, Render(target, ir))
  BY <1>3 DEF Faithful
<1>5. KeepsClear(ir)
  BY CompiledKeepsClear DEF Written, Failed
<1>6. CASE target \in {"iptables", "ciscoasa", "azure-nsg"}
  <2>1. device = Export(target, ir)
    BY <1>3, <1>6 DEF Installed, Render, LineTargets, FirstMatch
  <2>2. target = "iptables" => f.source \notin V6
    BY DEF Kept
  <2> QED
    BY <1>1, <1>2, <1>6, <2>1, <2>2, LinesMirror
<1>7. CASE target = "paloalto"
  <2>1. Render(target, ir) = PaloAlto(ir)
    BY <1>7 DEF Render, LineTargets, FirstMatch, AllowOnly
  <2>2. device = Loaded("paloalto", PaloAlto(ir))
    BY <1>3, <1>7, <2>1 DEF Installed, LineTargets, FirstMatch, AllowOnly
  <2> QED
    BY <1>1, <1>2, <1>4, <1>5, <1>7, <2>1, <2>2, PaloAltoMirrors
<1>8. CASE target = "fortigate"
  <2>1. Render(target, ir) = FortiGate(ir)
    BY <1>8 DEF Render, LineTargets, FirstMatch, AllowOnly
  <2>2. device = Loaded("fortigate", FortiGate(ir))
    BY <1>3, <1>8, <2>1 DEF Installed, LineTargets, FirstMatch, AllowOnly
  <2>3. f.source \notin V6
    BY <1>8 DEF Kept
  <2> QED
    BY <1>1, <1>2, <1>4, <1>5, <1>8, <2>1, <2>2, <2>3, FortiGateMirrors
<1>9. CASE target = "checkpoint"
  <2>1. Render(target, ir) = CheckPoint(ir)
    BY <1>9 DEF Render, LineTargets, FirstMatch, AllowOnly
  <2>2. device = Loaded("checkpoint", CheckPoint(ir))
    BY <1>3, <1>9, <2>1 DEF Installed, LineTargets, FirstMatch, AllowOnly
  <2> QED
    BY <1>1, <1>2, <1>4, <1>9, <2>2, CheckPointMirrors
<1> QED
  BY <1>6, <1>7, <1>8, <1>9 DEF Kept

\* So it passes what the policy allows.
LEMMA DeviceDecidesAlike ==
    ASSUME CompileInv, stage \in Written, Faithful, NEW f \in Packets, Kept(target, f)
    PROVE  Passed(device, f) <=> Allowed(ir, f)
<1>1. Len(ir.policies) \in Nat
  BY CompiledIsPolicy DEF IsPolicy, Written, Failed
<1> QED
  BY <1>1, DeviceMirrors, MirrorsDecideAlike

\* What an allowed packet is allowed by.
LEMMA AllowingRule ==
    ASSUME NEW p, NEW f, Allowed(p, f)
    PROVE  \E i \in 1..Len(p.policies) :
              /\ p.policies[i].enabled /\ p.policies[i].action = "allow" /\ Decides(p, i, f)
              /\ AddrContains(AddressValues(p, p.policies[i].source), f.source)
              /\ AddrContains(AddressValues(p, p.policies[i].destination), f.destination)
              /\ ServicesMatch(ServiceValues(p, p.policies[i].services), f)
BY DEF Allowed, Decides, Matches

\* A side with an address that a pattern is about matches the pattern.
LEMMA SideOfPattern ==
    ASSUME NEW values, NEW side, NEW a, InSide(side, a), AddrContains(values, a)
    PROVE  SideMatches(values, side)
<1>1. CASE side = Unset
  BY <1>1, WordsAssumption DEF SideMatches
<1>2. CASE side \notin {Unset, any, Broad} /\ \E n \in side : a \in n
  <2>1. OverlapsNetworks(values, side)
    BY <1>2 DEF OverlapsNetworks, AddrContains
  <2> QED
    BY <1>2, <2>1 DEF SideMatches
<1> QED
  BY <1>1, <1>2 DEF InSide

\* The rule that allows a forbidden packet is found.
LEMMA ForbiddenRuleIsFound ==
    ASSUME NEW p, IsPolicy(p), NEW patterns, NEW pattern \in patterns, NEW f \in Packets,
           IsForbidden(pattern, f), Allowed(p, f)
    PROVE  \E i \in 1..Len(p.policies) :
              /\ Decides(p, i, f)
              /\ RuleFinding(i, pattern.title, pattern.severity) \in PatternFindings(p, patterns)
<1>1. PICK i \in 1..Len(p.policies) :
         /\ p.policies[i].enabled /\ p.policies[i].action = "allow" /\ Decides(p, i, f)
         /\ AddrContains(AddressValues(p, p.policies[i].source), f.source)
         /\ AddrContains(AddressValues(p, p.policies[i].destination), f.destination)
         /\ ServicesMatch(ServiceValues(p, p.policies[i].services), f)
  BY AllowingRule
<1> DEFINE rule == p.policies[i]
           services == {s \in ServiceValues(p, rule.services) :
                           pattern.protocol = Unset \/ s.protocol \in {pattern.protocol, "any"}}
<1>2. SideMatches(AddressValues(p, rule.source), pattern.source)
  BY <1>1, SideOfPattern DEF IsForbidden
<1>3. SideMatches(AddressValues(p, rule.destination), pattern.destination)
  BY <1>1, SideOfPattern DEF IsForbidden
<1>4. PICK s \in ServiceValues(p, rule.services) : ServiceMatches(s, f)
  BY <1>1 DEF ServicesMatch
<1>5. s \in Service
  BY ServicesOfRule
<1>6. s \in services
  BY <1>4, <1>5, MatchingPort DEF IsForbidden
<1>7. ASSUME pattern.ports # Unset PROVE PortsOf(services) \cap pattern.ports # {}
  <2>1. f.port # NoPort /\ f.port \in pattern.ports
    BY <1>7 DEF IsForbidden
  <2>2. f.port \in s.ports
    BY <1>4, <1>5, <2>1, PortOfPacket
  <2> HIDE DEF services
  <2>3. f.port \in PortsOf(services)
    BY <1>6, <2>2 DEF PortsOf
  <2> QED
    BY <2>1, <2>3
<1>8. MatchesPattern(p, rule, pattern)
  <2>1. services # {}
    BY <1>6
  <2> QED
    BY <1>2, <1>3, <1>7, <2>1 DEF MatchesPattern
<1>9. RuleFinding(i, pattern.title, pattern.severity) \in PatternFindings(p, patterns)
  <2> HIDE DEF services
  <2>1. i \in {j \in 1..Len(p.policies) :
                  p.policies[j].enabled /\ p.policies[j].action = "allow"}
    BY <1>1
  <2>2. pattern \in {q \in patterns : MatchesPattern(p, p.policies[i], q)}
    BY <1>8
  <2> QED
    BY <2>1, <2>2 DEF PatternFindings
<1> QED
  BY <1>1, <1>9

-----------------------------------------------------------------------------
(* Flow tests.                                                             *)

\* A network has a least address, and one of its addresses is probed.
LEMMA ProbeInside ==
    ASSUME NEW v \in Networks
    PROVE  \E a \in v : a \in Probes(v)
<1>1. v # {} /\ v \subseteq Nat
  BY NetworksAssumption, AddressesAssumption DEF V4
<1>2. v # any
  BY ValuesAssumption
<1>3. PICK x \in v : TRUE
  BY <1>1
<1> DEFINE below == {y \in 1..(x+1) : y - 1 \in v}
<1>4. PICK m \in v : \A y \in v : m =< y
  <2>1. x + 1 \in Nat /\ below \in SUBSET (1..(x+1)) /\ x + 1 \in below
    BY <1>1, <1>3
  <2>2. PICK k \in below : \A y \in below : k =< y
    <3> HIDE DEF below
    <3> QED
      BY <2>1, LeastExists
  <2>3. k \in Nat /\ k - 1 \in v /\ k =< x + 1
    BY <1>1, <2>1, <2>2
  <2>4. ASSUME NEW y \in v PROVE k - 1 =< y
    <3>1. CASE y =< x
      <4>1. y + 1 \in below
        BY <1>1, <3>1
      <4> QED
        BY <1>1, <2>2, <2>3, <4>1
    <3>2. CASE ~(y =< x)
      BY <1>1, <2>3, <3>2
    <3> QED
      BY <3>1, <3>2
  <2> QED
    BY <2>3, <2>4
<1>5. Min(v) = m
  <2>1. Min(v) \in v /\ \A y \in v : Min(v) =< y
    BY <1>4 DEF Min
  <2>2. Min(v) =< m /\ m =< Min(v) /\ m \in Nat /\ Min(v) \in Nat
    BY <1>1, <1>4, <2>1
  <2> QED
    BY <2>2
<1>6. CASE Cardinality(v) <= 2
  BY <1>2, <1>5, <1>6 DEF Probes
<1>7. CASE ~(Cardinality(v) <= 2)
  <2>1. v # {m}
    <3>1. Cardinality({m}) = 1
      BY FS_Singleton
    <3>2. Cardinality({m}) <= 2
      BY <3>1
    <3> QED
      BY <1>7, <3>2
  <2>2. PICK y \in v : y # m
    BY <2>1
  <2>3. m + 1 \in m..y
    BY <1>1, <1>4, <2>2
  <2>4. m + 1 \in v
    <3>1. m..y \subseteq v
      BY NetworksAssumption
    <3> QED
      BY <2>3, <3>1
  <2>5. m + 1 \in Probes(v)
    BY <1>2, <1>5, <1>7 DEF Probes
  <2> QED
    BY <2>4, <2>5
<1> QED
  BY <1>6, <1>7

\* Addresses of a network that none of the policy cuts are told apart by none.
LEMMA SameSideOfUncut ==
    ASSUME NEW p, IsPolicy(p), NEW v \in NetworksOf(p), Uncut(p, v), NEW a \in v, NEW b \in v,
           NEW i \in 1..Len(p.policies)
    PROVE  /\ AddrContains(AddressValues(p, p.policies[i].source), a)
                 <=> AddrContains(AddressValues(p, p.policies[i].source), b)
           /\ AddrContains(AddressValues(p, p.policies[i].destination), a)
                 <=> AddrContains(AddressValues(p, p.policies[i].destination), b)
<1>1. v \in Networks
  BY DEF NetworksOf
<1>2. ASSUME NEW n \in NetworksOf(p) PROVE a \in n <=> b \in n
  <2>1. n \in Networks
    BY DEF NetworksOf
  <2>2. n \cap v = {} \/ v \subseteq n \/ n \subseteq v
    BY <1>1, <2>1, NetworksAssumption
  <2>3. n \subseteq v => n = v
    BY DEF Uncut
  <2> QED
    BY <2>2, <2>3
<1>3. ASSUME NEW names, Range(names) \subseteq DOMAIN p.addresses
      PROVE  AddrContains(AddressValues(p, names), a) <=> AddrContains(AddressValues(p, names), b)
  <2>1. \A n \in AddressValues(p, names) \cap Networks : a \in n <=> b \in n
    BY <1>2, <1>3, NamedNetworks
  <2> QED
    BY <2>1 DEF AddrContains
<1>4. /\ Range(p.policies[i].source) \subseteq DOMAIN p.addresses
      /\ Range(p.policies[i].destination) \subseteq DOMAIN p.addresses
  BY DEF IsPolicy
<1>5. AddrContains(AddressValues(p, p.policies[i].source), a)
         <=> AddrContains(AddressValues(p, p.policies[i].source), b)
  BY <1>3, <1>4
<1>6. AddrContains(AddressValues(p, p.policies[i].destination), a)
         <=> AddrContains(AddressValues(p, p.policies[i].destination), b)
  BY <1>3, <1>4
<1> QED
  BY <1>5, <1>6

\* No rule tells the one address from the other.
Alike(p, a, b) ==
    \A i \in 1..Len(p.policies) :
        /\ (AddrContains(AddressValues(p, p.policies[i].source), a)
               <=> AddrContains(AddressValues(p, p.policies[i].source), b))
        /\ (AddrContains(AddressValues(p, p.policies[i].destination), a)
               <=> AddrContains(AddressValues(p, p.policies[i].destination), b))

\* For every address a test is about there is a probe like it.
LEMMA ProbeLike ==
    ASSUME NEW e, IsPolicy(ir), NEW a \in Covered(e)
    PROVE  \E b \in Endpoints(ir, e) : Alike(ir, a, b) /\ (a \in V6 <=> b \in V6)
<1>1. CASE e \in Addresses
  BY <1>1 DEF Covered, Endpoints, Alike
<1>2. CASE e \notin Addresses
  <2>1. /\ e \in DOMAIN ir.addresses
        /\ \A v \in ir.addresses[e] : v \in Networks /\ Uncut(ir, v)
        /\ a \in UNION ir.addresses[e]
    BY <1>2 DEF Covered
  <2>2. PICK v \in ir.addresses[e] : a \in v
    BY <2>1
  <2>3. v \in Networks /\ Uncut(ir, v) /\ v # any
    BY <2>1, ValuesAssumption
  <2>4. v \in NetworksOf(ir)
    BY <2>1, <2>3 DEF NetworksOf
  <2>5. PICK b \in v : b \in Probes(v)
    BY <2>3, ProbeInside
  <2>6. b \in Endpoints(ir, e)
    <3>1. CASE e = Star
      <4> DEFINE values == (UNION {ir.addresses[n] : n \in DOMAIN ir.addresses}) \ {any}
      <4>1. v \in values
        BY <2>1, <2>3
      <4> HIDE DEF values
      <4>2. b \in UNION {Probes(w) : w \in values}
        BY <2>5, <4>1
      <4> QED
        BY <1>2, <3>1, <4>2 DEF Endpoints, values
    <3>2. CASE e # Star
      <4>1. b \in UNION {Probes(w) : w \in ir.addresses[e]}
        BY <2>5
      <4> QED
        BY <1>2, <3>2, <4>1 DEF Endpoints
    <3> QED
      BY <3>1, <3>2
  <2>7. Alike(ir, a, b)
    BY <2>2, <2>3, <2>4, SameSideOfUncut DEF Alike
  <2>8. a \in V6 <=> b \in V6
    BY <2>2, <2>3, NetworksAssumption DEF V4
  <2> QED
    BY <2>6, <2>7, <2>8
<1> QED
  BY <1>1, <1>2

\* Packets that no rule tells apart are decided alike.
LEMMA AlikeDecided ==
    ASSUME NEW p, NEW f, NEW g, f.port = g.port, f.protocol = g.protocol,
           Alike(p, f.source, g.source), Alike(p, f.destination, g.destination),
           Len(p.policies) \in Nat
    PROVE  Allowed(p, f) <=> Allowed(p, g)
<1>1. ASSUME NEW i \in 1..Len(p.policies)
      PROVE  Matches(p, p.policies[i], f) <=> Matches(p, p.policies[i], g)
  <2>1. \A s : ServiceMatches(s, f) <=> ServiceMatches(s, g)
    BY DEF ServiceMatches
  <2>2. ServicesMatch(ServiceValues(p, p.policies[i].services), f)
           <=> ServicesMatch(ServiceValues(p, p.policies[i].services), g)
    BY <2>1 DEF ServicesMatch
  <2> QED
    BY <2>2 DEF Matches, Alike
<1>2. \A i \in 1..Len(p.policies) : \A j \in 1..(i-1) : j \in 1..Len(p.policies)
  OBVIOUS
<1>3. \A i \in 1..Len(p.policies) : Decides(p, i, f) <=> Decides(p, i, g)
  BY <1>1, <1>2 DEF Decides
<1> QED
  BY <1>3 DEF Allowed

\* A test that passes says what becomes of every packet it is about.
LEMMA TestedPacket ==
    ASSUME IsPolicy(ir), NEW test, Passes(ir, test), NEW f \in Packets,
           f.protocol = test.protocol, f.port = test.port,
           f.source \in Covered(test.src), f.destination \in Covered(test.dst)
    PROVE  Allowed(ir, f) <=> test.expect = "allow"
<1>1. PICK s \in Endpoints(ir, test.src) : Alike(ir, f.source, s) /\ (f.source \in V6 <=> s \in V6)
  BY ProbeLike
<1>2. PICK d \in Endpoints(ir, test.dst) :
         Alike(ir, f.destination, d) /\ (f.destination \in V6 <=> d \in V6)
  BY ProbeLike
<1> DEFINE probe == [port |-> test.port, protocol |-> test.protocol, source |-> s, destination |-> d]
<1>3. f.source \in V6 <=> f.destination \in V6
  BY DEF Packets
<1>4. s \in V6 <=> d \in V6
  BY <1>1, <1>2, <1>3
<1>5. Allowed(ir, probe) <=> test.expect = "allow"
  BY <1>4 DEF Passes
<1>6. Allowed(ir, f) <=> Allowed(ir, probe)
  <2>1. /\ probe.port = f.port /\ probe.protocol = f.protocol
        /\ probe.source = s /\ probe.destination = d
    OBVIOUS
  <2>2. Len(ir.policies) \in Nat
    BY DEF IsPolicy
  <2> HIDE DEF probe
  <2> QED
    BY <1>1, <1>2, <2>1, <2>2, AlikeDecided
<1> QED
  BY <1>5, <1>6

-----------------------------------------------------------------------------
(* Exposure.                                                               *)

\* The findings of a rule that lets the outside in.
LEMMA ExposedFindings ==
    ASSUME NEW p, NEW i \in Allowing(p), IsBroad(AddressValues(p, p.policies[i].source))
    PROVE  LET ports == PortsOf(ServiceValues(p, p.policies[i].services)) IN
           /\ any \in AddressValues(p, p.policies[i].destination) =>
                 RuleFinding(i, "Any to Any", "critical") \in AttackSurface(p)
           /\ \A port \in ports \cap Database :
                 RuleFinding(i, "Internet to internal database", "high") \in AttackSurface(p)
           /\ \A port \in ports \cap DOMAIN HighRisk :
                 RuleFinding(i, HighRisk[port], "high") \in AttackSurface(p)
<1> DEFINE ports == PortsOf(ServiceValues(p, p.policies[i].services))
<1>1. i \in 1..Len(p.policies) /\ RuleSurface(p, i) \subseteq AttackSurface(p)
  BY DEF Allowing, AttackSurface, SurfaceOf
<1>2. ASSUME any \in AddressValues(p, p.policies[i].destination)
      PROVE  RuleFinding(i, "Any to Any", "critical") \in RuleSurface(p, i)
  BY <1>2 DEF RuleSurface
<1>3. ASSUME NEW port \in ports \cap Database
      PROVE  RuleFinding(i, "Internet to internal database", "high") \in RuleSurface(p, i)
  BY <1>3 DEF RuleSurface
<1>4. ASSUME NEW port \in ports \cap DOMAIN HighRisk
      PROVE  RuleFinding(i, HighRisk[port], "high") \in RuleSurface(p, i)
  BY <1>4 DEF RuleSurface
<1> QED
  BY <1>1, <1>2, <1>3, <1>4

\* A finding that the gate has let pass only warns or has its exception.
LEMMA FindingIsWaived ==
    ASSUME NEW b, GatePasses(b), NEW i, NEW title, NEW severity,
           RuleFinding(i, title, severity) \in AnalysisFindings \cup PatternFindings(ir, b.patterns)
    PROVE  \/ ~(SEVERITY_RANK[severity] >= SEVERITY_RANK[b.fail_on])
           \/ severity # "critical" /\ b.allow_exceptions /\ Excepted(ir.policies[i], title)
<1> DEFINE f == RuleFinding(i, title, severity)
<1>1. f.rule = i /\ f.title = title /\ f.severity = severity
  BY DEF RuleFinding
<1>2. ~Blocks(f, b)
  BY DEF GatePasses
<1> HIDE DEF f
<1> QED
  BY <1>1, <1>2 DEF Blocks, IsWaived, Excepted

\* In particular one of the attack surface: no critical one passes.
LEMMA SurfaceIsWaived ==
    ASSUME NEW b \in Baselines, GatePasses(b), NEW i, NEW title
    PROVE  /\ RuleFinding(i, title, "critical") \notin AttackSurface(ir)
           /\ RuleFinding(i, title, "high") \in AttackSurface(ir) /\ b.fail_on # "critical" =>
                 b.allow_exceptions /\ Excepted(ir.policies[i], title)
<1>1. b.fail_on \in Severities
  BY BaselinesAssumption
<1>2. /\ SEVERITY_RANK["critical"] >= SEVERITY_RANK[b.fail_on]
      /\ b.fail_on # "critical" => SEVERITY_RANK["high"] >= SEVERITY_RANK[b.fail_on]
  BY <1>1 DEF Severities, SEVERITY_RANK
<1>3. AttackSurface(ir) \subseteq AnalysisFindings
  BY DEF AnalysisFindings
<1> QED
  BY <1>2, <1>3, FindingIsWaived

-----------------------------------------------------------------------------
(* What is checked of the text.                                            *)

\* The values of all names.
AllValues(p) == UNION {p.addresses[n] : n \in DOMAIN p.addresses}

\* The rules that a target writes.
IsWritten(t, rule) == rule.enabled /\ (t \in AllowOnly => rule.action = "allow")

\* What a text has to show of the i-th rule: its ends, and the ports of its
\* services.
Shows(t, p, i, ends, specs) ==
    /\ Sides(t, p, p.policies[i]) \ {any} \subseteq ends
    /\ \A s \in ServiceValues(p, p.policies[i].services) :
          s.protocol \in {"tcp", "udp"} /\ NamesPorts(s) => s.ports \in specs

\* A text that shows every rule and nothing else is found to do so.
LEMMA ShownIsIntended ==
    ASSUME NEW p, IsPolicy(p), NEW t, NEW c,
           WrittenEnds(t, c) \subseteq AllValues(p) \cup {any, V4},
           NEW specs, \A ports \in specs : Ends(ports) \subseteq Numbers(t, c),
           \A i \in 1..Len(p.policies) :
               IsWritten(t, p.policies[i]) => Shows(t, p, i, WrittenEnds(t, c), specs),
           Verifiable(t, p)
    PROVE  Intent(t, p, c)
<1>1. Tokens(WrittenEnds(t, c)) \subseteq Known(p)
  <2> SUFFICES ASSUME NEW v \in WrittenEnds(t, c) \cap (Networks \cup {V4})
               PROVE  Token(v) \in Known(p)
    BY DEF Tokens
  <2>1. CASE v = V4
    BY <2>1 DEF Token, Known
  <2>2. CASE v # V4
    <3>1. v \in Networks /\ v # any
      BY <2>2, ValuesAssumption
    <3>2. v \in NetworksOf(p)
      BY <2>2, <3>1 DEF NetworksOf, AllValues
    <3> QED
      BY <3>2 DEF Known, Tokens, NetworksOf
  <2> QED
    BY <2>1, <2>2
<1>2. Present(t, p, c) \subseteq Known(p)
  BY <1>1 DEF Present, Verifiable
<1>3. \A rule : rule \in Range(p.policies) <=> \E i \in 1..Len(p.policies) : rule = p.policies[i]
  BY DEF IsPolicy, Range
<1>4. ASSUME NEW i \in 1..Len(p.policies), IsWritten(t, p.policies[i])
      PROVE  /\ Tokens(Sides(t, p, p.policies[i])) \subseteq Present(t, p, c)
             /\ \A s \in ServiceValues(p, p.policies[i].services) :
                   s.ports # AllPorts => Ends(s.ports) \subseteq Numbers(t, c)
  <2>1. Shows(t, p, i, WrittenEnds(t, c), specs)
    BY <1>4
  <2>2. any \notin Networks \cup {V4}
    BY ValuesAssumption
  <2>3. Tokens(Sides(t, p, p.policies[i])) \subseteq Tokens(WrittenEnds(t, c))
    BY <2>1, <2>2 DEF Shows, Tokens
  <2>4. Tokens(Sides(t, p, p.policies[i])) \cap Unfound = {}
    BY <1>4, <1>3 DEF Verifiable, Needed, IsWritten, Range
  <2>5. ASSUME NEW s \in ServiceValues(p, p.policies[i].services), s.ports # AllPorts
        PROVE  Ends(s.ports) \subseteq Numbers(t, c)
    <3>1. s \in Service
      BY ServicesOfRule
    <3>2. CASE s.ports = {}
      BY <3>2 DEF Ends
    <3>3. CASE s.ports # {}
      <4>1. s.protocol \in {"tcp", "udp"} /\ NamesPorts(s)
        BY <2>5, <3>1, <3>3 DEF Service, NamesPorts
      <4> QED
        BY <2>1, <4>1 DEF Shows
    <3> QED
      BY <3>2, <3>3
  <2> QED
    BY <2>3, <2>4, <2>5 DEF Present
<1> QED
  BY <1>2, <1>4, <1>3 DEF Intent, Needed, IsWritten

\* The values of a rule are among all values, and there are some.
LEMMA RuleHasValues ==
    ASSUME NEW p, IsPolicy(p), NEW i \in 1..Len(p.policies)
    PROVE  LET rule == p.policies[i] IN
           /\ AddressValues(p, rule.source) \subseteq AllValues(p)
           /\ AddressValues(p, rule.destination) \subseteq AllValues(p)
           /\ AddressValues(p, rule.source) # {} /\ AddressValues(p, rule.destination) # {}
           /\ ServiceValues(p, rule.services) # {}
<1> DEFINE rule == p.policies[i]
<1>1. /\ Range(rule.source) \subseteq DOMAIN p.addresses /\ Range(rule.source) # {}
      /\ Range(rule.destination) \subseteq DOMAIN p.addresses /\ Range(rule.destination) # {}
      /\ Range(rule.services) # {}
  BY DEF IsPolicy
<1>2. \A n \in DOMAIN p.addresses : p.addresses[n] # {}
  BY DEF IsPolicy
<1>3. ASSUME NEW list, Range(list) \subseteq DOMAIN p.addresses, Range(list) # {}
      PROVE  AddressValues(p, list) \subseteq AllValues(p) /\ AddressValues(p, list) # {}
  BY <1>2, <1>3 DEF AddressValues, AllValues
<1>4. ServiceValues(p, rule.services) # {}
  BY <1>1 DEF ServiceValues
<1> QED
  BY <1>1, <1>3, <1>4

\* The lines of a rule have its ends and ports, and nothing else.
LinesShow(t, p, i) ==
    LET rule == p.policies[i]
        lines == Lines(t, p, rule)
    IN  /\ \A line \in lines : line.src \cup line.dst \subseteq AllValues(p) \cup {any, V4}
        /\ IsWritten(t, rule) =>
              Shows(t, p, i, UNION {line.src \cup line.dst : line \in lines},
                    {line.ports : line \in lines})

\* A line of a source, a destination and a service.
IsLineOf(x, s, d, v) ==
    x.src = {s} /\ x.dst = {d} /\ x.ports = IF NamesPorts(v) THEN v.ports ELSE {}

\* A rule that is written with a line for each combination of its values.
LEMMA CombinationsShow ==
    ASSUME NEW p, IsPolicy(p), NEW i \in 1..Len(p.policies), NEW t, t \notin AllowOnly,
           LET rule == p.policies[i]
               sources == AddressValues(p, rule.source)
               destinations == AddressValues(p, rule.destination)
               services == ServiceValues(p, rule.services)
               lines == Lines(t, p, rule)
           IN  /\ \A x \in lines :
                     \E s \in sources, d \in destinations, v \in services : IsLineOf(x, s, d, v)
               /\ rule.enabled =>
                     \A s \in sources, d \in destinations, v \in services :
                        \E x \in lines : IsLineOf(x, s, d, v)
    PROVE  LinesShow(t, p, i)
<1> DEFINE rule == p.policies[i]
           sources == AddressValues(p, rule.source)
           destinations == AddressValues(p, rule.destination)
           services == ServiceValues(p, rule.services)
           lines == Lines(t, p, rule)
           ends == UNION {x.src \cup x.dst : x \in lines}
<1>1. /\ \A x \in lines :
            \E s \in sources, d \in destinations, v \in services : IsLineOf(x, s, d, v)
      /\ rule.enabled =>
            \A s \in sources, d \in destinations, v \in services :
               \E x \in lines : IsLineOf(x, s, d, v)
  OBVIOUS
<1>2. /\ sources \subseteq AllValues(p) /\ destinations \subseteq AllValues(p)
      /\ sources # {} /\ destinations # {} /\ services # {}
  BY RuleHasValues
<1>3. Sides(t, p, rule) = sources \cup destinations
  BY DEF Sides
<1> HIDE DEF sources, destinations, services, lines
<1>4. ASSUME NEW x \in lines PROVE x.src \cup x.dst \subseteq AllValues(p) \cup {any, V4}
  BY <1>1, <1>2 DEF IsLineOf
<1>5. ASSUME rule.enabled PROVE sources \cup destinations \subseteq ends
  <2>1. ASSUME NEW s \in sources, NEW d \in destinations PROVE {s, d} \subseteq ends
    <3>1. PICK v \in services : TRUE
      BY <1>2
    <3>2. PICK x \in lines : IsLineOf(x, s, d, v)
      BY <1>1, <1>5
    <3> QED
      BY <3>2 DEF IsLineOf
  <2> QED
    BY <1>2, <2>1
<1>6. ASSUME rule.enabled, NEW v \in services, NamesPorts(v)
      PROVE  v.ports \in {x.ports : x \in lines}
  <2>1. PICK s \in sources, d \in destinations : TRUE
    BY <1>2
  <2>2. PICK x \in lines : IsLineOf(x, s, d, v)
    BY <1>1, <1>6
  <2> QED
    BY <1>6, <2>2 DEF IsLineOf
<1> QED
  BY <1>3, <1>4, <1>5, <1>6 DEF LinesShow, Shows, IsWritten, lines, services

LEMMA FirstMatchLinesShow ==
    ASSUME NEW p, IsPolicy(p), NEW i \in 1..Len(p.policies)
    PROVE  LinesShow("iptables", p, i) /\ LinesShow("nftables", p, i) /\ LinesShow("ciscoasa", p, i)
<1> DEFINE rule == p.policies[i]
           sources == AddressValues(p, rule.source)
           destinations == AddressValues(p, rule.destination)
           services == ServiceValues(p, rule.services)
<1>1. rule.enabled \in BOOLEAN
  BY DEF IsPolicy
<1>2. LinesShow("iptables", p, i)
  <2>1. Lines("iptables", p, rule) =
           IF rule.enabled
           THEN {Iptables(s, d, v) : s \in sources, d \in destinations, v \in services} ELSE {}
    BY <1>1 DEF Lines, AllowOnly
  <2>2. \A s, d, v : IsLineOf(Iptables(s, d, v), s, d, v)
    BY DEF IsLineOf, Iptables
  <2> HIDE DEF sources, destinations, services
  <2>3. \A x \in Lines("iptables", p, rule) :
            \E s \in sources, d \in destinations, v \in services : IsLineOf(x, s, d, v)
    BY <2>1, <2>2
  <2>4. rule.enabled =>
            \A s \in sources, d \in destinations, v \in services :
               \E x \in Lines("iptables", p, rule) : IsLineOf(x, s, d, v)
    BY <2>1, <2>2
  <2> QED
    BY <2>3, <2>4, CombinationsShow DEF AllowOnly, sources, destinations, services
<1>3. LinesShow("nftables", p, i)
  <2>1. Lines("nftables", p, rule) =
           IF rule.enabled
           THEN {Nftables(s, d, v) : s \in sources, d \in destinations, v \in services} ELSE {}
    BY <1>1 DEF Lines, AllowOnly
  <2>2. \A s, d, v : IsLineOf(Nftables(s, d, v), s, d, v)
    BY DEF IsLineOf, Nftables
  <2> HIDE DEF sources, destinations, services
  <2>3. \A x \in Lines("nftables", p, rule) :
            \E s \in sources, d \in destinations, v \in services : IsLineOf(x, s, d, v)
    BY <2>1, <2>2
  <2>4. rule.enabled =>
            \A s \in sources, d \in destinations, v \in services :
               \E x \in Lines("nftables", p, rule) : IsLineOf(x, s, d, v)
    BY <2>1, <2>2
  <2> QED
    BY <2>3, <2>4, CombinationsShow DEF AllowOnly, sources, destinations, services
<1>4. LinesShow("ciscoasa", p, i)
  <2>1. Lines("ciscoasa", p, rule) =
           IF rule.enabled
           THEN {CiscoAsa(s, d, v) : s \in sources, d \in destinations, v \in services} ELSE {}
    BY <1>1 DEF Lines, AllowOnly
  <2>2. \A s, d, v : IsLineOf(CiscoAsa(s, d, v), s, d, v)
    BY DEF IsLineOf, CiscoAsa
  <2> HIDE DEF sources, destinations, services
  <2>3. \A x \in Lines("ciscoasa", p, rule) :
            \E s \in sources, d \in destinations, v \in services : IsLineOf(x, s, d, v)
    BY <2>1, <2>2
  <2>4. rule.enabled =>
            \A s \in sources, d \in destinations, v \in services :
               \E x \in Lines("ciscoasa", p, rule) : IsLineOf(x, s, d, v)
    BY <2>1, <2>2
  <2> QED
    BY <2>3, <2>4, CombinationsShow DEF AllowOnly, sources, destinations, services
<1> QED
  BY <1>2, <1>3, <1>4

\* A rule that is written with all its ends in every line.
LEMMA AzureLinesShow ==
    ASSUME NEW p, IsPolicy(p), NEW i \in 1..Len(p.policies)
    PROVE  LinesShow("azure-nsg", p, i)
<1> DEFINE rule == p.policies[i]
           sources == AddressValues(p, rule.source)
           destinations == AddressValues(p, rule.destination)
           services == ServiceValues(p, rule.services)
           lines == Lines("azure-nsg", p, rule)
<1>1. lines = IF rule.enabled THEN {Azure(sources, destinations, v) : v \in services} ELSE {}
  <2>1. rule.enabled \in BOOLEAN
    BY DEF IsPolicy
  <2> QED
    BY <2>1 DEF Lines, AllowOnly
<1>2. /\ sources \subseteq AllValues(p) /\ destinations \subseteq AllValues(p)
      /\ sources # {} /\ destinations # {} /\ services # {}
  BY RuleHasValues
<1>3. Sides("azure-nsg", p, rule) = sources \cup destinations
  BY DEF Sides, AllowOnly
<1>4. \A v : LET x == Azure(sources, destinations, v) IN
          /\ x.src = sources /\ x.dst = destinations
          /\ x.ports = IF NamesPorts(v) THEN v.ports ELSE {}
  BY DEF Azure
<1> HIDE DEF sources, destinations, services, lines
<1>5. \A x \in lines : x.src \cup x.dst \subseteq AllValues(p) \cup {any, V4}
  BY <1>1, <1>2, <1>4
<1>6. ASSUME rule.enabled, NEW v \in services
      PROVE  /\ sources \cup destinations \subseteq UNION {x.src \cup x.dst : x \in lines}
             /\ NamesPorts(v) => v.ports \in {x.ports : x \in lines}
  <2> DEFINE x == Azure(sources, destinations, v)
  <2>1. x \in lines
    BY <1>1, <1>6
  <2>2. x.src = sources /\ x.dst = destinations
    BY <1>4
  <2>3. x.ports = IF NamesPorts(v) THEN v.ports ELSE {}
    BY <1>4
  <2> HIDE DEF x
  <2> QED
    BY <2>1, <2>2, <2>3
<1>7. rule.enabled => sources \cup destinations \subseteq UNION {x.src \cup x.dst : x \in lines}
  BY <1>2, <1>6
<1> QED
  BY <1>3, <1>5, <1>6, <1>7 DEF LinesShow, Shows, IsWritten, AllowOnly, lines, services

\* Targets that attach rules to the destination write sources only.
LEMMA SourcesShow ==
    ASSUME NEW p, IsPolicy(p), NEW i \in 1..Len(p.policies), NEW t \in AllowOnly,
           LET rule == p.policies[i]
               sources == AddressValues(p, rule.source)
               services == ServiceValues(p, rule.services)
               lines == Lines(t, p, rule)
           IN  /\ \A x \in lines : x.src = Sources(sources) /\ x.dst = {any}
               /\ IsWritten(t, rule) =>
                     /\ lines # {}
                     /\ \A v \in services :
                           v.protocol \in {"tcp", "udp"} /\ NamesPorts(v) =>
                              \E x \in lines : x.ports = v.ports
    PROVE  LinesShow(t, p, i)
<1> DEFINE rule == p.policies[i]
           sources == AddressValues(p, rule.source)
           services == ServiceValues(p, rule.services)
           lines == Lines(t, p, rule)
           ends == UNION {x.src \cup x.dst : x \in lines}
<1>1. /\ \A x \in lines : x.src = Sources(sources) /\ x.dst = {any}
      /\ IsWritten(t, rule) =>
            /\ lines # {}
            /\ \A v \in services :
                  v.protocol \in {"tcp", "udp"} /\ NamesPorts(v) =>
                     \E x \in lines : x.ports = v.ports
  OBVIOUS
<1>2. sources \subseteq AllValues(p)
  BY RuleHasValues
<1>3. Sides(t, p, rule) = sources
  BY DEF Sides
<1> HIDE DEF sources, services, lines
<1>4. Sources(sources) \subseteq AllValues(p) \cup {V4} /\ sources \ {any} \subseteq Sources(sources)
  BY <1>2 DEF Sources
<1>5. \A x \in lines : x.src \cup x.dst \subseteq AllValues(p) \cup {any, V4}
  BY <1>1, <1>4
<1>6. IsWritten(t, rule) => sources \ {any} \subseteq ends
  BY <1>1, <1>4
<1>7. IsWritten(t, rule) =>
        \A v \in services : v.protocol \in {"tcp", "udp"} /\ NamesPorts(v) =>
                               v.ports \in {x.ports : x \in lines}
  BY <1>1
<1> QED
  BY <1>3, <1>5, <1>6, <1>7 DEF LinesShow, Shows, lines, services

LEMMA AllowOnlyLinesShow ==
    ASSUME NEW p, IsPolicy(p), NEW i \in 1..Len(p.policies)
    PROVE  LinesShow("aws-sg", p, i) /\ LinesShow("kubernetes", p, i)
<1> DEFINE rule == p.policies[i]
           sources == AddressValues(p, rule.source)
           services == ServiceValues(p, rule.services)
           written == rule.enabled /\ rule.action = "allow"
<1>1. rule.enabled \in BOOLEAN
  BY DEF IsPolicy
<1>2. services # {}
  BY RuleHasValues
<1>3. LinesShow("aws-sg", p, i)
  <2>1. Lines("aws-sg", p, rule) =
           IF written THEN {AwsSg(sources, v) : v \in services} ELSE {}
    BY <1>1 DEF Lines, AllowOnly
  <2>2. \A v : LET x == AwsSg(sources, v) IN
           /\ x.src = Sources(sources) /\ x.dst = {any}
           /\ x.ports = IF NamesPorts(v) THEN v.ports ELSE {}
    BY DEF AwsSg
  <2>3. IsWritten("aws-sg", rule) <=> written
    BY DEF IsWritten, AllowOnly
  <2> HIDE DEF sources, services
  <2>4. \A x \in Lines("aws-sg", p, rule) : x.src = Sources(sources) /\ x.dst = {any}
    BY <2>1, <2>2
  <2>5. ASSUME written
        PROVE  /\ Lines("aws-sg", p, rule) # {}
               /\ \A v \in services : NamesPorts(v) =>
                     \E x \in Lines("aws-sg", p, rule) : x.ports = v.ports
    <3>1. \A v \in services : AwsSg(sources, v) \in Lines("aws-sg", p, rule)
      BY <2>1, <2>5
    <3> QED
      BY <1>2, <2>2, <3>1
  <2> QED
    BY <2>3, <2>4, <2>5, SourcesShow DEF AllowOnly, sources, services
<1>4. LinesShow("kubernetes", p, i)
  <2> DEFINE named == KubernetesPorts(services)
             lines == Lines("kubernetes", p, rule)
  <2>1. lines = IF written THEN Kubernetes(sources, services) ELSE {}
    BY <1>1 DEF Lines, AllowOnly
  <2>2. IsWritten("kubernetes", rule) <=> written
    BY DEF IsWritten, AllowOnly
  <2>3. \A v \in services : v.protocol \in {"tcp", "udp"} /\ NamesPorts(v) => v \in named
    BY DEF KubernetesPorts
  <2> HIDE DEF sources, services, named, lines
  <2> DEFINE entry(protocol, ports) == [protocol |-> protocol, ports |-> ports,
                                        src |-> Sources(sources), dst |-> {any},
                                        versions |-> {4, 6}]
  <2>4. Kubernetes(sources, services) =
           IF named = {} THEN {entry("any", {})} ELSE {entry(s.protocol, s.ports) : s \in named}
    BY DEF Kubernetes, named
  <2>5. \A protocol, ports :
           /\ entry(protocol, ports).src = Sources(sources) /\ entry(protocol, ports).dst = {any}
           /\ entry(protocol, ports).ports = ports
    OBVIOUS
  <2> HIDE DEF entry
  <2>6. \A x \in lines : x.src = Sources(sources) /\ x.dst = {any}
    BY <2>1, <2>4, <2>5
  <2>7. ASSUME written
        PROVE  lines # {} /\ \A v \in named : \E x \in lines : x.ports = v.ports
    <3>1. CASE named = {}
      BY <2>1, <2>4, <2>7, <3>1
    <3>2. CASE named # {}
      <4>1. \A v \in named : entry(v.protocol, v.ports) \in lines
        BY <2>1, <2>4, <2>7, <3>2
      <4> QED
        BY <2>5, <3>2, <4>1
    <3> QED
      BY <3>1, <3>2
  <2> QED
    BY <2>2, <2>3, <2>6, <2>7, SourcesShow DEF AllowOnly, sources, services, lines
<1> QED
  BY <1>3, <1>4

\* So a target of lines shows the policy.
LEMMA LinesAreIntended ==
    ASSUME NEW p, IsPolicy(p), NEW t \in LineTargets, Verifiable(t, p)
    PROVE  Intent(t, p, Export(t, p))
<1> DEFINE c == Export(t, p)
           L(i) == Lines(t, p, p.policies[i])
           texts == UNION {part.lines : part \in Range(c)}
           ends == UNION {x.src \cup x.dst : x \in texts}
           specs == {x.ports : x \in texts}
<1>1. \A i \in 1..Len(p.policies) : LinesShow(t, p, i)
  BY FirstMatchLinesShow, AzureLinesShow, AllowOnlyLinesShow DEF LineTargets, FirstMatch, AllowOnly
<1>2. \A x : x \in texts <=> \E i \in 1..Len(p.policies) : x \in L(i)
  <2>1. DOMAIN c = 1..Len(p.policies) /\ \A i \in 1..Len(p.policies) : c[i].lines = L(i)
    BY DEF Export
  <2> HIDE DEF c, L
  <2> QED
    BY <2>1 DEF Range
<1>3. WrittenEnds(t, c) = ends /\ \A ports \in specs : Ends(ports) \subseteq Numbers(t, c)
  <2>1. t \notin ObjectTargets
    BY DEF LineTargets, FirstMatch, AllowOnly, ObjectTargets
  <2>2. WrittenEnds(t, c) = ends
    BY <2>1 DEF WrittenEnds
  <2>3. Numbers(t, c) = UNION {Ends(x.ports) : x \in texts}
    BY <2>1 DEF Numbers
  <2> HIDE DEF texts, c
  <2> QED
    BY <2>2, <2>3
<1> HIDE DEF c, texts
<1>4. WrittenEnds(t, c) \subseteq AllValues(p) \cup {any, V4}
  <2> SUFFICES ASSUME NEW x \in texts PROVE x.src \cup x.dst \subseteq AllValues(p) \cup {any, V4}
    BY <1>3
  <2>1. PICK i \in 1..Len(p.policies) : x \in L(i)
    BY <1>2
  <2> QED
    BY <1>1, <2>1 DEF LinesShow
<1>5. ASSUME NEW i \in 1..Len(p.policies), IsWritten(t, p.policies[i])
      PROVE  Shows(t, p, i, WrittenEnds(t, c), specs)
  <2> DEFINE lines == L(i)
             own == UNION {x.src \cup x.dst : x \in lines}
             ports == {x.ports : x \in lines}
  <2>1. Shows(t, p, i, own, ports)
    BY <1>1, <1>5 DEF LinesShow
  <2>2. lines \subseteq texts
    BY <1>2
  <2> HIDE DEF lines
  <2>3. own \subseteq ends /\ ports \subseteq specs
    BY <2>2
  <2> HIDE DEF own, ports, ends, specs
  <2> QED
    BY <1>3, <2>1, <2>3 DEF Shows
<1>6. Intent(t, p, c)
  <2> HIDE DEF specs
  <2> QED
    BY <1>3, <1>4, <1>5, ShownIsIntended
<1> QED
  BY <1>6 DEF c

\* The values of a name that is an object or a group are written, but "any".
LEMMA ObjectsShow ==
    ASSUME NEW p, IsPolicy(p)
    PROVE  LET ends == {o.value : o \in AddressObjects(p)} IN
           /\ ends \subseteq AllValues(p) \cup {any}
           /\ \A n \in Referenced(p) : p.addresses[n] \ {any} \subseteq ends
<1> DEFINE ends == {o.value : o \in AddressObjects(p)}
<1>1. Referenced(p) \subseteq DOMAIN p.addresses
  BY ReferencedNames
<1>2. \A n \in DOMAIN p.addresses : \A i \in DOMAIN ValueList(p, n) :
          ValueList(p, n)[i] \in p.addresses[n] \cup {any}
  <2> SUFFICES ASSUME NEW n \in DOMAIN p.addresses, NEW i \in DOMAIN ValueList(p, n)
               PROVE  ValueList(p, n)[i] \in p.addresses[n] \cup {any}
    OBVIOUS
  <2>1. ValueList(p, n)[i] \in Range(ValueList(p, n))
    BY DEF Range
  <2> QED
    BY <2>1, ListOfValues
<1>3. \A n \in DOMAIN p.addresses : 1 \in DOMAIN ValueList(p, n)
  BY ListOfValues
<1>4. ASSUME NEW o \in AddressObjects(p) PROVE o.value \in AllValues(p) \cup {any}
  <2>1. \E n \in Referenced(p) : \E i \in DOMAIN ValueList(p, n) : o.value = ValueList(p, n)[i]
    BY <1>1, <1>3, ObjectIs DEF Several
  <2> QED
    BY <1>1, <1>2, <2>1 DEF AllValues
<1>5. ASSUME NEW n \in Referenced(p), NEW v \in p.addresses[n], v # any PROVE v \in ends
  <2>1. CASE n \in Several(p)
    <3>1. v \in Range(ValueList(p, n))
      BY <1>1, ListOfValues
    <3>2. PICK i \in DOMAIN ValueList(p, n) : v = ValueList(p, n)[i]
      BY <3>1 DEF Range
    <3>3. [name |-> MemberName(n, i), value |-> ValueList(p, n)[i], own |-> FALSE]
             \in AddressObjects(p)
      BY <2>1, MemberIsObject
    <3> QED
      BY <3>2, <3>3
  <2>2. CASE n \notin Several(p)
    <3>1. Len(ValueList(p, n)) \in Nat
      BY <1>1, ListOfValues
    <3>2. Len(ValueList(p, n)) <= 1
      BY <2>2, <3>1 DEF Several
    <3>3. p.addresses[n] = {ValueList(p, n)[1]} /\ (IsAny(p, n) <=> p.addresses[n] = {any})
      BY <1>1, <3>2, OneValue
    <3>4. v = ValueList(p, n)[1] /\ ~IsAny(p, n)
      BY <1>5, <3>3
    <3>5. [name |-> n, value |-> ValueList(p, n)[1], own |-> TRUE] \in AddressObjects(p)
      BY <2>2, <3>4, SingleIsObject
    <3> QED
      BY <3>4, <3>5
  <2> QED
    BY <2>1, <2>2
<1> QED
  BY <1>4, <1>5

\* A configuration that has the values of all names in rules, and all services
\* with ports, shows the policy.
LEMMA DefinitionsAreIntended ==
    ASSUME NEW p, IsPolicy(p), NEW t \in ObjectTargets, Verifiable(t, p), NEW c,
           LET ends == {o.value : o \in c.objects} IN
           /\ ends \subseteq AllValues(p) \cup {any}
           /\ \A n \in Referenced(p) : p.addresses[n] \ {any} \subseteq ends,
           NEW defined, defined \subseteq DOMAIN p.services,
           \A s \in DOMAIN p.services :
               p.services[s].protocol \in {"tcp", "udp"} /\ NamesPorts(p.services[s])
                   => s \in defined,
           c.services = Restrict(p.services, defined)
    PROVE  Intent(t, p, c)
<1> DEFINE ends == {o.value : o \in c.objects}
           specs == {s.ports : s \in Range(c.services)}
<1>1. WrittenEnds(t, c) = ends /\ \A ports \in specs : Ends(ports) \subseteq Numbers(t, c)
  BY DEF WrittenEnds, Numbers
<1>2. \A s \in defined : p.services[s].ports \in specs
  <2>1. DOMAIN c.services = defined /\ \A s \in defined : c.services[s] = p.services[s]
    BY DEF Restrict
  <2> QED
    BY <2>1 DEF Range
<1>3. t \notin AllowOnly
  BY DEF ObjectTargets, AllowOnly
<1> HIDE DEF ends, specs
<1>4. WrittenEnds(t, c) \subseteq AllValues(p) \cup {any, V4}
  BY <1>1 DEF ends
<1>5. ASSUME NEW i \in 1..Len(p.policies)
      PROVE  Shows(t, p, i, WrittenEnds(t, c), specs)
  <2> DEFINE rule == p.policies[i]
  <2>1. Range(rule.source) \cup Range(rule.destination) \subseteq Referenced(p)
    BY ReferencedNames
  <2>2. \A n \in Referenced(p) : p.addresses[n] \ {any} \subseteq ends
    BY DEF ends
  <2>3. Sides(t, p, rule) \ {any} \subseteq ends
    BY <1>3, <2>1, <2>2 DEF Sides, AddressValues
  <2>4. Range(rule.services) \subseteq DOMAIN p.services
    BY DEF IsPolicy
  <2>5. ASSUME NEW s \in ServiceValues(p, rule.services),
               s.protocol \in {"tcp", "udp"}, NamesPorts(s)
        PROVE  s.ports \in specs
    <3>1. PICK n \in DOMAIN p.services : s = p.services[n]
      BY <2>4 DEF ServiceValues
    <3> QED
      BY <1>2, <2>5, <3>1
  <2> QED
    BY <1>1, <2>3, <2>5 DEF Shows
<1> QED
  BY <1>1, <1>4, <1>5, ShownIsIntended

\* Check Point lists every name.
LEMMA ListsShow ==
    ASSUME NEW p, IsPolicy(p)
    PROVE  LET ends == {o.value : o \in CheckPoint(p).objects} IN
           /\ ends \subseteq AllValues(p)
           /\ \A n \in DOMAIN p.addresses : p.addresses[n] \ {any} \subseteq ends
<1> DEFINE listed == {n \in DOMAIN p.addresses : ~IsAny(p, n)}
           list(n) == {[name |-> n, value |-> v, own |-> TRUE] : v \in p.addresses[n]}
           objects == CheckPoint(p).objects
           ends == {o.value : o \in objects}
<1>1. objects = UNION {list(n) : n \in listed}
  BY DEF CheckPoint
<1>2. \A n : \A o \in list(n) : o.value \in p.addresses[n]
  OBVIOUS
<1>3. \A n : \A v \in p.addresses[n] : \E o \in list(n) : o.value = v
  <2> SUFFICES ASSUME NEW n, NEW v \in p.addresses[n] PROVE \E o \in list(n) : o.value = v
    OBVIOUS
  <2> DEFINE o == [name |-> n, value |-> v, own |-> TRUE]
  <2>1. o \in list(n) /\ o.value = v
    OBVIOUS
  <2> QED
    BY <2>1
<1>4. \A n \in DOMAIN p.addresses : p.addresses[n] \ {any} # {} => n \in listed
  BY AnyIsOne
<1> HIDE DEF list, objects
<1>5. \A o \in objects : o.value \in AllValues(p)
  BY <1>1, <1>2 DEF AllValues
<1>6. ASSUME NEW n \in DOMAIN p.addresses, NEW v \in p.addresses[n] \ {any} PROVE v \in ends
  <2>1. list(n) \subseteq objects
    BY <1>1, <1>4
  <2>2. PICK o \in list(n) : o.value = v
    BY <1>3
  <2> QED
    BY <2>1, <2>2
<1> QED
  BY <1>5, <1>6 DEF objects

LEMMA ObjectTargetsAreIntended ==
    ASSUME NEW p, IsPolicy(p), NEW t \in ObjectTargets, Verifiable(t, p)
    PROVE  Intent(t, p, Render(t, p))
<1>1. Referenced(p) \subseteq DOMAIN p.addresses
  BY ReferencedNames
<1>2. CASE t = "paloalto"
  <2> DEFINE c == PaloAlto(p)
             defined == {s \in DOMAIN p.services :
                           p.services[s].protocol \in {"tcp", "udp"} /\ NamesPorts(p.services[s])}
  <2>1. Render(t, p) = c
    BY <1>2 DEF Render, LineTargets, FirstMatch, AllowOnly
  <2>2. c.objects = AddressObjects(p) /\ c.services = Restrict(p.services, defined)
    BY DEF PaloAlto
  <2> HIDE DEF c
  <2>3. Intent(t, p, c)
    BY <2>2, ObjectsShow, DefinitionsAreIntended
  <2> QED
    BY <2>1, <2>3
<1>3. CASE t = "fortigate"
  <2> DEFINE c == FortiGate(p)
             defined == {s \in DOMAIN p.services : p.services[s].protocol # "any"}
  <2>1. Render(t, p) = c
    BY <1>3 DEF Render, LineTargets, FirstMatch, AllowOnly
  <2>2. c.objects = AddressObjects(p) /\ c.services = Restrict(p.services, defined)
    BY DEF FortiGate
  <2>3. LET ends == {o.value : o \in c.objects} IN
        /\ ends \subseteq AllValues(p) \cup {any}
        /\ \A n \in Referenced(p) : p.addresses[n] \ {any} \subseteq ends
    BY <2>2, ObjectsShow
  <2>4. /\ defined \subseteq DOMAIN p.services
        /\ \A s \in DOMAIN p.services :
               p.services[s].protocol \in {"tcp", "udp"} /\ NamesPorts(p.services[s])
                   => s \in defined
    OBVIOUS
  <2> HIDE DEF c, defined
  <2>5. Intent(t, p, c)
    BY <2>2, <2>3, <2>4, DefinitionsAreIntended
  <2> QED
    BY <2>1, <2>5
<1>4. CASE t = "checkpoint"
  <2> DEFINE c == CheckPoint(p)
             defined == {s \in DOMAIN p.services : p.services[s].protocol # "any"}
  <2>1. Render(t, p) = c
    BY <1>4 DEF Render, LineTargets, FirstMatch, AllowOnly
  <2>2. c.services = Restrict(p.services, defined)
    BY DEF CheckPoint
  <2>3. LET ends == {o.value : o \in c.objects} IN
        /\ ends \subseteq AllValues(p) \cup {any}
        /\ \A n \in Referenced(p) : p.addresses[n] \ {any} \subseteq ends
    BY <1>1, ListsShow
  <2>4. /\ defined \subseteq DOMAIN p.services
        /\ \A s \in DOMAIN p.services :
               p.services[s].protocol \in {"tcp", "udp"} /\ NamesPorts(p.services[s])
                   => s \in defined
    OBVIOUS
  <2> HIDE DEF c, defined
  <2>5. Intent(t, p, c)
    BY <2>2, <2>3, <2>4, DefinitionsAreIntended
  <2> QED
    BY <2>1, <2>5
<1> QED
  BY <1>2, <1>3, <1>4 DEF ObjectTargets

\* Every name is defined, and once, in what is written for Check Point.
LEMMA CheckPointIsWellFormed ==
    ASSUME NEW p, IsPolicy(p), KeepsClear(p), Verifiable("checkpoint", p)
    PROVE  WellFormed("checkpoint", CheckPoint(p))
<1> DEFINE c == CheckPoint(p)
           listed == {n \in DOMAIN p.addresses : ~IsAny(p, n)}
           defined == {s \in DOMAIN p.services : p.services[s].protocol # "any"}
           address == [n \in DOMAIN p.addresses |-> IF any \in p.addresses[n] THEN AnyWord ELSE n]
           service == [s \in DOMAIN p.services |->
                          IF p.services[s].protocol = "any" THEN AnyWord ELSE s]
           members == ServiceMembers(c)
<1>1. c.services = Restrict(p.services, defined) /\ c.rules = NamedRules(p, address, service)
  BY DEF CheckPoint
<1>2. DOMAIN c.services = defined /\ \A s \in defined : c.services[s] = p.services[s]
  <2>1. \A s \in defined : Restrict(p.services, defined)[s] = p.services[s]
    BY DEF Restrict
  <2>2. DOMAIN Restrict(p.services, defined) = defined
    BY DEF Restrict
  <2> QED
    BY <1>1, <2>1, <2>2
<1>3. listed \subseteq Defined(c)
  <2> DEFINE list(n) == {[name |-> n, value |-> v, own |-> TRUE] : v \in p.addresses[n]}
  <2>1. c.objects = UNION {list(n) : n \in listed}
    BY DEF CheckPoint
  <2> HIDE DEF c
  <2> SUFFICES ASSUME NEW n \in listed PROVE \E o \in c.objects : o.name = n
    BY DEF Defined
  <2>2. PICK v \in p.addresses[n] : TRUE
    BY DEF IsPolicy
  <2> DEFINE o == [name |-> n, value |-> v, own |-> TRUE]
  <2>3. o \in list(n) /\ o.name = n
    OBVIOUS
  <2> HIDE DEF list, o
  <2>4. o \in c.objects
    BY <2>1, <2>3
  <2> QED
    BY <2>3, <2>4
<1> HIDE DEF c
<1>4. ASSUME NEW key \in members
      PROVE  /\ key[1] \in DOMAIN p.services /\ key[2] \in 1..MaxPort /\ key = <<key[1], key[2]>>
             /\ RangeCount(p.services[key[1]].ports) > 1
  <2>1. /\ key \in defined \X (1..MaxPort)
        /\ RangeCount(c.services[key[1]].ports) > 1
    BY <1>2, <1>4 DEF ServiceMembers
  <2> QED
    BY <1>2, <2>1
<1>5. ASSUME NEW key \in members PROVE MemberName(key[1], key[2]) \notin DOMAIN c.services
  <2>1. MemberName(key[1], key[2]) \notin DOMAIN p.services
    BY <1>4 DEF Verifiable
  <2> QED
    BY <1>2, <2>1
<1>6. ASSUME NEW key \in members, NEW other \in members,
             MemberName(key[1], key[2]) = MemberName(other[1], other[2])
      PROVE  key = other
  <2>1. \A k \in members : k[1] \in OwnNames(p) /\ k[2] \in Nat
    BY <1>4, MaxPortAssumption DEF OwnNames
  <2>2. any \in OwnNames(p)
    BY DEF OwnNames, IsPolicy
  <2>3. key[1] = other[1] /\ key[2] = other[2]
    BY <1>6, <2>1, <2>2, MadeUpNamesDiffer
  <2> QED
    BY <1>4, <2>3
<1>7. ASSUME NEW i \in 1..Len(p.policies)
      PROVE  /\ c.rules[i].source \cup c.rules[i].destination \subseteq Defined(c) \cup Words("checkpoint")
             /\ c.rules[i].services \subseteq DOMAIN c.services \cup Words("checkpoint")
  <2> DEFINE rule == p.policies[i]
  <2>1. /\ c.rules[i].source = {address[n] : n \in Range(rule.source)}
        /\ c.rules[i].destination = {address[n] : n \in Range(rule.destination)}
        /\ c.rules[i].services = {service[s] : s \in Range(rule.services)}
    <3> HIDE DEF address, service
    <3> QED
      BY <1>1 DEF NamedRules
  <2>2. /\ Range(rule.source) \subseteq DOMAIN p.addresses
        /\ Range(rule.destination) \subseteq DOMAIN p.addresses
        /\ Range(rule.services) \subseteq DOMAIN p.services
    BY DEF IsPolicy
  <2>3. \A n \in DOMAIN p.addresses : address[n] \in listed \cup {AnyWord}
    BY AnyIsOne
  <2>4. \A s \in DOMAIN p.services : service[s] \in defined \cup {AnyWord}
    OBVIOUS
  <2> HIDE DEF address, service, listed, defined
  <2> QED
    BY <1>2, <1>3, <2>1, <2>2, <2>3, <2>4 DEF Words
<1>8. \A rule \in Range(c.rules) : \E i \in 1..Len(p.policies) : rule = c.rules[i]
  BY <1>1 DEF NamedRules, Range
<1>9. WellFormed("checkpoint", c)
  <2> HIDE DEF members
  <2>1. /\ \A key \in members : MemberName(key[1], key[2]) \notin DOMAIN c.services
        /\ \A key, other \in members :
              key # other => MemberName(key[1], key[2]) # MemberName(other[1], other[2])
    BY <1>5, <1>6
  <2>2. \A rule \in Range(c.rules) :
              /\ rule.source \cup rule.destination \subseteq Defined(c) \cup Words("checkpoint")
              /\ rule.services \subseteq DOMAIN c.services \cup Words("checkpoint")
    BY <1>7, <1>8
  <2> QED
    BY <2>1, <2>2 DEF WellFormed, members
<1> QED
  BY <1>9 DEF c

\* What an exporter has made of such a policy passes the checks.
LEMMA RenderedIsVerified ==
    ASSUME NEW p, IsPolicy(p), KeepsClear(p), NEW t \in Targets, Verifiable(t, p)
    PROVE  Verified(t, p, Render(t, p))
<1>1. CASE t \in LineTargets
  <2>1. Render(t, p) = Export(t, p) /\ t # "checkpoint"
    BY <1>1 DEF Render, LineTargets, FirstMatch, AllowOnly
  <2> QED
    BY <1>1, <2>1, LinesAreIntended DEF Verified, WellFormed
<1>2. CASE t \in ObjectTargets
  <2>1. Intent(t, p, Render(t, p))
    BY <1>2, ObjectTargetsAreIntended
  <2>2. WellFormed(t, Render(t, p))
    <3>1. CASE t = "checkpoint"
      <4>1. Render(t, p) = CheckPoint(p)
        BY <3>1 DEF Render, LineTargets, FirstMatch, AllowOnly
      <4> QED
        BY <3>1, <4>1, CheckPointIsWellFormed
    <3>2. CASE t # "checkpoint"
      BY <3>2 DEF WellFormed
    <3> QED
      BY <3>1, <3>2
  <2> QED
    BY <2>1, <2>2 DEF Verified
<1> QED
  BY <1>1, <1>2 DEF Targets

-----------------------------------------------------------------------------
(* The theorems.                                                           *)

\* The gate has let pass what is written.
LEMMA WrittenHasPassed ==
    ASSUME CompileInv, stage \in Written
    PROVE  /\ IsPolicy(ir) /\ DOMAIN ir.policies = 1..Len(ir.policies)
           /\ controls \in Baselines /\ GatePasses(controls)
<1>1. IsPolicy(ir)
  BY CompiledIsPolicy DEF Written, Failed
<1>2. controls \in Baselines /\ GatePasses(controls)
  BY DEF CompileInv, PassedInv, Targeted
<1> QED
  BY <1>1, <1>2 DEF IsPolicy

\* What an aws-sg group passes is promised.
LEMMA AwsSgPromises ==
    ASSUME CompileInv, stage \in Written, Faithful, NEW f \in Packets,
           target = "aws-sg", Passed(device, f)
    PROVE  Promised(target, f)
<1>1. IsPolicy(ir) /\ DOMAIN ir.policies = 1..Len(ir.policies)
  BY WrittenHasPassed
<1>2. Ported(ir)
  BY DEF Faithful, PortsAreGiven, Ported
<1>3. device = Export("aws-sg", ir)
  BY DEF CompileInv, WrittenInv, Installed, Render, LineTargets, AllowOnly
<1>4. DOMAIN device = 1..Len(ir.policies)
  BY <1>3 DEF Export
<1>5. PICK i \in 1..Len(ir.policies) : LineOf(device, i, f)
  BY <1>4 DEF Passed, LineOf
<1>6. /\ ir.policies[i].enabled /\ ir.policies[i].action = "allow"
      /\ AddrContains(AddressValues(ir, ir.policies[i].source), f.source)
      /\ ServicesMatch(ServiceValues(ir, ir.policies[i].services), f)
  BY <1>1, <1>2, <1>3, <1>5, AwsSgRule
<1> QED
  BY <1>1, <1>6 DEF Promised, AllowOnly

\* A device that takes what is written without a warning passes what the policy
\* allows and nothing else, where the target says all of it: whichever rules,
\* groups, services, members and names the policy has.
THEOREM ExportCorrect == Spec => []ExportIsFaithful
<1>1. CompileInv => ExportIsFaithful
  <2> SUFFICES ASSUME CompileInv, stage = "written", Faithful, NEW p \in Packets
               PROVE  /\ (Kept(target, p) => (Passed(device, p) <=> Promised(target, p)))
                      /\ (target = "aws-sg" /\ Passed(device, p) => Promised(target, p))
    BY DEF ExportIsFaithful
  <2>1. stage \in Written
    BY DEF Written
  <2>2. ASSUME Kept(target, p) PROVE Passed(device, p) <=> Promised(target, p)
    <3>1. target \notin AllowOnly
      BY <2>2 DEF Kept, AllowOnly
    <3>2. Passed(device, p) <=> Allowed(ir, p)
      BY <2>1, <2>2, DeviceDecidesAlike
    <3> QED
      BY <3>1, <3>2 DEF Promised
  <2>3. ASSUME target = "aws-sg", Passed(device, p) PROVE Promised(target, p)
    BY <2>1, <2>3, AwsSgPromises
  <2> QED
    BY <2>2, <2>3
<1> QED
  BY <1>1, CompileInvHolds, PTL

\* A device that has loaded what compile wrote passes a packet that a pattern of
\* the baseline forbids only by a rule with an exception for that pattern, where
\* exceptions count and the pattern is not critical, or because the pattern is
\* below the threshold.
THEOREM ForbiddenCorrect == Spec => []NothingForbiddenIsExported
<1>1. CompileInv => NothingForbiddenIsExported
  <2> SUFFICES ASSUME CompileInv, stage \in Written, Faithful, NEW p \in Packets,
                      NEW pattern \in controls.patterns, IsForbidden(pattern, p),
                      Kept(target, p), Passed(device, p)
               PROVE  \/ SEVERITY_RANK[pattern.severity] < SEVERITY_RANK[controls.fail_on]
                      \/ /\ pattern.severity # "critical" /\ controls.allow_exceptions
                         /\ \E i \in DOMAIN ir.policies :
                               Decides(ir, i, p) /\ Excepted(ir.policies[i], pattern.title)
    BY DEF NothingForbiddenIsExported, Written
  <2>1. IsPolicy(ir) /\ GatePasses(controls) /\ DOMAIN ir.policies = 1..Len(ir.policies)
    BY WrittenHasPassed
  <2>2. Allowed(ir, p)
    BY DeviceDecidesAlike
  <2>3. PICK i \in 1..Len(ir.policies) :
           /\ Decides(ir, i, p)
           /\ RuleFinding(i, pattern.title, pattern.severity)
                 \in PatternFindings(ir, controls.patterns)
    BY <2>1, <2>2, ForbiddenRuleIsFound
  <2>4. \/ ~(SEVERITY_RANK[pattern.severity] >= SEVERITY_RANK[controls.fail_on])
        \/ /\ pattern.severity # "critical" /\ controls.allow_exceptions
           /\ Excepted(ir.policies[i], pattern.title)
    BY <2>1, <2>3, FindingIsWaived
  <2>5. pattern.severity \in Severities /\ controls.fail_on \in Severities
    BY WrittenHasPassed, BaselinesAssumption
  <2>6. ~(SEVERITY_RANK[pattern.severity] >= SEVERITY_RANK[controls.fail_on])
           => SEVERITY_RANK[pattern.severity] < SEVERITY_RANK[controls.fail_on]
    BY <2>5 DEF Severities, SEVERITY_RANK
  <2> QED
    BY <2>1, <2>3, <2>4, <2>6
<1> QED
  BY <1>1, CompileInvHolds, PTL

\* The device gives every packet between tested addresses the decision that
\* the test expects, though only two addresses of a network were tried.
THEOREM TestedFlowsCorrect == Spec => []TestedFlowsAreKept
<1>1. CompileInv => TestedFlowsAreKept
  <2> SUFFICES ASSUME CompileInv, stage = "written", Faithful, NEW test \in Tests(controls),
                      NEW p \in Packets, p.protocol = test.protocol, p.port = test.port,
                      p.source \in Covered(test.src), p.destination \in Covered(test.dst),
                      Kept(target, p)
               PROVE  Passed(device, p) <=> test.expect = "allow"
    BY DEF TestedFlowsAreKept
  <2>1. stage \in Written
    BY DEF Written
  <2>2. IsPolicy(ir) /\ GatePasses(controls)
    BY <2>1, WrittenHasPassed
  <2>3. Passes(ir, test)
    BY <2>2 DEF GatePasses, TestPasses
  <2>4. Allowed(ir, p) <=> test.expect = "allow"
    BY <2>2, <2>3, TestedPacket
  <2> QED
    BY <2>1, <2>4, DeviceDecidesAlike
<1> QED
  BY <1>1, CompileInvHolds, PTL

\* The device opens no address to the outside that the policy does not list and,
\* unless only critical findings count, opens a watched port only by a rule with
\* an exception for that finding, where exceptions count.
THEOREM ExposureCorrect == Spec => []ExposureIsWaived
<1>1. CompileInv => ExposureIsWaived
  <2> SUFFICES ASSUME CompileInv, stage \in Written, Faithful,
                      NEW p \in Packets, Outside(ir, p.source),
                      Kept(target, p), Passed(device, p)
               PROVE  /\ \E n \in NetworksOf(ir) : p.destination \in n
                      /\ controls.fail_on # "critical" /\ p.port \in Database \cup DOMAIN HighRisk =>
                            /\ controls.allow_exceptions
                            /\ \E i \in DOMAIN ir.policies :
                                  LET rule == ir.policies[i] IN
                                  /\ Decides(ir, i, p)
                                  /\ p.port \in Database =>
                                        Excepted(rule, "Internet to internal database")
                                  /\ p.port \in DOMAIN HighRisk => Excepted(rule, HighRisk[p.port])
    BY DEF ExposureIsWaived, Written
  <2>1. /\ IsPolicy(ir) /\ DOMAIN ir.policies = 1..Len(ir.policies)
        /\ controls \in Baselines /\ GatePasses(controls)
    BY WrittenHasPassed
  <2>2. Allowed(ir, p)
    BY DeviceDecidesAlike
  <2>3. PICK i \in 1..Len(ir.policies) :
           /\ ir.policies[i].enabled /\ ir.policies[i].action = "allow" /\ Decides(ir, i, p)
           /\ AddrContains(AddressValues(ir, ir.policies[i].source), p.source)
           /\ AddrContains(AddressValues(ir, ir.policies[i].destination), p.destination)
           /\ ServicesMatch(ServiceValues(ir, ir.policies[i].services), p)
    BY <2>2, AllowingRule
  <2> DEFINE rule == ir.policies[i]
             ports == PortsOf(ServiceValues(ir, ir.policies[i].services))
  <2>4. i \in Allowing(ir)
    BY <2>3 DEF Allowing
  <2>5. IsBroad(AddressValues(ir, ir.policies[i].source))
    BY <2>1, <2>3, OutsideIsBroad DEF IsBroadSource, IsBroad
  <2>6. any \notin AddressValues(ir, ir.policies[i].destination)
    BY <2>1, <2>4, <2>5, ExposedFindings, SurfaceIsWaived
  <2>7. \E n \in NetworksOf(ir) : p.destination \in n
    BY <2>1, <2>3, <2>6, DestinationIsListed DEF Listed
  <2>8. ASSUME p.port # NoPort PROVE p.port \in ports
    <3>1. PICK s \in ServiceValues(ir, ir.policies[i].services) : ServiceMatches(s, p)
      BY <2>3 DEF ServicesMatch
    <3>2. s \in Service
      BY <2>1, ServicesOfRule
    <3> QED
      BY <2>8, <3>1, <3>2, PortOfPacket DEF PortsOf
  <2>9. \A port \in Database \cup DOMAIN HighRisk : port # NoPort
    BY PortsAssumption DEF AllPorts, NoPort
  <2>10. ASSUME p.port \in Database, controls.fail_on # "critical"
         PROVE  controls.allow_exceptions /\ Excepted(rule, "Internet to internal database")
    <3>1. p.port \in ports \cap Database
      BY <2>8, <2>9, <2>10
    <3>2. RuleFinding(i, "Internet to internal database", "high") \in AttackSurface(ir)
      BY <2>4, <2>5, <3>1, ExposedFindings
    <3> QED
      BY <2>1, <2>10, <3>2, SurfaceIsWaived
  <2>11. ASSUME p.port \in DOMAIN HighRisk, controls.fail_on # "critical"
         PROVE  controls.allow_exceptions /\ Excepted(rule, HighRisk[p.port])
    <3>1. p.port \in ports \cap DOMAIN HighRisk
      BY <2>8, <2>9, <2>11
    <3>2. RuleFinding(i, HighRisk[p.port], "high") \in AttackSurface(ir)
      BY <2>4, <2>5, <3>1, ExposedFindings
    <3> QED
      BY <2>1, <2>11, <3>2, SurfaceIsWaived
  <2> QED
    BY <2>1, <2>3, <2>7, <2>10, <2>11
<1> QED
  BY <1>1, CompileInvHolds, PTL

\* What the exporters write is never refused by the checks of its text, for a
\* policy whose texts quote no foreign address and whose rules need none that
\* the checks cannot find.
THEOREM VerificationCorrect == Spec => []VerificationAcceptsExports
<1>1. Init => VerificationAcceptsExports
  BY DEF Init, VerificationAcceptsExports
<1>2. CompileInv /\ VerificationAcceptsExports /\ [Next]_vars => VerificationAcceptsExports'
  <2> SUFFICES ASSUME CompileInv, VerificationAcceptsExports, [Next]_vars,
                      stage' = "unverified"
               PROVE  ~Verifiable(target', ir')
    BY DEF VerificationAcceptsExports
  <2>1. ASSUME NEW t \in Targets, Unverified(t) PROVE ~Verifiable(target', ir')
    <3>1. /\ stage = "checked" /\ ~Verified(t, ir, Render(t, ir))
          /\ target' = t /\ ir' = ir
      BY <2>1 DEF Unverified
    <3>2. IsPolicy(ir) /\ KeepsClear(ir)
      BY <3>1, CompiledIsPolicy, CompiledKeepsClear DEF Failed
    <3>3. ~Verifiable(t, ir)
      BY <3>1, <3>2, RenderedIsVerified
    <3> QED
      BY <3>1, <3>3
  <2>2. CASE UNCHANGED vars
    BY <2>2 DEF VerificationAcceptsExports, vars
  <2>3. Next => \E t \in Targets : Unverified(t)
    BY DEF Next, Invalid, BuildRaises, Build, Check, Disallowed, ExportRaises, Lossy, Write
  <2> QED
    BY <2>1, <2>2, <2>3
<1> QED
  BY <1>1, <1>2, CompileInvHolds, PTL DEF Spec
=============================================================================
