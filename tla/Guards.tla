------------------------------ MODULE Guards ------------------------------
(***************************************************************************)
(* What stands between a compiled policy and its export: the forbidden     *)
(* patterns of the baseline (enforcement/baseline.py) and the flow tests   *)
(* of the policy and the baseline (verify/regression.py).                  *)
(*                                                                         *)
(* A pattern is a record of source, destination, protocol and ports, each  *)
(* of which may be Unset, with the title and the severity of its findings; *)
(* source and destination are the words "any" and, for the source,         *)
(* "broad", or sets of networks.                                           *)
(***************************************************************************)
EXTENDS Policy, Severity, FiniteSetsExt

CONSTANTS
    Wide,       \* the public networks with a short prefix
    Broad,      \* the word "broad" of a pattern
    Internet,   \* the IPv4 address that stands for the internet in tests
    Unset       \* the pattern does not say

ASSUME WideAssumption == Wide \subseteq Networks
ASSUME InternetAssumption == Internet \in V4
ASSUME WordsAssumption == Unset \notin {any, Broad} /\ any # Broad

\* attack_surface.is_broad_source
IsBroad(values) == any \in values \/ values \cap Wide # {}

\* baseline._overlaps
OverlapsNetworks(values, networks) ==
    any \in values \/ \E n \in values \cap Networks, m \in networks : n \cap m # {}

\* What a pattern says of one side of a rule.
SideMatches(values, side) ==
    CASE side = Unset -> TRUE
      [] side = any   -> any \in values
      [] side = Broad -> IsBroad(values)
      [] OTHER        -> OverlapsNetworks(values, side)

\* Mutant: only services that name the protocol count.
MatchesLiterally(ir, rule, pattern) ==
    LET services == {s \in ServiceValues(ir, rule.services) :
                        pattern.protocol \in {Unset, s.protocol}}
    IN  /\ SideMatches(AddressValues(ir, rule.source), pattern.source)
        /\ SideMatches(AddressValues(ir, rule.destination), pattern.destination)
        /\ services # {}
        /\ pattern.ports # Unset => PortsOf(services) \cap pattern.ports # {}

\* _matches: a rule has a service, so the list left without a protocol in the
\* pattern is never empty.
MatchesPattern(ir, rule, pattern) ==
    LET services == {s \in ServiceValues(ir, rule.services) :
                        pattern.protocol = Unset \/ s.protocol \in {pattern.protocol, "any"}}
    IN  /\ SideMatches(AddressValues(ir, rule.source), pattern.source)
        /\ SideMatches(AddressValues(ir, rule.destination), pattern.destination)
        /\ services # {}
        /\ pattern.ports # Unset => PortsOf(services) \cap pattern.ports # {}

\* rule_finding: a finding about a rule, by its number.
RuleFinding(i, title, severity) == [rule |-> i, title |-> title, severity |-> severity]

\* What enforce_baseline finds of the patterns.
PatternFindings(ir, patterns) ==
    UNION {{RuleFinding(i, pattern.title, pattern.severity)
            : pattern \in {q \in patterns : MatchesPattern(ir, ir.policies[i], q)}}
           : i \in {i \in 1..Len(ir.policies) :
                        ir.policies[i].enabled /\ ir.policies[i].action = "allow"}}

-----------------------------------------------------------------------------
(* verify/regression.py                                                    *)

\* _probes: the first and the last usable host of a value.
Probes(value) ==
    IF value = any THEN {Internet}
    ELSE IF value \notin Networks THEN {}
    ELSE IF Cardinality(value) <= 2 THEN {Min(value)}
    ELSE {Min(value) + 1, Max(value) - 1}

\* _endpoints
Endpoints(ir, endpoint) ==
    IF endpoint \in Addresses THEN {endpoint}
    ELSE IF endpoint = Star
    THEN UNION {Probes(v) : v \in (UNION {ir.addresses[n] : n \in DOMAIN ir.addresses}) \ {any}}
    ELSE UNION {Probes(v) : v \in ir.addresses[endpoint]}

\* Mutant: it is enough that the first probe gets what is expected.
FirstProbePasses(ir, test) ==
    LET sources == Endpoints(ir, test.src)  destinations == Endpoints(ir, test.dst) IN
    /\ sources # {} /\ destinations # {}
    /\ Allowed(ir, [port |-> test.port, protocol |-> test.protocol,
                    source |-> Min(sources), destination |-> Min(destinations)]) <=> test.expect = "allow"

\* run_flow_tests: every probe of one version gets what is expected.
Passes(ir, test) ==
    LET sources == Endpoints(ir, test.src)  destinations == Endpoints(ir, test.dst) IN
    /\ sources # {} /\ destinations # {}
    /\ \A s \in sources, d \in destinations :
          (s \in V6 <=> d \in V6) =>
              (Allowed(ir, [port |-> test.port, protocol |-> test.protocol,
                            source |-> s, destination |-> d])
               <=> test.expect = "allow")

-----------------------------------------------------------------------------
(* What a pattern and a test are about.                                    *)

InSide(side, address) ==
    \/ side = Unset
    \/ side \notin {Unset, any, Broad} /\ \E n \in side : address \in n

\* A flow that a pattern forbids by its networks; the words "any" and
\* "broad" are about how a rule is written and forbid no flow.
IsForbidden(pattern, p) ==
    /\ InSide(pattern.source, p.source) /\ InSide(pattern.destination, p.destination)
    /\ pattern.protocol \in {Unset, p.protocol}
    /\ pattern.ports # Unset => p.port # NoPort /\ p.port \in pattern.ports

\* No network of the policy lies inside the network.
Uncut(ir, network) == \A m \in NetworksOf(ir) : m \subseteq network => m = network
=============================================================================
