------------------------------ MODULE Compile ------------------------------
(***************************************************************************)
(* py2fw compile: a policy document on its way to a configuration          *)
(* (compile_command of main.py, check_path and render_config of            *)
(* cli/_pipeline.py), and py2fw diff with an earlier policy.               *)
(*                                                                         *)
(* Of the gate, which Gate models, what matters here is what blocks: a     *)
(* failing flow test and a finding, of the analyses or about a forbidden   *)
(* pattern, that the threshold does not make a warning and that no         *)
(* exception waives.  Exceptions are good on the day of the check, the     *)
(* threshold is the one that effective_fail_on gives, and no field of a    *)
(* rule is required; days, requests and fields are Gate's.                 *)
(***************************************************************************)
EXTENDS Documents, Shadow, Diff, Exposure, Verify

CONSTANTS
    Cases,       \* the documents to compile, each with an earlier document
    HostMaps,    \* what host pinning gives for hostnames
    Baselines    \* records of the forbidden patterns, the tests, the allowed
                 \* targets, the threshold and whether exceptions count

ASSUME CasesAssumption ==
    \A c \in Cases : IsDocument(c.document) /\ IsDocument(c.earlier)
ASSUME MadeUpAssumption ==
    \A c \in Cases :
        LET names == Named(c.document) \cup DOMAIN c.document.services \cup {any}
        IN  \A m \in names \cup {all} \cup Range(Spelled) : m \notin names \X Nat
ASSUME BaselinesAssumption ==
    \A b \in Baselines :
        /\ b.fail_on \in Severities /\ b.allow_exceptions \in BOOLEAN
        /\ \A pattern \in b.patterns : pattern.severity \in Severities
ASSUME HostMapsAssumption ==
    \A pins \in HostMaps :
        /\ DOMAIN pins \subseteq Hostnames
        /\ \A h \in DOMAIN pins :
              pins[h] \subseteq Networks /\ pins[h] # {} /\ IsFiniteSet(pins[h])

VARIABLES
    document,    \* the policy file
    earlier,     \* the policy file before the last change
    stage,       \* how far the command is, or how it has ended
    hosts,       \* the pins it was given
    ir,          \* the compiled policy
    controls,    \* the baseline it is checked against
    target,      \* for which device
    config,      \* the configuration it has written
    device       \* the lines of a device that has loaded it

vars == <<document, earlier, stage, hosts, ir, controls, target, config, device>>

Exits ==
    {"invalid", "raised", "blocked", "disallowed", "not rendered", "lossy", "unverified",
     "written", "written lossy"}

TypeOK ==
    /\ IsDocument(document) /\ IsDocument(earlier)
    /\ stage \in {"start", "compiled", "checked"} \cup Exits
    /\ hosts \in HostMaps \cup {Absent}
    /\ ir # Absent =>
          /\ ir.addresses \in [DOMAIN ir.addresses -> SUBSET Values]
          /\ ir.services \in [DOMAIN ir.services -> Service]
    /\ controls \in Baselines \cup {Absent}
    /\ target \in Targets \cup {Absent}
    /\ config # Absent => DOMAIN device = DOMAIN ir.policies

Init ==
    /\ \E c \in Cases : document = c.document /\ earlier = c.earlier
    /\ stage = "start"
    /\ hosts = Absent /\ ir = Absent /\ controls = Absent /\ target = Absent
    /\ config = Absent /\ device = Absent

\* validate_document finds an error.
Invalid ==
    /\ stage = "start"
    /\ ~Valid(document)
    /\ stage' = "invalid"
    /\ UNCHANGED <<document, earlier, hosts, ir, controls, target, config, device>>

\* A reference that the validation has let pass cannot be resolved.
BuildRaises ==
    /\ stage = "start"
    /\ Valid(document) /\ Raises(document)
    /\ stage' = "raised"
    /\ UNCHANGED <<document, earlier, hosts, ir, controls, target, config, device>>

Build ==
    /\ stage = "start"
    /\ Valid(document) /\ ~Raises(document)
    /\ stage' = "compiled"
    /\ \E pins \in HostMaps :
          /\ DOMAIN pins \subseteq UNION Range(document.objects)
          /\ hosts' = pins
          /\ ir' = BuildIR(document, pins)
    /\ UNCHANGED <<document, earlier, controls, target, config, device>>

\* The policy's tests and those of a baseline; a test about a name the policy
\* does not know fails.
Tests(baseline) == document.tests \cup baseline.tests

KnownEndpoint(e) == e = Star \/ e \in Addresses \/ e \in DOMAIN ir.addresses

TestPasses(test) == KnownEndpoint(test.src) /\ KnownEndpoint(test.dst) /\ Passes(ir, test)

\* What is unused is about no rule.
NoRule == 0

\* find_documentation_gaps
Undocumented == {i \in 1..Len(ir.policies) : ir.policies[i].enabled /\ ir.policies[i].description = ""}

\* analyze_ir
AnalysisFindings ==
    AttackSurface(ir)
    \cup {RuleFinding(f.rule, f.title, IF f.title = "Redundant rule" THEN "low" ELSE "medium")
          : f \in ShadowFindings(ir)}
    \cup {RuleFinding(i, "Duplicate rule", "medium") : i \in DuplicateRules(ir)}
    \cup {RuleFinding(NoRule, "Unused object", "low") : n \in UnusedObjects(ir)}
    \cup {RuleFinding(NoRule, "Unused service", "low") : s \in UnusedServices(ir)}
    \cup {RuleFinding(i, "Missing business justification", "low") : i \in Undocumented}

\* Mutant: an exception for one rule serves all.
WaivedByTitle(f) == \E w \in document.exceptions : w.title = f.title

\* There is an exception for the finding.
IsWaived(f) ==
    /\ f.rule # NoRule
    /\ [rule |-> ir.policies[f.rule].name, title |-> f.title] \in document.exceptions

\* Mutant: an exception waives critical findings too.
BlocksUnlessWaived(f, baseline) ==
    /\ SEVERITY_RANK[f.severity] >= SEVERITY_RANK[baseline.fail_on]
    /\ ~(baseline.allow_exceptions /\ IsWaived(f))

\* _classify: the finding is a violation.
Blocks(f, baseline) ==
    /\ SEVERITY_RANK[f.severity] >= SEVERITY_RANK[baseline.fail_on]
    /\ ~(f.severity # "critical" /\ baseline.allow_exceptions /\ IsWaived(f))

GatePasses(baseline) ==
    /\ \A f \in AnalysisFindings \cup PatternFindings(ir, baseline.patterns) : ~Blocks(f, baseline)
    /\ \A t \in Tests(baseline) : TestPasses(t)

Check ==
    /\ stage = "compiled"
    /\ \E baseline \in Baselines :
          /\ stage' = IF GatePasses(baseline) THEN "checked" ELSE "blocked"
          /\ controls' = baseline
    /\ UNCHANGED <<document, earlier, hosts, ir, target, config, device>>

\* A baseline that lists no targets allows all.
TargetAllowed(t) == controls.targets = {} \/ t \in controls.targets

Disallowed(t) ==
    /\ stage = "checked"
    /\ ~TargetAllowed(t)
    /\ stage' = "disallowed"
    /\ target' = t
    /\ UNCHANGED <<document, earlier, hosts, ir, controls, config, device>>

Raising(t) == t = "fortigate" /\ FortiGateRaises(ir)

\* The exporter raises an error that nothing handles.
ExportRaises(t) ==
    /\ stage = "checked"
    /\ TargetAllowed(t) /\ Raising(t)
    /\ stage' = "not rendered"
    /\ target' = t
    /\ UNCHANGED <<document, earlier, hosts, ir, controls, config, device>>

\* A target that cannot express the policy is refused without --allow-lossy.
Lossy(t) ==
    /\ stage = "checked"
    /\ TargetAllowed(t) /\ ~Raising(t) /\ ~Lossless(ir, t)
    /\ stage' = "lossy"
    /\ target' = t
    /\ UNCHANGED <<document, earlier, hosts, ir, controls, config, device>>

\* The generated text fails its checks; a lossy one has been asked for with
\* --allow-lossy, here as in Write.
Unverified(t) ==
    /\ stage = "checked"
    /\ TargetAllowed(t) /\ ~Raising(t)
    /\ ~Verified(t, ir, Render(t, ir))
    /\ stage' = "unverified"
    /\ target' = t
    /\ UNCHANGED <<document, earlier, hosts, ir, controls, config, device>>

Write(t) ==
    /\ stage = "checked"
    /\ TargetAllowed(t) /\ ~Raising(t)
    /\ Verified(t, ir, Render(t, ir))
    /\ stage' = IF Lossless(ir, t) THEN "written" ELSE "written lossy"
    /\ target' = t
    /\ config' = Render(t, ir)
    /\ device' = Installed(t, config')
    /\ UNCHANGED <<document, earlier, hosts, ir, controls>>

Next ==
    \/ Invalid
    \/ BuildRaises
    \/ Build
    \/ Check
    \/ \E t \in Targets :
          Disallowed(t) \/ ExportRaises(t) \/ Lossy(t) \/ Unverified(t) \/ Write(t)

Spec == Init /\ [][Next]_vars

-----------------------------------------------------------------------------
(* Properties.                                                             *)

\* What a group of a valid document stands for is what its members, their
\* members and so on stand for, however they share members; it raises if and
\* only if a cycle can be reached.
GroupsResolveToMembers ==
    stage = "start" /\ Valid(document) => ResolvesToMembers(document)

\* The objects, groups and services that `analyze` reports as unused can be
\* removed: the document stays valid and decides every packet as before.
\* Documents with tests are left out, since a test may name an unused object.
UnusedCanGo ==
    stage = "compiled" /\ document.tests = {} =>
        LET trimmed == Trimmed(document, ir) IN
        Valid(trimmed) /\ SameDecisions(ir, BuildIR(trimmed, hosts))

\* A rule reported as shadowed or redundant decides no packet, provided the
\* rule said to cover it has one protocol and one range of ports.
ReportedRulesAreUnreachable == stage = "compiled" => ReportedIsUnreachable(ir)

\* Of two rules that decide a packet in opposite ways the later is reported,
\* unless one mixes icmp with ports.
OppositeRulesAreReported == stage = "compiled" => OppositesAreReported(ir)

\* When `diff` finds no change, both policies decide alike, provided that
\* names are unique and the rules stand in the same order.
UnchangedPoliciesDecideAlike ==
    stage = "compiled" /\ Valid(earlier) /\ ~Raises(earlier)
        => UnchangedDecidesAlike(BuildIR(earlier, hosts), ir)

\* An empty list of ports is no port to the policy and every port to a target.
PortsAreGiven ==
    \A s \in Range(ir.services) : s.protocol \in {"tcp", "udp"} => s.ports # {}

\* The configuration is one the target takes, no name of the policy has a
\* meaning of its own there, and services have their ports.
Faithful == NamesAreApart(target, ir) /\ Accepted(target, config) /\ PortsAreGiven

\* The packets whose decision a target keeps: iptables writes rules without
\* an address of version 6 for version 4 only, as FortiGate reads them, and
\* what the targets call icmp is the protocol of version 4; only Palo Alto
\* cannot name it at all.
Kept(t, p) ==
    \/ t \in {"ciscoasa", "azure-nsg", "checkpoint"} /\ ~(p.source \in V6 /\ p.protocol = "icmp")
    \/ t \in {"iptables", "fortigate"} /\ p.source \notin V6
    \/ t = "paloalto"

\* What a target promises to pass; one that only allows says nothing of
\* destinations.
Promised(t, p) ==
    IF t \in AllowOnly
    THEN \E i \in DOMAIN ir.policies :
            LET rule == ir.policies[i] IN
            /\ rule.enabled /\ rule.action = "allow"
            /\ AddrContains(AddressValues(ir, rule.source), p.source)
            /\ ServicesMatch(ServiceValues(ir, rule.services), p)
    ELSE Allowed(ir, p)

\* A configuration written without a warning passes nothing the policy denies,
\* and where the target has both versions and destinations, nothing less.
ExportIsFaithful ==
    stage = "written" /\ Faithful =>
        \A p \in Packets :
            /\ Kept(target, p) => (Passed(device, p) <=> Promised(target, p))
            /\ target = "aws-sg" /\ Passed(device, p) => Promised(target, p)

\* The rule has an exception with this title.
Excepted(rule, title) == [rule |-> rule.name, title |-> title] \in document.exceptions

\* A packet that a baseline pattern forbids passes a device configured with
\* what compile has written only by a rule that has an exception for that very
\* pattern, where exceptions count and the pattern is not critical; or because
\* the pattern is below the threshold and only warns.
NothingForbiddenIsExported ==
    stage \in {"written", "written lossy"} /\ Faithful =>
        \A p \in Packets, pattern \in controls.patterns :
            IsForbidden(pattern, p) /\ Kept(target, p) /\ Passed(device, p) =>
                \/ SEVERITY_RANK[pattern.severity] < SEVERITY_RANK[controls.fail_on]
                \/ /\ pattern.severity # "critical" /\ controls.allow_exceptions
                   /\ \E i \in DOMAIN ir.policies :
                         Decides(ir, i, p) /\ Excepted(ir.policies[i], pattern.title)

\* The addresses an endpoint of a test is about, if each of its values is a
\* network that no network of the policy cuts.
Covered(e) ==
    IF e \in Addresses THEN {e}
    ELSE IF e \in DOMAIN ir.addresses /\ \A v \in ir.addresses[e] : v \in Networks /\ Uncut(ir, v)
    THEN UNION ir.addresses[e]
    ELSE {}

\* Two probes per network are enough: what compile has written gives every
\* packet between the tested addresses the expected decision.
TestedFlowsAreKept ==
    stage = "written" /\ Faithful =>
        \A test \in Tests(controls) :
            LET sources == Covered(test.src)  destinations == Covered(test.dst) IN
            \A p \in Packets :
                /\ p.protocol = test.protocol /\ p.port = test.port
                /\ p.source \in sources /\ p.destination \in destinations
                /\ Kept(target, p)
                => (Passed(device, p) <=> test.expect = "allow")

\* What compile has written lets an address that the policy does not list reach
\* none that it does not list either and, unless only critical findings count,
\* opens a watched port to it only by a rule with an exception for that very
\* finding, where exceptions count.
ExposureIsWaived ==
    stage \in {"written", "written lossy"} /\ Faithful =>
        \A p \in {p \in Packets : Outside(ir, p.source)} :
            Kept(target, p) /\ Passed(device, p) =>
                /\ \E n \in NetworksOf(ir) : p.destination \in n
                /\ controls.fail_on # "critical" /\ p.port \in Database \cup DOMAIN HighRisk =>
                      /\ controls.allow_exceptions
                      /\ \E i \in DOMAIN ir.policies :
                            LET rule == ir.policies[i] IN
                            /\ Decides(ir, i, p)
                            /\ p.port \in Database => Excepted(rule, "Internet to internal database")
                            /\ p.port \in DOMAIN HighRisk => Excepted(rule, HighRisk[p.port])

\* A control that passes is kept by every decision: no address from outside
\* reaches a database port, an address that is not listed, or a port that no
\* rule names; segmentation rules stay inside.  The findings that judge the
\* same, in the other module, are about the same rules.
PassedControlsHold == stage = "compiled" => ControlsHold(ir)

\* The checks of a generated configuration refuse none that the exporter has
\* made of a policy whose texts quote no foreign address, whose networks can
\* all be found and, for Check Point, that names no service like a made-up one.
VerificationAcceptsExports == stage = "unverified" => ~Verifiable(target, ir)

-----------------------------------------------------------------------------
(* What the documentation says and the code does not do.                   *)

\* Groups "must not reference each other in a cycle": a document that passes
\* the validation compiles.
ValidDocumentsCompile == stage # "raised"

\* "Never reached", without the proviso.
ShadowedIsNeverReached ==
    stage = "compiled" =>
        \A f \in ShadowFindings(ir) :
            f.title = "Shadowed rule" => \A p \in Packets : ~Decides(ir, f.rule, p)

\* "No semantic changes." printed of two policies in any order.
NoChangeIsNoChange ==
    stage = "compiled" /\ Valid(earlier) /\ ~Raises(earlier) =>
        LET old == BuildIR(earlier, hosts) IN
        UniqueNames(old) /\ UniqueNames(ir) /\ DiffPolicies(old, ir) = {} => SameDecisions(old, ir)

\* A pattern "must never be deployed": no exception and no threshold lets it.
ForbiddenIsNeverDeployed ==
    stage \in {"written", "written lossy"} /\ Faithful =>
        \A p \in Packets, pattern \in controls.patterns :
            IsForbidden(pattern, p) /\ Kept(target, p) => ~Passed(device, p)

\* "refuses to write output when the target can't express the policy
\* faithfully": of every target, for every packet.
WrittenIsFaithful ==
    stage = "written" =>
        \A p \in Packets : Passed(device, p) => Promised(target, p)

\* "Exit 3" when the target cannot express the policy: the exporter does not
\* fail for want of an address it can write.
ExportersAnswer == stage # "not rendered"

\* The same of a device: it takes what is written without a warning.
WrittenIsAccepted == stage = "written" => Accepted(target, config)

\* The address that a rule needs is looked for "in it": what an exporter has
\* made of a policy whose texts quote nothing is not refused.
ExportsAreVerified ==
    stage = "unverified" /\ target # "checkpoint" => QuotedBy(WrittenNames(target, ir)) # {}

\* "Catches exporter bugs such as dropped rules": a configuration without the
\* lines of one rule does not pass for that of the policy.
DroppedRulesAreNoticed ==
    stage = "written" /\ target \in LineTargets =>
        \A i \in DOMAIN config : config[i].lines # {} =>
            ~Intent(target, ir, [config EXCEPT ![i].lines = {}])
=============================================================================
