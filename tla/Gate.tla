-------------------------------- MODULE Gate --------------------------------
(***************************************************************************)
(* The deployment gate: check_path of cli/_pipeline.py with evaluate_gate  *)
(* of analyzers/gate.py.  One policy is checked on one day after another,  *)
(* the way CI and `deploy` do, and judged finding by finding.              *)
(*                                                                         *)
(* A policy comes with what its analysis finds and with whether each of    *)
(* its regression tests passes.  A test passes or fails whoever wrote it,  *)
(* so tests are given by their result.                                     *)
(***************************************************************************)
EXTENDS Controls, FiniteSets

CONSTANTS
    Policies,    \* policies: rules, analysis, exceptions, tests, environment
    Baselines,   \* baseline files, or NoBaseline
    Options,     \* values of --env
    Requests,    \* values of --fail-on
    NoRequest,   \* --fail-on is not given
    MaxDay       \* bound: the number of days the policy is checked on

ASSUME PoliciesAssumption ==
    \A p \in Policies :
        /\ p.rules \in Seq(Rules)
        /\ p.analysis \in Seq(Reports)
        /\ p.exceptions \in Seq([rule : STRING, title : STRING, expires : Nat])
        /\ p.warnings \in Seq(Titles)
        /\ p.tests \in Seq(Results)
ASSUME BaselinesAssumption ==
    \A b \in Baselines \ {NoBaseline} :
        /\ b.defaults \in LayerModels
        /\ \A e \in DOMAIN b.environments : b.environments[e] \in LayerModels
ASSUME MaxDayAssumption == MaxDay \in Nat \ {0}
ASSUME RequestsAssumption == Requests \subseteq Severities \cup {NoRequest}
ASSUME NoRequestAssumption == NoRequest \notin Severities

VARIABLES
    policy, baseline, option, request,  \* what `py2fw check` is given
    today,      \* the date
    phase,      \* how far the check is
    controls,   \* the settings in force
    findings,   \* what is left to judge
    items,      \* the gate's items so far
    used,       \* keys of exceptions that matched a finding
    verdicts    \* history: on which days the policy passed

given == <<policy, baseline, option, request>>
vars  == <<given, today, phase, controls, findings, items, used, verdicts>>

-----------------------------------------------------------------------------
\* `finding.rule or ""`: what is about no rule.
NoRule == ""

Key(f) == <<f.rule, f.title>>

ExceptionKeys == {Key(x) : x \in ToSet(policy.exceptions)}

NoWaiver == [expires |-> 0]

\* The dictionary `waivers`: of two exceptions with one key the later counts.
Waiver(key) ==
    LET places == {i \in DOMAIN policy.exceptions : Key(policy.exceptions[i]) = key} IN
    IF places = {} THEN NoWaiver
    ELSE policy.exceptions[CHOOSE i \in places : \A j \in places : j <= i]

\* Mutant: the severity asked for is taken as it is.
ThresholdAsRequested(c) == IF request = NoRequest THEN c.fail_on ELSE request

\* effective_fail_on, under the settings c
Threshold(c) ==
    CASE request = NoRequest -> c.fail_on
      [] request # NoRequest /\ baseline = NoBaseline -> request
      [] OTHER -> IF SEVERITY_RANK[request] < SEVERITY_RANK[c.fail_on]
                  THEN request ELSE c.fail_on

Blocking(severity, c) == SEVERITY_RANK[severity] >= SEVERITY_RANK[Threshold(c)]

\* Mutant: an exception has expired on the day it is valid until.
UsableUntilTheDayBefore(waiver, c, day) ==
    /\ c.allow_exceptions
    /\ waiver.expires > day
    /\ c.max_exception_days # Unlimited
          => waiver.expires <= day + c.max_exception_days

\* Mutant: only the day of expiry is refused.
UsableUnlessExpiringToday(waiver, c, day) ==
    /\ c.allow_exceptions
    /\ waiver.expires # day
    /\ c.max_exception_days # Unlimited
          => waiver.expires <= day + c.max_exception_days

Usable(waiver, c, day) ==
    /\ c.allow_exceptions
    /\ waiver.expires >= day
    /\ c.max_exception_days # Unlimited
          => waiver.expires <= day + c.max_exception_days

\* _classify, under the settings c on a day
Classify(f, waiver, c, day) ==
    CASE ~Blocking(f.severity, c) -> "warning"
      [] Blocking(f.severity, c) /\ (waiver = NoWaiver \/ f.severity = "critical") -> "violation"
      [] OTHER -> IF Usable(waiver, c, day) THEN "waived" ELSE "violation"

\* The regression tests: the policy's and those of every layer in force.
Tests == policy.tests \o
    ResolveJoined(baseline, Environment(option, policy.environment), "tests")

\* analyze_ir and enforce_baseline
Findings(c) == policy.analysis \o
    EnforceBaseline(policy.rules, c.require_fields,
        ResolveJoined(baseline, Environment(option, policy.environment), "forbidden"))

Item(verdict, f) == [verdict |-> verdict, finding |-> f]

\* The items of the failed tests.
Failures ==
    FlattenSeq([i \in DOMAIN Tests |->
        When(~Tests[i].passed, Item("violation", Finding(NoRule, Tests[i].name, "critical")))])

\* The item for an exception that matched nothing.
UnusedItem(key) == Item("warning", [rule |-> key[1], title |-> "Unused exception",
                                    severity |-> "low", of |-> key[2]])

Passed == \A x \in ToSet(items) : x.verdict # "violation"

-----------------------------------------------------------------------------
Init ==
    /\ policy \in Policies /\ baseline \in Baselines
    /\ option \in Options /\ request \in Requests
    /\ today = 1
    /\ phase = "start"
    /\ controls = Defaults
    /\ findings = <<>> /\ items = <<>> /\ used = {}
    /\ verdicts = <<>>

\* load_controls and resolve_controls raise: nothing is judged.
Refuse ==
    /\ phase = "start"
    /\ \/ Disagree(option, policy.environment)
       \/ UnknownEnvironment(baseline, Environment(option, policy.environment))
    /\ phase' = "refused"
    /\ UNCHANGED <<given, today, controls, findings, items, used, verdicts>>

LoadControls ==
    LET environment == Environment(option, policy.environment) IN
    /\ phase = "start"
    /\ ~Disagree(option, policy.environment)
    /\ ~UnknownEnvironment(baseline, environment)
    /\ phase' = "enforce"
    /\ controls' = Resolve(baseline, environment)
    /\ UNCHANGED <<given, today, findings, items, used, verdicts>>

\* The findings are collected; validation warnings become items at once.
Enforce ==
    /\ phase = "enforce"
    /\ phase' = "judge"
    /\ findings' = Findings(controls)
    /\ items' = [i \in DOMAIN policy.warnings |->
                    Item("warning", Finding(NoRule, policy.warnings[i], "low"))]
    /\ UNCHANGED <<given, today, controls, used, verdicts>>

\* Mutant: an exception counts as used only where it is accepted.
JudgeCountsAccepted ==
    /\ phase = "judge" /\ findings # <<>>
    /\ LET f == Head(findings) IN
        /\ items' = Append(items, Item(Classify(f, Waiver(Key(f)), controls, today), f))
        /\ used' = IF Classify(f, Waiver(Key(f)), controls, today) = "waived" THEN used \cup {Key(f)} ELSE used
    /\ findings' = Tail(findings)
    /\ UNCHANGED <<given, today, phase, controls, verdicts>>

\* One turn of the loop over the findings.
Judge ==
    /\ phase = "judge" /\ findings # <<>>
    /\ LET f == Head(findings) IN
        /\ items' = Append(items, Item(Classify(f, Waiver(Key(f)), controls, today), f))
        /\ used' = IF Key(f) \in ExceptionKeys THEN used \cup {Key(f)} ELSE used
    /\ findings' = Tail(findings)
    /\ UNCHANGED <<given, today, phase, controls, verdicts>>

\* Failed tests of the policy and of the baseline.
JudgeTests ==
    /\ phase = "judge" /\ findings = <<>>
    /\ items' = items \o Failures
    /\ phase' = "report"
    /\ UNCHANGED <<given, today, controls, findings, used, verdicts>>

\* Exceptions that matched nothing, then GateReport.
Report ==
    /\ phase = "report"
    /\ items' = items \o SetToSeq({UnusedItem(key) : key \in ExceptionKeys \ used})
    /\ verdicts' = Append(verdicts, Passed)
    /\ phase' = "done"
    /\ UNCHANGED <<given, today, controls, findings, used>>

\* The same files are checked again a day later.
NextDay ==
    /\ phase = "done" /\ today < MaxDay
    /\ today' = today + 1
    /\ phase' = "start"
    /\ items' = <<>> /\ used' = {} /\ findings' = <<>> /\ controls' = Defaults
    /\ UNCHANGED <<given, verdicts>>

Next == Refuse \/ LoadControls \/ Enforce \/ Judge \/ JudgeTests \/ Report \/ NextDay

Spec == Init /\ [][Next]_vars

-----------------------------------------------------------------------------
Done == phase = "done"

TypeOK ==
    /\ policy \in Policies /\ baseline \in Baselines
    /\ option \in Options /\ request \in Requests
    /\ today \in 1..MaxDay
    /\ phase \in {"start", "refused", "enforce", "judge", "report", "done"}
    /\ controls.fail_on \in Severities
    /\ controls.allow_exceptions \in BOOLEAN
    /\ controls.max_exception_days \in Nat \cup {Unlimited}
    /\ controls.required_approvals \in Nat
    /\ \A x \in ToSet(items) : x.verdict \in {"violation", "waived", "warning"}
    /\ used \subseteq ExceptionKeys
    /\ verdicts \in Seq(BOOLEAN) /\ Len(verdicts) <= MaxDay

\* No policy has two exceptions for one finding: the validator warns of them.
OneExceptionPerFinding ==
    \A p \in Policies : \A x, y \in ToSet(p.exceptions) : Key(x) = Key(y) => x = y

\* The table of verdicts in the documentation: a check passes if and only if
\* every finding at or above the threshold has an exception the environment
\* accepts, none of those is critical, and every test passes.
BlocksAsDocumented ==
    Done =>
        (Passed <=>
            /\ \A f \in ToSet(Findings(controls)) :
                  Blocking(f.severity, controls) =>
                      /\ f.severity # "critical"
                      /\ controls.allow_exceptions
                      /\ \E x \in ToSet(policy.exceptions) :
                            /\ Key(x) = Key(f)
                            /\ x.expires >= today
                            /\ \/ controls.max_exception_days = Unlimited
                               \/ x.expires <= today + controls.max_exception_days
            /\ \A t \in ToSet(Tests) : t.passed)

\* Neither an environment nor --fail-on drops a control of the organisation:
\* an enabled rule that matches a forbidden pattern of the defaults is always
\* reported, a failed test of the defaults always blocks, and what blocks
\* without --fail-on blocks with it.
OrganisationControlsSurvive ==
    Done /\ baseline # NoBaseline =>
        /\ \A rule \in ToSet(policy.rules), pattern \in ToSet(baseline.defaults.forbidden) :
              rule.enabled /\ rule.action = "allow" /\ pattern.name \in rule.matches =>
                  \E x \in ToSet(items) :
                      x.finding = Finding(rule.name, pattern.name, pattern.severity)
        /\ (\E t \in ToSet(baseline.defaults.tests) : ~t.passed) => ~Passed
        /\ \A f \in ToSet(Findings(controls)) :
              SEVERITY_RANK[f.severity] >= SEVERITY_RANK[controls.fail_on] =>
                  \E x \in ToSet(items) :
                      x.finding = f /\ x.verdict \in {"violation", "waived"}

\* Time alone opens the gate at most once: a policy that has passed and then
\* stopped passing never passes again without a change to a file.
PassingDaysAreConsecutive ==
    \A i, j, k \in DOMAIN verdicts : i < j /\ j < k /\ verdicts[i] /\ verdicts[k] => verdicts[j]

\* An exception is reported as unused if and only if it is for no finding,
\* so that removing what is reported never changes the verdict.
UnusedIsUnneeded ==
    Done =>
        \A key \in ExceptionKeys :
            (\E x \in ToSet(items) : /\ x.finding.title = "Unused exception"
                                     /\ x.finding.rule = key[1]
                                     /\ x.finding.of = key[2])
            <=> ~\E f \in ToSet(Findings(controls)) : Key(f) = key

-----------------------------------------------------------------------------
(* What the documentation says and the code does not do.                   *)

\* An exception is "a waiver for one analyzer finding on one rule".
OneWaiverOneFinding ==
    Done =>
        \A i, j \in DOMAIN items :
            items[i].verdict = "waived" /\ items[j].verdict = "waived" /\ i # j =>
                Key(items[i].finding) # Key(items[j].finding)
=============================================================================
