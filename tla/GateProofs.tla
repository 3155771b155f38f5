----------------------------- MODULE GateProofs -----------------------------
(***************************************************************************)
(* Proofs about Gate, for any policies, baselines and number of days.      *)
(*                                                                         *)
(* A check is a loop that moves findings from one list to another.  What   *)
(* it has reached is described by the sets it works towards: JudgedItems,  *)
(* FailedItems and UnusedItems depend on nothing but what the check is     *)
(* given and the day.  CheckInv says for every phase how much of them is   *)
(* among the items, and that each day's verdict was PassesOn of that day.  *)
(* When the check is done the items are these sets, and the properties     *)
(* speak of these sets.                                                    *)
(***************************************************************************)
EXTENDS Gate, SequenceLemmas

\* The settings c are of their types.
ControlsOK(c) ==
    /\ c.fail_on \in Severities
    /\ c.require_fields \in Seq(Titles)
    /\ c.allow_exceptions \in BOOLEAN
    /\ c.max_exception_days \in Nat \cup {Unlimited}
    /\ c.required_approvals \in Nat

\* The built-in defaults have the types of controls.
LEMMA DefaultsOK == ControlsOK(Defaults)
BY DEF ControlsOK, Defaults, Severities

\* resolve_controls starts from the organisation's layer.
LEMMA LayersAreModels ==
    ASSUME NEW b \in Baselines, b # NoBaseline, NEW e
    PROVE  /\ Layers(b, e) \in Seq(LayerModels)
           /\ 1 \in DOMAIN Layers(b, e) /\ Layers(b, e)[1] = b.defaults
<1>1. b.defaults \in LayerModels
  BY BaselinesAssumption
<1>2. CASE e \in DOMAIN b.environments
  <2>1. b.environments[e] \in LayerModels
    BY <1>2, BaselinesAssumption
  <2>2. Layers(b, e) = <<b.defaults, b.environments[e]>>
    BY <1>2 DEF Layers
  <2> QED
    BY <1>1, <2>1, <2>2
<1>3. CASE e \notin DOMAIN b.environments
  <2>1. Layers(b, e) = <<b.defaults>>
    BY <1>3 DEF Layers
  <2> QED
    BY <1>1, <2>1
<1> QED
  BY <1>2, <1>3

\* _setting gives the default or what some layer says.
LEMMA SettingIsMade ==
    ASSUME NEW layers \in Seq(LayerModels), NEW name,
           Setting(layers, name) # Defaults[name]
    PROVE  \E layer \in LayerModels :
              layer[name] # Unset /\ Setting(layers, name) = layer[name]
<1> DEFINE explicit == {k \in DOMAIN layers : layers[k][name] # Unset}
<1>1. explicit # {}
  BY DEF Setting
<1>2. explicit \in SUBSET (1..Len(layers)) /\ Len(layers) \in Nat
  BY LenProperties
<1> DEFINE k == CHOOSE k \in explicit : \A j \in explicit : j <= k
<1>3. k \in explicit
  <2> HIDE DEF explicit
  <2>1. \E i \in explicit : \A j \in explicit : j <= i
    BY <1>1, <1>2, GreatestExists
  <2> QED
    BY <2>1
<1>4. Setting(layers, name) = layers[k][name]
  BY <1>1 DEF Setting
<1>5. layers[k] \in LayerModels /\ layers[k][name] # Unset
  BY <1>2, <1>3, ElementOfSeq
<1> QED
  BY <1>4, <1>5

\* resolve_controls gives controls, whatever the environment.
LEMMA ResolvedOK ==
    ASSUME NEW b \in Baselines, NEW e
    PROVE  ControlsOK(Resolve(b, e))
<1>1. CASE b = NoBaseline
  <2>1. \A name \in DOMAIN Defaults : Resolve(b, e)[name] = Defaults[name]
    BY <1>1 DEF Resolve, Settings
  <2>2. DOMAIN Defaults = {"fail_on", "require_fields", "allow_exceptions",
                           "max_exception_days", "required_approvals", "allowed_targets"}
    BY DEF Defaults
  <2> QED
    BY <2>1, <2>2, DefaultsOK DEF ControlsOK
<1>2. CASE b # NoBaseline
  <2> DEFINE layers == Layers(b, e)
  <2>1. layers \in Seq(LayerModels)
    BY <1>2, LayersAreModels
  <2>2. ASSUME NEW name \in Settings
        PROVE  Resolve(b, e)[name] = Setting(layers, name)
    BY <1>2, <2>2 DEF Resolve
  <2>3. /\ "fail_on" \in Settings /\ "require_fields" \in Settings
        /\ "allow_exceptions" \in Settings /\ "max_exception_days" \in Settings
        /\ "required_approvals" \in Settings
    BY DEF Settings, Defaults
  <2> HIDE DEF layers
  <2>4. Setting(layers, "fail_on") \in Severities
    <3>1. Defaults["fail_on"] \in Severities
      BY DefaultsOK DEF ControlsOK
    <3>2. \A layer \in LayerModels : layer["fail_on"] # Unset => layer["fail_on"] \in Severities
      BY DEF LayerModels
    <3> QED
      BY <2>1, <3>1, <3>2, SettingIsMade
  <2>5. Setting(layers, "require_fields") \in Seq(Titles)
    <3>1. Defaults["require_fields"] \in Seq(Titles)
      BY DefaultsOK DEF ControlsOK
    <3>2. \A layer \in LayerModels :
             layer["require_fields"] # Unset => layer["require_fields"] \in Seq(Titles)
      BY DEF LayerModels
    <3> QED
      BY <2>1, <3>1, <3>2, SettingIsMade
  <2>6. Setting(layers, "allow_exceptions") \in BOOLEAN
    <3>1. Defaults["allow_exceptions"] \in BOOLEAN
      BY DefaultsOK DEF ControlsOK
    <3>2. \A layer \in LayerModels :
             layer["allow_exceptions"] # Unset => layer["allow_exceptions"] \in BOOLEAN
      BY DEF LayerModels
    <3> QED
      BY <2>1, <3>1, <3>2, SettingIsMade
  <2>7. Setting(layers, "max_exception_days") \in Nat \cup {Unlimited}
    <3>1. Defaults["max_exception_days"] \in Nat \cup {Unlimited}
      BY DefaultsOK DEF ControlsOK
    <3>2. \A layer \in LayerModels :
             layer["max_exception_days"] # Unset => layer["max_exception_days"] \in Nat
      BY DEF LayerModels
    <3> QED
      BY <2>1, <3>1, <3>2, SettingIsMade
  <2>8. Setting(layers, "required_approvals") \in Nat
    <3>1. Defaults["required_approvals"] \in Nat
      BY DefaultsOK DEF ControlsOK
    <3>2. \A layer \in LayerModels :
             layer["required_approvals"] # Unset => layer["required_approvals"] \in Nat
      BY DEF LayerModels
    <3> QED
      BY <2>1, <3>1, <3>2, SettingIsMade
  <2> QED
    BY <2>2, <2>3, <2>4, <2>5, <2>6, <2>7, <2>8 DEF ControlsOK
<1> QED
  BY <1>1, <1>2

\* "forbidden" and "tests": every layer's are in force, the organisation's too.
LEMMA JoinedKeepsDefaults ==
    ASSUME NEW b \in Baselines, NEW e, NEW name, NEW S,
           \A layer \in LayerModels : layer[name] \in Seq(S)
    PROVE  /\ ResolveJoined(b, e, name) \in Seq(S)
           /\ b # NoBaseline =>
                 \A x \in ToSet(b.defaults[name]) : x \in ToSet(ResolveJoined(b, e, name))
<1>1. CASE b = NoBaseline
  BY <1>1 DEF ResolveJoined
<1>2. CASE b # NoBaseline
  <2> DEFINE layers == Layers(b, e)
             parts == [k \in DOMAIN layers |-> layers[k][name]]
  <2>1. layers \in Seq(LayerModels) /\ 1 \in DOMAIN layers /\ layers[1] = b.defaults
    BY <1>2, LayersAreModels
  <2>2. ResolveJoined(b, e, name) = FlattenSeq(parts)
    BY <1>2 DEF ResolveJoined, Joined
  <2>3. parts \in Seq(Seq(S))
    <3>1. DOMAIN layers = 1..Len(layers) /\ Len(layers) \in Nat
      BY <2>1, LenProperties
    <3>2. \A k \in 1..Len(layers) : layers[k][name] \in Seq(S)
      BY <2>1, <3>1, ElementOfSeq
    <3> QED
      BY <3>1, <3>2, IsASeq
  <2>4. 1 \in DOMAIN parts /\ parts[1] = b.defaults[name]
    BY <2>1
  <2> HIDE DEF parts
  <2> QED
    BY <2>2, <2>3, <2>4, FlattenProperties
<1> QED
  BY <1>1, <1>2

\* A line of a report is there if there is reason for it.
LEMMA WhenIsASeq ==
    ASSUME NEW S, NEW reason \in BOOLEAN, NEW x \in S
    PROVE  When(reason, x) \in Seq(S) /\ (reason => x \in ToSet(When(reason, x)))
BY DEF When, ToSet

\* enforce_baseline reports an enabled allow rule under every pattern that it
\* matches.
LEMMA RuleIsReported ==
    ASSUME NEW rule \in Rules, NEW fields \in Seq(Titles), NEW forbidden \in Seq(Patterns)
    PROVE  /\ RuleFindings(rule, fields, forbidden) \in Seq(Reports)
           /\ rule.enabled /\ rule.action = "allow" =>
                 \A pattern \in ToSet(forbidden) : pattern.name \in rule.matches =>
                    Finding(rule.name, pattern.name, pattern.severity)
                        \in ToSet(RuleFindings(rule, fields, forbidden))
<1>1. CASE ~rule.enabled
  BY <1>1 DEF RuleFindings
<1>2. CASE rule.enabled
  <2> DEFINE missing == [k \in DOMAIN fields |->
                 When(fields[k] \in rule.missing, Finding(rule.name, fields[k], "high"))]
             matched == [k \in DOMAIN forbidden |->
                 When(rule.action = "allow" /\ forbidden[k].name \in rule.matches,
                      Finding(rule.name, forbidden[k].name, forbidden[k].severity))]
  <2>1. RuleFindings(rule, fields, forbidden) = FlattenSeq(missing) \o FlattenSeq(matched)
    BY <1>2 DEF RuleFindings
  <2>2. missing \in Seq(Seq(Reports))
    <3>1. DOMAIN fields = 1..Len(fields) /\ Len(fields) \in Nat
      BY LenProperties
    <3>2. ASSUME NEW k \in 1..Len(fields) PROVE missing[k] \in Seq(Reports)
      <4>1. fields[k] \in Titles
        BY <3>1, ElementOfSeq
      <4>2. Finding(rule.name, fields[k], "high") \in Reports
        BY <4>1 DEF Finding, Reports, Rules, Severities
      <4>3. When(fields[k] \in rule.missing, Finding(rule.name, fields[k], "high"))
               \in Seq(Reports)
        BY <4>2 DEF When
      <4> QED
        BY <3>1, <4>3
    <3> QED
      BY <3>1, <3>2, IsASeq
  <2>3. ASSUME NEW k \in DOMAIN forbidden
        PROVE  /\ forbidden[k] \in Patterns
               /\ matched[k] \in Seq(Reports)
               /\ rule.action = "allow" /\ forbidden[k].name \in rule.matches =>
                     Finding(rule.name, forbidden[k].name, forbidden[k].severity)
                        \in ToSet(matched[k])
    <3>1. forbidden[k] \in Patterns
      BY LenProperties, ElementOfSeq
    <3>2. Finding(rule.name, forbidden[k].name, forbidden[k].severity) \in Reports
      BY <3>1 DEF Finding, Reports, Rules, Patterns
    <3> QED
      BY <3>1, <3>2, WhenIsASeq
  <2>4. matched \in Seq(Seq(Reports)) /\ DOMAIN matched = DOMAIN forbidden
    <3>1. DOMAIN forbidden = 1..Len(forbidden) /\ Len(forbidden) \in Nat
      BY LenProperties
    <3>2. \A k \in 1..Len(forbidden) : matched[k] \in Seq(Reports)
      BY <2>3, <3>1
    <3> QED
      BY <3>1, <3>2, IsASeq
  <2> HIDE DEF missing, matched
  <2>5. /\ FlattenSeq(missing) \in Seq(Reports) /\ FlattenSeq(matched) \in Seq(Reports)
        /\ \A x : x \in ToSet(FlattenSeq(matched)) <=> \E k \in DOMAIN matched : x \in ToSet(matched[k])
    BY <2>2, <2>4, FlattenProperties
  <2>6. /\ RuleFindings(rule, fields, forbidden) \in Seq(Reports)
        /\ \A x \in ToSet(FlattenSeq(matched)) : x \in ToSet(RuleFindings(rule, fields, forbidden))
    BY <2>1, <2>5, ElementsOfConcat
  <2>7. ASSUME NEW pattern \in ToSet(forbidden), rule.action = "allow", pattern.name \in rule.matches
        PROVE  Finding(rule.name, pattern.name, pattern.severity) \in ToSet(FlattenSeq(matched))
    <3>1. PICK k \in DOMAIN forbidden : pattern = forbidden[k]
      BY DEF ToSet
    <3>2. Finding(rule.name, pattern.name, pattern.severity) \in ToSet(matched[k])
      BY <2>3, <2>7, <3>1
    <3> QED
      BY <2>4, <2>5, <3>2
  <2> QED
    BY <2>6, <2>7
<1>3. rule.enabled \in BOOLEAN
  BY DEF Rules
<1> QED
  BY <1>1, <1>2, <1>3

\* The same for all rules of a policy.
LEMMA RulesAreReported ==
    ASSUME NEW rules \in Seq(Rules), NEW fields \in Seq(Titles), NEW forbidden \in Seq(Patterns)
    PROVE  /\ EnforceBaseline(rules, fields, forbidden) \in Seq(Reports)
           /\ \A rule \in ToSet(rules), pattern \in ToSet(forbidden) :
                 rule.enabled /\ rule.action = "allow" /\ pattern.name \in rule.matches =>
                    Finding(rule.name, pattern.name, pattern.severity)
                        \in ToSet(EnforceBaseline(rules, fields, forbidden))
<1> DEFINE parts == [i \in DOMAIN rules |-> RuleFindings(rules[i], fields, forbidden)]
<1>1. \A i \in DOMAIN rules : rules[i] \in Rules
  BY LenProperties, ElementOfSeq
<1>2. parts \in Seq(Seq(Reports)) /\ DOMAIN parts = DOMAIN rules
  <2>1. DOMAIN rules = 1..Len(rules) /\ Len(rules) \in Nat
    BY LenProperties
  <2>2. \A i \in 1..Len(rules) : parts[i] \in Seq(Reports)
    BY <1>1, <2>1, RuleIsReported
  <2> QED
    BY <2>1, <2>2, IsASeq
<1>3. ASSUME NEW rule \in ToSet(rules), NEW pattern \in ToSet(forbidden),
             rule.enabled, rule.action = "allow", pattern.name \in rule.matches
      PROVE  \E i \in DOMAIN parts :
                Finding(rule.name, pattern.name, pattern.severity) \in ToSet(parts[i])
  <2>1. PICK i \in DOMAIN rules : rule = rules[i]
    BY DEF ToSet
  <2>2. Finding(rule.name, pattern.name, pattern.severity) \in ToSet(parts[i])
    BY <1>1, <1>3, <2>1, RuleIsReported
  <2> QED
    BY <1>2, <2>2
<1>4. EnforceBaseline(rules, fields, forbidden) = FlattenSeq(parts)
  BY DEF EnforceBaseline
<1> HIDE DEF parts
<1> QED
  BY <1>2, <1>3, <1>4, FlattenProperties

-----------------------------------------------------------------------------
\* The controls of the policy, its findings, and the items they lead to.
InForce == Resolve(baseline, Environment(option, policy.environment))

Reported == ToSet(Findings(InForce))

Judged(f) == Item(Classify(f, Waiver(Key(f)), InForce, today), f)

WarningItems == {Item("warning", Finding(NoRule, w, "low")) : w \in ToSet(policy.warnings)}
JudgedItems  == {Judged(f) : f \in Reported}
FailedItems  == {Item("violation", Finding(NoRule, t.name, "critical"))
                 : t \in {u \in ToSet(Tests) : ~u.passed}}

\* The keys of exceptions that some finding has, and the items of the others.
NeededKeys  == {key \in ExceptionKeys : \E f \in Reported : Key(f) = key}
UnusedItems == {UnusedItem(key) : key \in ExceptionKeys \ NeededKeys}

\* Everything an item can be.
Verdicts == {"violation", "waived", "warning"}

Notes   == [rule : {NoRule}, title : Titles, severity : Severities]
Notices == [rule : STRING, title : {"Unused exception"}, severity : {"low"}, of : STRING]

CheckItems == [verdict : Verdicts, finding : Reports \cup Notes \cup Notices]

\* The verdict of a day, from what is given.
PassesOn(day) ==
    /\ \A f \in Reported : Classify(f, Waiver(Key(f)), InForce, day) # "violation"
    /\ \A t \in ToSet(Tests) : t.passed

\* The settings are those in force once they are loaded.
SettingsInv ==
    controls = IF phase \in {"start", "refused"} THEN Defaults ELSE InForce

\* Nothing is judged before there are findings.
IdleInv ==
    phase \in {"start", "refused", "enforce"} => items = <<>> /\ used = {}

\* A finding that is not left is judged, and its exception is used.
JudgeInv ==
    phase = "judge" =>
        /\ findings \in Seq(Reports) /\ ToSet(findings) \subseteq Reported
        /\ ToSet(items) \subseteq WarningItems \cup JudgedItems
        /\ used \subseteq NeededKeys
        /\ \A f \in Reported \ ToSet(findings) :
              Judged(f) \in ToSet(items) /\ (Key(f) \in ExceptionKeys => Key(f) \in used)

\* All findings and tests are judged.
ReportInv ==
    phase = "report" =>
        /\ ToSet(items) \subseteq WarningItems \cup JudgedItems \cup FailedItems
        /\ JudgedItems \cup FailedItems \subseteq ToSet(items)
        /\ used = NeededKeys

\* So are the exceptions.
DoneInv ==
    phase = "done" =>
        /\ ToSet(items) \subseteq WarningItems \cup JudgedItems \cup FailedItems \cup UnusedItems
        /\ JudgedItems \cup FailedItems \cup UnusedItems \subseteq ToSet(items)

\* There is one verdict for every day, and it is the verdict of that day.
HistoryInv ==
    /\ Len(verdicts) = IF phase = "done" THEN today ELSE today - 1
    /\ \A i \in DOMAIN verdicts : verdicts[i] = PassesOn(i)

\* The inductive invariant.
CheckInv ==
    /\ TypeOK
    /\ items \in Seq(CheckItems)
    /\ SettingsInv
    /\ IdleInv
    /\ JudgeInv
    /\ ReportInv
    /\ DoneInv
    /\ HistoryInv

-----------------------------------------------------------------------------
\* What a check works on depends on nothing but what it is given.
LEMMA GivenFrame ==
    ASSUME UNCHANGED given
    PROVE  /\ InForce' = InForce /\ Reported' = Reported /\ Tests' = Tests
           /\ WarningItems' = WarningItems /\ FailedItems' = FailedItems
           /\ ExceptionKeys' = ExceptionKeys /\ NeededKeys' = NeededKeys
           /\ UnusedItems' = UnusedItems
<1>1. policy' = policy /\ baseline' = baseline /\ option' = option /\ request' = request
  BY DEF given
<1>2. InForce' = InForce
  BY <1>1 DEF InForce
<1>3. Reported' = Reported
  BY <1>1, <1>2 DEF Reported, Findings
<1>4. Tests' = Tests
  BY <1>1 DEF Tests
<1>5. WarningItems' = WarningItems
  BY <1>1 DEF WarningItems
<1>6. FailedItems' = FailedItems
  BY <1>4 DEF FailedItems
<1>7. ExceptionKeys' = ExceptionKeys
  BY <1>1 DEF ExceptionKeys
<1>8. NeededKeys' = NeededKeys
  BY <1>3, <1>7 DEF NeededKeys
<1>9. UnusedItems' = UnusedItems
  BY <1>7, <1>8 DEF UnusedItems
<1> QED
  BY <1>2, <1>3, <1>4, <1>5, <1>6, <1>7, <1>8, <1>9

\* So does the verdict on a finding on a day.
LEMMA VerdictFrame ==
    ASSUME UNCHANGED given, NEW f, NEW day
    PROVE  Classify(f, Waiver(Key(f)), InForce, day)' = Classify(f, Waiver(Key(f)), InForce, day)
<1>1. policy' = policy /\ baseline' = baseline /\ request' = request /\ InForce' = InForce
  BY GivenFrame DEF given
<1>2. Waiver(Key(f))' = Waiver(Key(f))
  BY <1>1 DEF Waiver, Key
<1>3. \A severity, c : Blocking(severity, c)' = Blocking(severity, c)
  BY <1>1 DEF Blocking, Threshold
<1> QED
  BY <1>1, <1>2, <1>3 DEF Classify, Usable

\* The items of the findings depend on the day as well.
LEMMA DayFrame ==
    ASSUME UNCHANGED <<given, today>>
    PROVE  (\A f : Judged(f)' = Judged(f)) /\ JudgedItems' = JudgedItems
<1>1. UNCHANGED given /\ today' = today
  OBVIOUS
<1>2. ASSUME NEW f PROVE Judged(f)' = Judged(f)
  <2>1. Classify(f, Waiver(Key(f)), InForce, today)' = Classify(f, Waiver(Key(f)), InForce, today)
    BY <1>1, VerdictFrame
  <2> QED
    BY <2>1 DEF Judged, Item
<1>3. Reported' = Reported
  BY <1>1, GivenFrame
<1>4. JudgedItems' = JudgedItems
  BY <1>2, <1>3 DEF JudgedItems
<1> QED
  BY <1>2, <1>4

\* Whether the policy passes on a day depends only on what is given.
LEMMA PassesFrame ==
    ASSUME UNCHANGED given, NEW day
    PROVE  PassesOn(day)' = PassesOn(day)
<1>1. Reported' = Reported /\ Tests' = Tests
  BY GivenFrame
<1>2. \A f : Classify(f, Waiver(Key(f)), InForce, day)' = Classify(f, Waiver(Key(f)), InForce, day)
  BY VerdictFrame
<1> QED
  BY <1>1, <1>2 DEF PassesOn

-----------------------------------------------------------------------------
\* A policy and a baseline are what PoliciesAssumption says.
LEMMA GivenTypes ==
    ASSUME TypeOK
    PROVE  /\ policy.rules \in Seq(Rules) /\ policy.analysis \in Seq(Reports)
           /\ policy.exceptions \in Seq([rule : STRING, title : STRING, expires : Nat])
           /\ policy.warnings \in Seq(Titles) /\ policy.tests \in Seq(Results)
           /\ baseline \in Baselines
BY PoliciesAssumption DEF TypeOK

\* The controls in force, the findings and the tests have their types.
LEMMA ReportedTypes ==
    ASSUME TypeOK
    PROVE  /\ ControlsOK(InForce)
           /\ Findings(InForce) \in Seq(Reports) /\ Tests \in Seq(Results)
           /\ Reported \subseteq Reports
<1> DEFINE e == Environment(option, policy.environment)
<1>1. ControlsOK(InForce)
  BY GivenTypes, ResolvedOK DEF InForce
<1>2. ResolveJoined(baseline, e, "forbidden") \in Seq(Patterns)
  <2>1. \A layer \in LayerModels : layer["forbidden"] \in Seq(Patterns)
    BY DEF LayerModels
  <2> QED
    BY <2>1, GivenTypes, JoinedKeepsDefaults
<1>3. ResolveJoined(baseline, e, "tests") \in Seq(Results)
  <2>1. \A layer \in LayerModels : layer["tests"] \in Seq(Results)
    BY DEF LayerModels
  <2> QED
    BY <2>1, GivenTypes, JoinedKeepsDefaults
<1>4. InForce.require_fields \in Seq(Titles)
  BY <1>1 DEF ControlsOK
<1>5. EnforceBaseline(policy.rules, InForce.require_fields, ResolveJoined(baseline, e, "forbidden"))
         \in Seq(Reports)
  BY <1>2, <1>4, GivenTypes, RulesAreReported
<1>6. Findings(InForce) \in Seq(Reports)
  BY <1>5, GivenTypes, ElementsOfConcat DEF Findings
<1>7. Tests \in Seq(Results)
  BY <1>3, GivenTypes, ElementsOfConcat DEF Tests
<1>8. Reported \subseteq Reports
  <2>1. \A i \in DOMAIN Findings(InForce) : Findings(InForce)[i] \in Reports
    BY <1>6, LenProperties, ElementOfSeq
  <2> QED
    BY <2>1 DEF Reported, ToSet
<1> QED
  BY <1>1, <1>6, <1>7, <1>8

\* _classify gives one of the three verdicts.
LEMMA JudgedIsAnItem ==
    ASSUME NEW f \in Reports
    PROVE  Judged(f) \in CheckItems
<1>1. Classify(f, Waiver(Key(f)), InForce, today) \in Verdicts
  BY DEF Classify, Verdicts
<1> QED
  BY <1>1 DEF Judged, Item, CheckItems

\* Items that are about no rule: validation warnings and failed tests.
LEMMA NoteIsAnItem ==
    ASSUME NEW verdict \in Verdicts, NEW title \in Titles, NEW severity \in Severities
    PROVE  Item(verdict, Finding(NoRule, title, severity)) \in CheckItems
<1>1. Finding(NoRule, title, severity) \in Notes
  BY DEF Finding, Notes
<1> QED
  BY <1>1 DEF Item, CheckItems

\* A check that has not begun.
LEMMA InitCorrect == Init => CheckInv
<1> SUFFICES ASSUME Init PROVE CheckInv
  OBVIOUS
<1>1. TypeOK
  <2>1. /\ policy \in Policies /\ baseline \in Baselines
        /\ option \in Options /\ request \in Requests
        /\ phase \in {"start", "refused", "enforce", "judge", "report", "done"}
        /\ used \subseteq ExceptionKeys
    BY DEF Init
  <2>2. today \in 1..MaxDay /\ verdicts \in Seq(BOOLEAN) /\ Len(verdicts) <= MaxDay
    BY MaxDayAssumption DEF Init
  <2>3. ControlsOK(controls)
    BY DefaultsOK DEF Init
  <2>4. \A x \in ToSet(items) : x.verdict \in {"violation", "waived", "warning"}
    BY DEF Init, ToSet
  <2> QED
    BY <2>1, <2>2, <2>3, <2>4 DEF TypeOK, ControlsOK
<1>2. items \in Seq(CheckItems)
  BY DEF Init
<1>3. SettingsInv /\ IdleInv /\ JudgeInv /\ ReportInv /\ DoneInv
  BY DEF Init, SettingsInv, IdleInv, JudgeInv, ReportInv, DoneInv
<1>4. HistoryInv
  BY DEF Init, HistoryInv
<1> QED
  BY <1>1, <1>2, <1>3, <1>4 DEF CheckInv

\* What most actions leave alone.
LEMMA GivenKept ==
    ASSUME TypeOK, UNCHANGED <<given, verdicts>>
    PROVE  /\ policy' \in Policies /\ baseline' \in Baselines
           /\ option' \in Options /\ request' \in Requests
           /\ verdicts' \in Seq(BOOLEAN) /\ Len(verdicts') <= MaxDay
           /\ (\A i \in DOMAIN verdicts : verdicts[i] = PassesOn(i))
                 => (\A i \in DOMAIN verdicts : verdicts[i] = PassesOn(i))'
<1>1. \A day : PassesOn(day)' = PassesOn(day)
  BY PassesFrame
<1>2. verdicts' = verdicts
  OBVIOUS
<1> QED
  BY <1>1, <1>2 DEF TypeOK, given

\* Every item of a report has one of the three verdicts.
LEMMA ItemsHaveVerdicts ==
    ASSUME NEW s \in Seq(CheckItems)
    PROVE  \A x \in ToSet(s) : x.verdict \in {"violation", "waived", "warning"}
<1>1. \A i \in DOMAIN s : s[i] \in CheckItems
  BY LenProperties, ElementOfSeq
<1> QED
  BY <1>1 DEF ToSet, CheckItems, Verdicts

\* A check that raises judges nothing.
LEMMA RefuseCorrect == CheckInv /\ Refuse => CheckInv'
<1> SUFFICES ASSUME CheckInv, Refuse PROVE CheckInv'
  OBVIOUS
<1>1. /\ UNCHANGED given /\ UNCHANGED <<given, verdicts>>
      /\ phase = "start" /\ phase' = "refused"
      /\ UNCHANGED <<today, controls, findings, items, used>>
  BY DEF Refuse
<1>2. TypeOK /\ items \in Seq(CheckItems) /\ SettingsInv /\ IdleInv /\ HistoryInv
  BY DEF CheckInv
<1>3. TypeOK'
  <2>1. ExceptionKeys' = ExceptionKeys
    BY <1>1, GivenFrame
  <2> QED
    BY <1>1, <1>2, <2>1, GivenKept DEF TypeOK
<1>4. SettingsInv' /\ IdleInv' /\ JudgeInv' /\ ReportInv' /\ DoneInv'
  BY <1>1, <1>2 DEF SettingsInv, IdleInv, JudgeInv, ReportInv, DoneInv
<1>5. HistoryInv'
  BY <1>1, <1>2, GivenKept DEF HistoryInv
<1> QED
  BY <1>1, <1>2, <1>3, <1>4, <1>5 DEF CheckInv

\* From here on the controls are those in force.
LEMMA LoadControlsCorrect == CheckInv /\ LoadControls => CheckInv'
<1> SUFFICES ASSUME CheckInv, LoadControls PROVE CheckInv'
  OBVIOUS
<1>1. /\ UNCHANGED given /\ UNCHANGED <<given, verdicts>>
      /\ phase = "start" /\ phase' = "enforce"
      /\ controls' = InForce
      /\ UNCHANGED <<today, findings, items, used>>
  BY DEF LoadControls, InForce
<1>2. TypeOK /\ items \in Seq(CheckItems) /\ IdleInv /\ HistoryInv
  BY DEF CheckInv
<1>3. InForce' = InForce /\ ExceptionKeys' = ExceptionKeys
  BY <1>1, GivenFrame
<1>4. TypeOK'
  <2>1. ControlsOK(controls')
    BY <1>1, <1>2, ReportedTypes
  <2> QED
    BY <1>1, <1>2, <1>3, <2>1, GivenKept DEF TypeOK, ControlsOK
<1>5. SettingsInv' /\ IdleInv' /\ JudgeInv' /\ ReportInv' /\ DoneInv'
  BY <1>1, <1>2, <1>3 DEF SettingsInv, IdleInv, JudgeInv, ReportInv, DoneInv
<1>6. HistoryInv'
  BY <1>1, <1>2, GivenKept DEF HistoryInv
<1> QED
  BY <1>1, <1>2, <1>4, <1>5, <1>6 DEF CheckInv

\* All findings are left to judge, and the warnings are items.
LEMMA EnforceCorrect == CheckInv /\ Enforce => CheckInv'
<1> SUFFICES ASSUME CheckInv, Enforce PROVE CheckInv'
  OBVIOUS
<1>1. /\ UNCHANGED given /\ UNCHANGED <<given, verdicts>>
      /\ phase = "enforce" /\ phase' = "judge"
      /\ findings' = Findings(controls)
      /\ items' = [i \in DOMAIN policy.warnings |->
                      Item("warning", Finding(NoRule, policy.warnings[i], "low"))]
      /\ UNCHANGED <<today, controls, used>>
  BY DEF Enforce
<1>2. TypeOK /\ SettingsInv /\ IdleInv /\ HistoryInv
  BY DEF CheckInv
<1>3. /\ InForce' = InForce /\ ExceptionKeys' = ExceptionKeys /\ Reported' = Reported
      /\ WarningItems' = WarningItems /\ controls = InForce /\ used = {}
  BY <1>1, <1>2, GivenFrame DEF SettingsInv, IdleInv
<1>4. items' \in Seq(CheckItems) /\ ToSet(items') \subseteq WarningItems
  <2>1. DOMAIN policy.warnings = 1..Len(policy.warnings) /\ Len(policy.warnings) \in Nat
    BY <1>2, GivenTypes, LenProperties
  <2>2. \A i \in 1..Len(policy.warnings) : policy.warnings[i] \in Titles
    BY <1>2, <2>1, GivenTypes, ElementOfSeq
  <2>3. \A i \in 1..Len(policy.warnings) :
           Item("warning", Finding(NoRule, policy.warnings[i], "low")) \in CheckItems
    BY <2>2, NoteIsAnItem DEF Verdicts, Severities
  <2>4. items' \in Seq(CheckItems)
    <3> DEFINE note(i) == Item("warning", Finding(NoRule, policy.warnings[i], "low"))
    <3>1. items' = [i \in 1..Len(policy.warnings) |-> note(i)]
      BY <1>1, <2>1
    <3>2. \A i \in 1..Len(policy.warnings) : note(i) \in CheckItems
      BY <2>3
    <3> HIDE DEF note
    <3> QED
      BY <2>1, <3>1, <3>2, IsASeq
  <2>5. ToSet(items') \subseteq WarningItems
    BY <1>1 DEF ToSet, WarningItems
  <2> QED
    BY <2>4, <2>5
<1>5. TypeOK'
  <2>1. \A x \in ToSet(items') : x.verdict \in {"violation", "waived", "warning"}
    BY <1>4, ItemsHaveVerdicts
  <2> QED
    BY <1>1, <1>2, <1>3, <2>1, GivenKept DEF TypeOK
<1>6. JudgeInv'
  <2>1. findings' \in Seq(Reports) /\ ToSet(findings') = Reported
    BY <1>1, <1>2, <1>3, ReportedTypes DEF Reported
  <2> QED
    BY <1>1, <1>3, <1>4, <2>1 DEF JudgeInv
<1>7. SettingsInv' /\ IdleInv' /\ ReportInv' /\ DoneInv'
  BY <1>1, <1>3 DEF SettingsInv, IdleInv, ReportInv, DoneInv
<1>8. HistoryInv'
  BY <1>1, <1>2, GivenKept DEF HistoryInv
<1> QED
  BY <1>4, <1>5, <1>6, <1>7, <1>8 DEF CheckInv

\* The head of the findings is judged: it moves from what is left to the items,
\* and its key to the used ones if it has an exception.
LEMMA JudgeCorrect == CheckInv /\ Judge => CheckInv'
<1> SUFFICES ASSUME CheckInv, Judge PROVE CheckInv'
  OBVIOUS
<1> DEFINE f == Head(findings)
<1>1. /\ UNCHANGED given /\ UNCHANGED <<given, verdicts>> /\ UNCHANGED <<given, today>>
      /\ phase = "judge" /\ phase' = "judge" /\ findings # <<>>
      /\ items' = Append(items, Item(Classify(f, Waiver(Key(f)), controls, today), f))
      /\ used' = IF Key(f) \in ExceptionKeys THEN used \cup {Key(f)} ELSE used
      /\ findings' = Tail(findings)
      /\ UNCHANGED <<today, phase, controls>>
  BY DEF Judge
<1>2. TypeOK /\ items \in Seq(CheckItems) /\ SettingsInv /\ JudgeInv /\ HistoryInv
  BY DEF CheckInv
<1>3. /\ InForce' = InForce /\ ExceptionKeys' = ExceptionKeys /\ Reported' = Reported
      /\ WarningItems' = WarningItems /\ NeededKeys' = NeededKeys /\ controls = InForce
  BY <1>1, <1>2, GivenFrame DEF SettingsInv
<1>4. JudgedItems' = JudgedItems /\ \A g : Judged(g)' = Judged(g)
  BY <1>1, DayFrame
<1>5. /\ findings \in Seq(Reports) /\ ToSet(findings) \subseteq Reported
      /\ ToSet(items) \subseteq WarningItems \cup JudgedItems
      /\ used \subseteq NeededKeys
      /\ \A g \in Reported \ ToSet(findings) :
            Judged(g) \in ToSet(items) /\ (Key(g) \in ExceptionKeys => Key(g) \in used)
  BY <1>1, <1>2 DEF JudgeInv
<1>6. /\ f \in Reports /\ Tail(findings) \in Seq(Reports)
      /\ ToSet(findings) = {f} \cup ToSet(Tail(findings))
  BY <1>1, <1>5, HeadAndTail
<1> HIDE DEF f
<1>7. items' = Append(items, Judged(f))
  BY <1>1, <1>3 DEF Judged
<1>8. items' \in Seq(CheckItems) /\ ToSet(items') = ToSet(items) \cup {Judged(f)}
  BY <1>2, <1>6, <1>7, JudgedIsAnItem, AppendElements
<1>9. Judged(f) \in JudgedItems /\ f \in Reported
  BY <1>5, <1>6 DEF JudgedItems
<1>10. used' \subseteq NeededKeys /\ used \subseteq used'
       /\ (Key(f) \in ExceptionKeys => Key(f) \in used')
  BY <1>1, <1>5, <1>9 DEF NeededKeys
<1>11. JudgeInv'
  <2>1. findings' \in Seq(Reports) /\ ToSet(findings') \subseteq Reported
    BY <1>1, <1>5, <1>6
  <2>2. ToSet(items') \subseteq WarningItems \cup JudgedItems
    BY <1>5, <1>8, <1>9
  <2>3. ASSUME NEW g \in Reported \ ToSet(findings')
        PROVE  Judged(g) \in ToSet(items') /\ (Key(g) \in ExceptionKeys => Key(g) \in used')
    <3>1. CASE g = f
      BY <1>8, <1>10, <3>1
    <3>2. CASE g # f
      BY <1>1, <1>5, <1>6, <1>8, <1>10, <3>2
    <3> QED
      BY <3>1, <3>2
  <2>4. \A g : Key(g)' = Key(g)
    BY DEF Key
  <2> QED
    BY <1>3, <1>4, <1>10, <2>1, <2>2, <2>3, <2>4 DEF JudgeInv
<1>12. TypeOK'
  <2>1. \A x \in ToSet(items') : x.verdict \in {"violation", "waived", "warning"}
    BY <1>8, ItemsHaveVerdicts
  <2>2. used' \subseteq ExceptionKeys
    BY <1>10 DEF NeededKeys
  <2> QED
    BY <1>1, <1>2, <1>3, <2>1, <2>2, GivenKept DEF TypeOK
<1>13. SettingsInv' /\ IdleInv' /\ ReportInv' /\ DoneInv'
  BY <1>1, <1>3 DEF SettingsInv, IdleInv, ReportInv, DoneInv
<1>14. HistoryInv'
  BY <1>1, <1>2, GivenKept DEF HistoryInv
<1> QED
  BY <1>8, <1>11, <1>12, <1>13, <1>14 DEF CheckInv

\* What JudgeTests adds are the failed tests.
LEMMA FailedTestsAreAdded ==
    ASSUME TypeOK
    PROVE  Failures \in Seq(CheckItems) /\ ToSet(Failures) = FailedItems
<1> DEFINE failure(i) == Item("violation", Finding(NoRule, Tests[i].name, "critical"))
           parts == [i \in DOMAIN Tests |-> When(~Tests[i].passed, failure(i))]
<1>1. Tests \in Seq(Results) /\ DOMAIN Tests = 1..Len(Tests) /\ Len(Tests) \in Nat
  BY ReportedTypes, LenProperties
<1>2. \A i \in DOMAIN Tests : Tests[i] \in Results
  BY <1>1, ElementOfSeq
<1>3. \A i \in DOMAIN Tests : failure(i) \in CheckItems
  <2>1. \A i \in DOMAIN Tests : Tests[i].name \in Titles
    BY <1>2 DEF Results
  <2> QED
    BY <2>1, NoteIsAnItem DEF Verdicts, Severities
<1>4. Failures = FlattenSeq(parts)
  BY DEF Failures
<1> HIDE DEF failure
<1>5. ASSUME NEW i \in DOMAIN Tests
      PROVE  /\ parts[i] \in Seq(CheckItems)
             /\ \A x : x \in ToSet(parts[i]) <=> ~Tests[i].passed /\ x = failure(i)
  <2>1. CASE Tests[i].passed
    BY <2>1 DEF When, ToSet
  <2>2. CASE ~Tests[i].passed
    <3>1. parts[i] = <<failure(i)>>
      BY <2>2 DEF When
    <3> HIDE DEF parts
    <3>2. \A x : x \in ToSet(parts[i]) <=> x = failure(i)
      BY <3>1 DEF ToSet
    <3>3. parts[i] \in Seq(CheckItems)
      BY <1>3, <3>1
    <3> QED
      BY <2>2, <3>2, <3>3
  <2> QED
    BY <2>1, <2>2
<1>6. parts \in Seq(Seq(CheckItems)) /\ DOMAIN parts = DOMAIN Tests
  <2>1. \A i \in 1..Len(Tests) : parts[i] \in Seq(CheckItems)
    BY <1>1, <1>5
  <2> QED
    BY <1>1, <2>1, IsASeq
<1> HIDE DEF parts
<1>7. /\ FlattenSeq(parts) \in Seq(CheckItems)
      /\ \A x : x \in ToSet(FlattenSeq(parts)) <=> \E i \in DOMAIN parts : x \in ToSet(parts[i])
  BY <1>6, FlattenProperties
<1>8. \A x : x \in ToSet(FlattenSeq(parts)) <=>
                \E i \in DOMAIN Tests : ~Tests[i].passed /\ x = failure(i)
  BY <1>5, <1>6, <1>7
<1>9. ToSet(FlattenSeq(parts)) = FailedItems
  <2>1. \A x : x \in FailedItems <=>
                  \E i \in DOMAIN Tests : ~Tests[i].passed /\ x = failure(i)
    BY DEF FailedItems, ToSet, failure
  <2> QED
    BY <1>8, <2>1
<1> QED
  BY <1>7, <1>9, <1>4

\* No finding is left, so that all are items, and the failed tests become items.
LEMMA JudgeTestsCorrect == CheckInv /\ JudgeTests => CheckInv'
<1> SUFFICES ASSUME CheckInv, JudgeTests PROVE CheckInv'
  OBVIOUS
<1>1. /\ UNCHANGED given /\ UNCHANGED <<given, verdicts>> /\ UNCHANGED <<given, today>>
      /\ phase = "judge" /\ phase' = "report" /\ findings = <<>>
      /\ items' = items \o Failures
      /\ UNCHANGED <<today, controls, findings, used>>
  BY DEF JudgeTests
<1>2. TypeOK /\ items \in Seq(CheckItems) /\ SettingsInv /\ JudgeInv /\ HistoryInv
  BY DEF CheckInv
<1>3. /\ InForce' = InForce /\ ExceptionKeys' = ExceptionKeys /\ Reported' = Reported
      /\ WarningItems' = WarningItems /\ NeededKeys' = NeededKeys
      /\ FailedItems' = FailedItems /\ JudgedItems' = JudgedItems
  BY <1>1, GivenFrame, DayFrame
<1>4. items' \in Seq(CheckItems) /\ ToSet(items') = ToSet(items) \cup FailedItems
  BY <1>1, <1>2, FailedTestsAreAdded, ElementsOfConcat
<1>5. /\ ToSet(items) \subseteq WarningItems \cup JudgedItems
      /\ JudgedItems \subseteq ToSet(items) /\ used = NeededKeys
  <2>1. ToSet(findings) = {}
    BY <1>1 DEF ToSet
  <2> QED
    BY <1>1, <1>2, <2>1 DEF JudgeInv, JudgedItems, NeededKeys
<1>6. ReportInv'
  BY <1>1, <1>3, <1>4, <1>5 DEF ReportInv
<1>7. TypeOK'
  <2>1. \A x \in ToSet(items') : x.verdict \in {"violation", "waived", "warning"}
    BY <1>4, ItemsHaveVerdicts
  <2> QED
    BY <1>1, <1>2, <1>3, <2>1, GivenKept DEF TypeOK
<1>8. SettingsInv' /\ IdleInv' /\ JudgeInv' /\ DoneInv'
  BY <1>1, <1>2, <1>3 DEF SettingsInv, IdleInv, JudgeInv, DoneInv
<1>9. HistoryInv'
  BY <1>1, <1>2, GivenKept DEF HistoryInv
<1> QED
  BY <1>4, <1>6, <1>7, <1>8, <1>9 DEF CheckInv

\* A verdict depends on nothing but what is given and the day.
LEMMA PassedIsPassesOn ==
    ASSUME TypeOK, NEW notices,
           ToSet(items) \subseteq WarningItems \cup JudgedItems \cup FailedItems \cup notices,
           JudgedItems \cup FailedItems \subseteq ToSet(items),
           \A x \in notices : x.verdict = "warning"
    PROVE  Passed <=> PassesOn(today)
<1>1. \A x \in WarningItems : x.verdict = "warning"
  <2>1. \A f : Item("warning", f).verdict = "warning"
    BY DEF Item
  <2> QED
    BY <2>1 DEF WarningItems
<1>2. \A f : Judged(f).verdict = Classify(f, Waiver(Key(f)), InForce, today)
  BY DEF Judged, Item
<1>3. ASSUME Passed PROVE PassesOn(today)
  <2>1. ASSUME NEW f \in Reported
        PROVE  Classify(f, Waiver(Key(f)), InForce, today) # "violation"
    <3>1. Judged(f) \in ToSet(items)
      BY DEF JudgedItems
    <3> QED
      BY <1>2, <1>3, <3>1 DEF Passed
  <2>2. ASSUME NEW t \in ToSet(Tests), ~t.passed PROVE FALSE
    <3>1. Item("violation", Finding(NoRule, t.name, "critical")) \in ToSet(items)
      BY <2>2 DEF FailedItems
    <3> QED
      BY <1>3, <3>1 DEF Passed, Item
  <2> QED
    BY <2>1, <2>2 DEF PassesOn
<1>4. ASSUME PassesOn(today) PROVE Passed
  <2>1. \A x \in JudgedItems : x.verdict # "violation"
    BY <1>2, <1>4 DEF JudgedItems, PassesOn
  <2>2. FailedItems = {}
    BY <1>4 DEF FailedItems, PassesOn
  <2> QED
    BY <1>1, <2>1, <2>2 DEF Passed
<1> QED
  BY <1>3, <1>4

\* A policy has finitely many exceptions.
LEMMA ExceptionKeysAreFinite ==
    ASSUME TypeOK
    PROVE  IsFiniteSet(ExceptionKeys) /\ \A key \in ExceptionKeys : key \in STRING \X STRING
<1> DEFINE xs == policy.exceptions
           key == [i \in 1..Len(xs) |-> Key(xs[i])]
<1>1. xs \in Seq([rule : STRING, title : STRING, expires : Nat])
  BY GivenTypes
<1>2. DOMAIN xs = 1..Len(xs) /\ Len(xs) \in Nat
  BY <1>1, LenProperties
<1>3. \A i \in 1..Len(xs) : xs[i] \in [rule : STRING, title : STRING, expires : Nat]
  BY <1>1, <1>2, ElementOfSeq
<1>4. ExceptionKeys = {key[i] : i \in 1..Len(xs)}
  BY <1>2 DEF ExceptionKeys, ToSet
<1>5. IsFiniteSet(1..Len(xs))
  BY <1>2, FS_Interval
<1>6. \A i \in 1..Len(xs) : key[i] \in STRING \X STRING
  BY <1>3 DEF Key
<1>7. key \in Surjection(1..Len(xs), ExceptionKeys)
  <2> HIDE DEF xs
  <2>1. DOMAIN key = 1..Len(xs)
    OBVIOUS
  <2>2. \A i \in 1..Len(xs) : key[i] \in ExceptionKeys
    BY <1>4
  <2>3. \A x \in ExceptionKeys : \E i \in 1..Len(xs) : key[i] = x
    BY <1>4
  <2>4. key \in [1..Len(xs) -> ExceptionKeys]
    BY <2>2
  <2> QED
    BY <2>3, <2>4 DEF Surjection
<1>8. IsFiniteSet(ExceptionKeys)
  BY <1>5, <1>7, FS_Surjection
<1>9. \A k \in ExceptionKeys : k \in STRING \X STRING
  BY <1>4, <1>6
<1> QED
  BY <1>8, <1>9

\* What Report adds are the unused exceptions.
LEMMA UnusedItemsAreAdded ==
    ASSUME TypeOK
    PROVE  SetToSeq(UnusedItems) \in Seq(CheckItems) /\ ToSet(SetToSeq(UnusedItems)) = UnusedItems
<1> DEFINE keys == ExceptionKeys \ NeededKeys
           image == [key \in keys |-> UnusedItem(key)]
<1>1. IsFiniteSet(keys)
  BY ExceptionKeysAreFinite, FS_Subset
<1>2. image \in Surjection(keys, UnusedItems)
  BY DEF UnusedItems, Surjection
<1>3. IsFiniteSet(UnusedItems)
  BY <1>1, <1>2, FS_Surjection
<1>4. \A key \in STRING \X STRING : UnusedItem(key) \in CheckItems
  BY DEF UnusedItem, Item, CheckItems, Verdicts, Notices
<1>5. UnusedItems \subseteq CheckItems
  BY <1>4, ExceptionKeysAreFinite DEF UnusedItems
<1>6. SetToSeq(UnusedItems) \in Seq(UnusedItems) /\ ToSet(SetToSeq(UnusedItems)) = UnusedItems
  BY <1>3, SetToSeqElements
<1>7. SetToSeq(UnusedItems) \in Seq(CheckItems)
  <2> DEFINE s == SetToSeq(UnusedItems)
  <2> HIDE DEF s
  <2>1. s \in Seq(UnusedItems) => s \in Seq(CheckItems)
    BY <1>5
  <2> QED
    BY <1>6, <2>1 DEF s
<1> QED
  BY <1>6, <1>7

\* The report is complete, and its verdict is that of the day.
LEMMA ReportCorrect == CheckInv /\ Report => CheckInv'
<1> SUFFICES ASSUME CheckInv, Report PROVE CheckInv'
  OBVIOUS
<1>1. /\ UNCHANGED given /\ UNCHANGED <<given, today>>
      /\ phase = "report" /\ phase' = "done"
      /\ items' = items \o SetToSeq({UnusedItem(key) : key \in ExceptionKeys \ used})
      /\ verdicts' = Append(verdicts, Passed)
      /\ UNCHANGED <<today, controls, findings, used>>
  BY DEF Report
<1>2. TypeOK /\ items \in Seq(CheckItems) /\ SettingsInv /\ ReportInv /\ HistoryInv
  BY DEF CheckInv
<1>3. /\ InForce' = InForce /\ ExceptionKeys' = ExceptionKeys
      /\ WarningItems' = WarningItems /\ UnusedItems' = UnusedItems
      /\ FailedItems' = FailedItems /\ JudgedItems' = JudgedItems
  BY <1>1, GivenFrame, DayFrame
<1>4. /\ ToSet(items) \subseteq WarningItems \cup JudgedItems \cup FailedItems
      /\ JudgedItems \cup FailedItems \subseteq ToSet(items)
      /\ used = NeededKeys
  BY <1>1, <1>2 DEF ReportInv
<1>5. items' = items \o SetToSeq(UnusedItems)
  BY <1>1, <1>4 DEF UnusedItems
<1>6. items' \in Seq(CheckItems) /\ ToSet(items') = ToSet(items) \cup UnusedItems
  BY <1>2, <1>5, UnusedItemsAreAdded, ElementsOfConcat
<1>7. DoneInv'
  BY <1>1, <1>3, <1>4, <1>6 DEF DoneInv
<1>8. Passed = PassesOn(today)
  <2>1. /\ ToSet(items) \subseteq WarningItems \cup JudgedItems \cup FailedItems \cup {}
        /\ \A x \in {} : x.verdict = "warning"
    BY <1>4
  <2>2. Passed <=> PassesOn(today)
    BY <1>2, <1>4, <2>1, PassedIsPassesOn
  <2>3. Passed \in BOOLEAN /\ PassesOn(today) \in BOOLEAN
    BY DEF Passed, PassesOn
  <2> QED
    BY <2>2, <2>3
<1>9. Len(verdicts) = today - 1 /\ \A i \in DOMAIN verdicts : verdicts[i] = PassesOn(i)
  BY <1>1, <1>2 DEF HistoryInv
<1>10. /\ verdicts' \in Seq(BOOLEAN) /\ Len(verdicts') = today
       /\ \A i \in 1..(today - 1) : verdicts'[i] = verdicts[i]
       /\ verdicts'[today] = Passed
  <2>1. verdicts \in Seq(BOOLEAN) /\ today \in Nat /\ Passed \in BOOLEAN
    BY <1>2, MaxDayAssumption DEF TypeOK, Passed
  <2> QED
    BY <1>1, <1>9, <2>1, AppendProperties
<1>11. HistoryInv'
  <2>1. \A day : PassesOn(day)' = PassesOn(day)
    BY <1>1, PassesFrame
  <2>2. DOMAIN verdicts' = 1..today /\ DOMAIN verdicts = 1..(today - 1)
    BY <1>2, <1>9, <1>10, LenProperties DEF TypeOK
  <2>3. today \in Nat \ {0}
    BY <1>2, MaxDayAssumption DEF TypeOK
  <2>4. ASSUME NEW i \in DOMAIN verdicts' PROVE verdicts'[i] = PassesOn(i)
    <3>1. CASE i = today
      BY <1>8, <1>10, <3>1
    <3>2. CASE i # today
      <4>1. i \in 1..(today - 1)
        BY <2>2, <2>3, <3>2
      <4> QED
        BY <1>9, <1>10, <2>2, <4>1
    <3> QED
      BY <3>1, <3>2
  <2> QED
    BY <1>1, <1>10, <2>1, <2>4 DEF HistoryInv
<1>12. TypeOK'
  <2>1. \A x \in ToSet(items') : x.verdict \in {"violation", "waived", "warning"}
    BY <1>6, ItemsHaveVerdicts
  <2>2. Len(verdicts') <= MaxDay
    BY <1>2, <1>10, MaxDayAssumption DEF TypeOK
  <2> QED
    BY <1>1, <1>2, <1>3, <1>10, <2>1, <2>2 DEF TypeOK, given
<1>13. SettingsInv' /\ IdleInv' /\ JudgeInv' /\ ReportInv'
  BY <1>1, <1>2, <1>3 DEF SettingsInv, IdleInv, JudgeInv, ReportInv
<1> QED
  BY <1>6, <1>7, <1>11, <1>12, <1>13 DEF CheckInv

\* A new check of the same files begins, and the history stays.
LEMMA NextDayCorrect == CheckInv /\ NextDay => CheckInv'
<1> SUFFICES ASSUME CheckInv, NextDay PROVE CheckInv'
  OBVIOUS
<1>1. /\ UNCHANGED given /\ UNCHANGED <<given, verdicts>>
      /\ phase = "done" /\ phase' = "start"
      /\ today < MaxDay /\ today' = today + 1
      /\ items' = <<>> /\ used' = {} /\ controls' = Defaults
  BY DEF NextDay
<1>2. TypeOK /\ HistoryInv
  BY DEF CheckInv
<1>3. TypeOK'
  <2>1. today' \in 1..MaxDay
    BY <1>1, <1>2, MaxDayAssumption DEF TypeOK
  <2>2. ControlsOK(controls')
    BY <1>1, DefaultsOK
  <2>3. \A x \in ToSet(items') : x.verdict \in {"violation", "waived", "warning"}
    BY <1>1 DEF ToSet
  <2>4. used' \subseteq ExceptionKeys'
    BY <1>1
  <2> QED
    BY <1>1, <1>2, <2>1, <2>2, <2>3, <2>4, GivenKept DEF TypeOK, ControlsOK
<1>4. items' \in Seq(CheckItems)
  BY <1>1
<1>5. SettingsInv' /\ IdleInv' /\ JudgeInv' /\ ReportInv' /\ DoneInv'
  BY <1>1 DEF SettingsInv, IdleInv, JudgeInv, ReportInv, DoneInv
<1>6. HistoryInv'
  <2>1. today \in Nat
    BY <1>2, MaxDayAssumption DEF TypeOK
  <2> QED
    BY <1>1, <1>2, <2>1, GivenKept DEF HistoryInv
<1> QED
  BY <1>3, <1>4, <1>5, <1>6 DEF CheckInv

\* Nothing changes.
LEMMA StutterCorrect == CheckInv /\ UNCHANGED vars => CheckInv'
<1> SUFFICES ASSUME CheckInv, UNCHANGED vars PROVE CheckInv'
  OBVIOUS
<1>1. /\ UNCHANGED given /\ UNCHANGED <<given, verdicts>> /\ UNCHANGED <<given, today>>
      /\ UNCHANGED <<today, phase, controls, findings, items, used>>
  BY DEF vars
<1>2. TypeOK /\ items \in Seq(CheckItems) /\ SettingsInv /\ IdleInv /\ JudgeInv /\ ReportInv
      /\ DoneInv /\ HistoryInv
  BY DEF CheckInv
<1>3. /\ InForce' = InForce /\ ExceptionKeys' = ExceptionKeys /\ Reported' = Reported
      /\ WarningItems' = WarningItems /\ NeededKeys' = NeededKeys
      /\ FailedItems' = FailedItems /\ JudgedItems' = JudgedItems
      /\ UnusedItems' = UnusedItems /\ (\A f : Judged(f)' = Judged(f))
  BY <1>1, GivenFrame, DayFrame
<1>4. TypeOK'
  BY <1>1, <1>2, <1>3, GivenKept DEF TypeOK
<1>5. \A f : Key(f)' = Key(f)
  BY DEF Key
<1>6. JudgeInv'
  BY <1>1, <1>2, <1>3, <1>5 DEF JudgeInv
<1>7. SettingsInv' /\ IdleInv' /\ ReportInv' /\ DoneInv'
  BY <1>1, <1>2, <1>3 DEF SettingsInv, IdleInv, ReportInv, DoneInv
<1>8. HistoryInv'
  BY <1>1, <1>2, GivenKept DEF HistoryInv
<1> QED
  BY <1>1, <1>2, <1>4, <1>6, <1>7, <1>8 DEF CheckInv

\* CheckInv holds of every reachable state.
THEOREM CheckIsCorrect == Spec => []CheckInv
<1>1. Init => CheckInv
  BY InitCorrect
<1>2. CheckInv /\ [Next]_vars => CheckInv'
  BY RefuseCorrect, LoadControlsCorrect, EnforceCorrect, JudgeCorrect, JudgeTestsCorrect,
     ReportCorrect, NextDayCorrect, StutterCorrect DEF Next
<1> QED
  BY <1>1, <1>2, PTL DEF Spec

-----------------------------------------------------------------------------
\* The state has its type: what a check has collected is what it can judge.
THEOREM TypeCorrect == Spec => []TypeOK
BY CheckIsCorrect, PTL DEF CheckInv

\* The dictionary `waivers` has the key of every exception and of nothing else.
LEMMA WaiverIsAnException ==
    ASSUME TypeOK, NEW key
    PROVE  /\ key \notin ExceptionKeys => Waiver(key) = NoWaiver
           /\ key \in ExceptionKeys =>
                 /\ Waiver(key) \in ToSet(policy.exceptions) /\ Key(Waiver(key)) = key
                 /\ Waiver(key) # NoWaiver /\ Waiver(key).expires \in Nat
<1> DEFINE xs == policy.exceptions
           places == {i \in DOMAIN xs : Key(xs[i]) = key}
           last == CHOOSE i \in places : \A j \in places : j <= i
<1>1. /\ xs \in Seq([rule : STRING, title : STRING, expires : Nat])
      /\ DOMAIN xs = 1..Len(xs) /\ Len(xs) \in Nat
  BY GivenTypes, LenProperties
<1>2. key \in ExceptionKeys <=> places # {}
  BY DEF ExceptionKeys, ToSet
<1>3. Waiver(key) = IF places = {} THEN NoWaiver ELSE xs[last]
  BY DEF Waiver
<1>4. ASSUME places # {} PROVE last \in DOMAIN xs /\ Key(xs[last]) = key
  <2>1. \E i \in places : \A j \in places : j <= i
    <3>1. places \in SUBSET (1..Len(xs))
      BY <1>1
    <3> HIDE DEF places
    <3> QED
      BY <1>1, <1>4, <3>1, GreatestExists
  <2> QED
    BY <2>1
<1> HIDE DEF last, places
<1>5. ASSUME places # {}
      PROVE  xs[last] \in [rule : STRING, title : STRING, expires : Nat]
  BY <1>1, <1>4, <1>5, ElementOfSeq
<1>6. \A x \in [rule : STRING, title : STRING, expires : Nat] : x # NoWaiver /\ x.expires \in Nat
  BY DEF NoWaiver
<1> QED
  BY <1>2, <1>3, <1>4, <1>5, <1>6 DEF ToSet

\* An exception is usable on an interval of days, so that a policy passes on
\* one: between two days on which all findings that block have a usable
\* exception, they have it on every day.
LEMMA PassingDaysAreConvex ==
    ASSUME TypeOK, NEW i \in Nat, NEW j \in Nat, NEW k \in Nat, i < j, j < k,
           PassesOn(i), PassesOn(k)
    PROVE  PassesOn(j)
<1> DEFINE w(f) == Waiver(Key(f))
<1> SUFFICES ASSUME NEW f \in Reported
             PROVE  Classify(f, w(f), InForce, j) # "violation"
  BY DEF PassesOn
<1>1. /\ Classify(f, w(f), InForce, i) # "violation"
      /\ Classify(f, w(f), InForce, k) # "violation"
  BY DEF PassesOn
<1> HIDE DEF w
<1>2. CASE ~Blocking(f.severity, InForce)
  BY <1>2 DEF Classify
<1>3. CASE Blocking(f.severity, InForce)
  <2>1. /\ w(f) # NoWaiver /\ f.severity # "critical"
        /\ Usable(w(f), InForce, i) /\ Usable(w(f), InForce, k)
    BY <1>1, <1>3 DEF Classify
  <2>2. w(f).expires \in Nat
    BY <2>1, WaiverIsAnException DEF w
  <2>3. InForce.max_exception_days \in Nat \cup {Unlimited}
    BY ReportedTypes DEF ControlsOK
  <2>4. Usable(w(f), InForce, j)
    BY <2>1, <2>2, <2>3 DEF Usable
  <2> QED
    BY <1>3, <2>1, <2>4 DEF Classify
<1> QED
  BY <1>2, <1>3

\* A policy that has passed and then stopped passing never passes again while
\* its files stay as they are.
THEOREM PassingDaysCorrect == Spec => []PassingDaysAreConsecutive
<1>1. CheckInv => PassingDaysAreConsecutive
  <2> SUFFICES ASSUME CheckInv, NEW i \in DOMAIN verdicts, NEW j \in DOMAIN verdicts,
                      NEW k \in DOMAIN verdicts, i < j, j < k, verdicts[i], verdicts[k]
               PROVE  verdicts[j]
    BY DEF PassingDaysAreConsecutive
  <2>1. TypeOK /\ \A n \in DOMAIN verdicts : verdicts[n] = PassesOn(n)
    BY DEF CheckInv, HistoryInv
  <2>2. i \in Nat /\ j \in Nat /\ k \in Nat
    <3>1. verdicts \in Seq(BOOLEAN)
      BY <2>1 DEF TypeOK
    <3> QED
      BY <3>1, LenProperties
  <2> QED
    BY <2>1, <2>2, PassingDaysAreConvex
<1> QED
  BY <1>1, CheckIsCorrect, PTL

\* What is known of a check that is done.
LEMMA DoneFacts ==
    ASSUME CheckInv, Done
    PROVE  /\ TypeOK /\ controls = InForce
           /\ ToSet(items) \subseteq WarningItems \cup JudgedItems \cup FailedItems \cup UnusedItems
           /\ JudgedItems \subseteq ToSet(items) /\ FailedItems \subseteq ToSet(items)
           /\ UnusedItems \subseteq ToSet(items)
           /\ Reported = ToSet(Findings(controls)) /\ Reported \subseteq Reports
           /\ (Passed <=> PassesOn(today))
<1>1. TypeOK /\ SettingsInv /\ DoneInv
  BY DEF CheckInv
<1>2. controls = InForce
  BY <1>1 DEF SettingsInv, Done
<1>3. /\ ToSet(items) \subseteq WarningItems \cup JudgedItems \cup FailedItems \cup UnusedItems
      /\ JudgedItems \subseteq ToSet(items) /\ FailedItems \subseteq ToSet(items)
      /\ UnusedItems \subseteq ToSet(items)
  BY <1>1 DEF DoneInv, Done
<1>4. \A x \in UnusedItems : x.verdict = "warning"
  <2>1. \A f : Item("warning", f).verdict = "warning"
    BY DEF Item
  <2> QED
    BY <2>1 DEF UnusedItems, UnusedItem
<1>5. Passed <=> PassesOn(today)
  BY <1>1, <1>3, <1>4, PassedIsPassesOn
<1> QED
  BY <1>1, <1>2, <1>3, <1>5, ReportedTypes DEF Reported

\* evaluate_gate reports an exception as unused if and only if there is no
\* finding for it, in whatever order the findings were judged.
THEOREM UnusedCorrect == Spec => []UnusedIsUnneeded
<1>1. CheckInv => UnusedIsUnneeded
  <2> SUFFICES ASSUME CheckInv, Done, NEW key \in ExceptionKeys
               PROVE  (\E x \in ToSet(items) : /\ x.finding.title = "Unused exception"
                                               /\ x.finding.rule = key[1]
                                               /\ x.finding.of = key[2])
                      <=> ~\E f \in Reported : Key(f) = key
    BY DoneFacts DEF UnusedIsUnneeded
  <2>1. ASSUME NEW x \in WarningItems \cup JudgedItems \cup FailedItems
        PROVE  x.finding.title # "Unused exception"
    <3>1. \A verdict, f : Item(verdict, f).finding = f
      BY DEF Item
    <3>2. \A rule, title, severity : Finding(rule, title, severity).title = title
      BY DEF Finding
    <3>3. CASE x \in WarningItems
      <4>1. PICK title \in ToSet(policy.warnings) : x = Item("warning", Finding(NoRule, title, "low"))
        BY <3>3 DEF WarningItems
      <4>2. title \in Titles
        BY DoneFacts, GivenTypes, LenProperties, ElementOfSeq DEF ToSet
      <4>3. x.finding = Finding(NoRule, title, "low")
        BY <3>1, <4>1
      <4>4. x.finding.title = title
        BY <3>2, <4>3
      <4> QED
        BY <4>2, <4>4 DEF Titles
    <3>4. CASE x \in JudgedItems
      <4>1. PICK f \in Reported : x.finding = f
        BY <3>1, <3>4 DEF JudgedItems, Judged
      <4> QED
        BY <4>1, DoneFacts DEF Reports, Titles
    <3>5. CASE x \in FailedItems
      <4>1. PICK t \in ToSet(Tests) : x = Item("violation", Finding(NoRule, t.name, "critical"))
        BY <3>5 DEF FailedItems
      <4>2. t \in Results
        BY DoneFacts, ReportedTypes, LenProperties, ElementOfSeq DEF ToSet
      <4>3. x.finding = Finding(NoRule, t.name, "critical")
        BY <3>1, <4>1
      <4>4. x.finding.title = t.name
        BY <3>2, <4>3
      <4> QED
        BY <4>2, <4>4 DEF Results, Titles
    <3> QED
      BY <3>3, <3>4, <3>5
  <2>2. ASSUME NEW k
        PROVE  /\ UnusedItem(k).finding.title = "Unused exception"
               /\ UnusedItem(k).finding.rule = k[1] /\ UnusedItem(k).finding.of = k[2]
    BY DEF UnusedItem, Item
  <2>3. ASSUME NEW x \in ToSet(items), x.finding.title = "Unused exception",
               x.finding.rule = key[1], x.finding.of = key[2],
               NEW f \in Reported, Key(f) = key
        PROVE  FALSE
    <3>1. x \in UnusedItems
      BY <2>1, <2>3, DoneFacts
    <3>2. PICK k \in ExceptionKeys \ NeededKeys : x = UnusedItem(k)
      BY <3>1 DEF UnusedItems
    <3>3. k[1] = key[1] /\ k[2] = key[2]
      BY <2>2, <2>3, <3>2
    <3>4. k \in STRING \X STRING /\ key \in STRING \X STRING
      BY <3>2, DoneFacts, ExceptionKeysAreFinite
    <3>5. k = key
      BY <3>3, <3>4
    <3> QED
      BY <2>3, <3>2, <3>5 DEF NeededKeys
  <2>4. ASSUME ~\E f \in Reported : Key(f) = key
        PROVE  UnusedItem(key) \in ToSet(items)
    BY <2>4, DoneFacts DEF NeededKeys, UnusedItems
  <2> QED
    BY <2>2, <2>3, <2>4
<1> QED
  BY <1>1, CheckIsCorrect, PTL

\* Under a baseline --fail-on never raises the threshold.
LEMMA RequestsOnlyTighten ==
    ASSUME TypeOK, baseline # NoBaseline
    PROVE  /\ Threshold(InForce) \in Severities
           /\ SEVERITY_RANK[Threshold(InForce)] <= SEVERITY_RANK[InForce.fail_on]
<1>1. InForce.fail_on \in Severities
  BY ReportedTypes DEF ControlsOK
<1>2. request \in Severities \cup {NoRequest}
  BY RequestsAssumption DEF TypeOK
<1>3. \A severity \in Severities : SEVERITY_RANK[severity] \in Nat
  BY DEF Severities, SEVERITY_RANK
<1>4. CASE request = NoRequest
  BY <1>1, <1>3, <1>4 DEF Threshold
<1>5. CASE request # NoRequest
  <2>1. Threshold(InForce) = IF SEVERITY_RANK[request] < SEVERITY_RANK[InForce.fail_on]
                             THEN request ELSE InForce.fail_on
    BY <1>5 DEF Threshold
  <2> QED
    BY <1>1, <1>2, <1>3, <1>5, <2>1
<1> QED
  BY <1>4, <1>5

\* No environment and no --fail-on drops a control of the organisation: its
\* patterns report, its tests block, and what blocks without --fail-on is
\* judged as blocking with it.
THEOREM OrganisationCorrect == Spec => []OrganisationControlsSurvive
<1>1. CheckInv => OrganisationControlsSurvive
  <2> SUFFICES ASSUME CheckInv, Done, baseline # NoBaseline
               PROVE  OrganisationControlsSurvive
    BY DEF OrganisationControlsSurvive
  <2> DEFINE e == Environment(option, policy.environment)
  <2>1. TypeOK /\ controls = InForce
    BY DoneFacts
  <2>2. /\ policy.rules \in Seq(Rules) /\ policy.analysis \in Seq(Reports)
        /\ policy.tests \in Seq(Results) /\ baseline \in Baselines
    BY <2>1, GivenTypes
  <2>3. /\ ResolveJoined(baseline, e, "forbidden") \in Seq(Patterns)
        /\ \A x \in ToSet(baseline.defaults["forbidden"]) :
              x \in ToSet(ResolveJoined(baseline, e, "forbidden"))
    <3>1. \A layer \in LayerModels : layer["forbidden"] \in Seq(Patterns)
      BY DEF LayerModels
    <3> QED
      BY <2>2, <3>1, JoinedKeepsDefaults
  <2>4. /\ ResolveJoined(baseline, e, "tests") \in Seq(Results)
        /\ \A x \in ToSet(baseline.defaults["tests"]) :
              x \in ToSet(ResolveJoined(baseline, e, "tests"))
    <3>1. \A layer \in LayerModels : layer["tests"] \in Seq(Results)
      BY DEF LayerModels
    <3> QED
      BY <2>2, <3>1, JoinedKeepsDefaults
  <2>5. ASSUME NEW f \in Reported
        PROVE  /\ Judged(f) \in ToSet(items) /\ Judged(f).finding = f
               /\ Judged(f).verdict = Classify(f, Waiver(Key(f)), InForce, today)
    <3>1. Judged(f) \in ToSet(items)
      BY DoneFacts DEF JudgedItems
    <3> QED
      BY <3>1 DEF Judged, Item
  <2>6. ASSUME NEW rule \in ToSet(policy.rules), NEW pattern \in ToSet(baseline.defaults.forbidden),
               rule.enabled, rule.action = "allow", pattern.name \in rule.matches
        PROVE  \E x \in ToSet(items) :
                  x.finding = Finding(rule.name, pattern.name, pattern.severity)
    <3> DEFINE f == Finding(rule.name, pattern.name, pattern.severity)
               enforced == EnforceBaseline(policy.rules, InForce.require_fields,
                              ResolveJoined(baseline, e, "forbidden"))
    <3>1. InForce.require_fields \in Seq(Titles)
      BY <2>1, ReportedTypes DEF ControlsOK
    <3>2. enforced \in Seq(Reports) /\ f \in ToSet(enforced)
      BY <2>2, <2>3, <2>6, <3>1, RulesAreReported
    <3>3. Findings(InForce) = policy.analysis \o enforced
      BY DEF Findings
    <3> HIDE DEF f, enforced
    <3>4. f \in Reported
      BY <2>2, <3>2, <3>3, ElementsOfConcat DEF Reported
    <3> QED
      BY <2>5, <3>4 DEF f
  <2>7. ASSUME NEW t \in ToSet(baseline.defaults.tests), ~t.passed
        PROVE  ~Passed
    <3>1. t \in ToSet(Tests)
      BY <2>2, <2>4, ElementsOfConcat DEF Tests
    <3>2. ~PassesOn(today)
      BY <2>7, <3>1 DEF PassesOn
    <3> QED
      BY <3>2, DoneFacts
  <2>8. ASSUME NEW f \in Reported, SEVERITY_RANK[f.severity] >= SEVERITY_RANK[controls.fail_on]
        PROVE  \E x \in ToSet(items) : x.finding = f /\ x.verdict \in {"violation", "waived"}
    <3>1. f.severity \in Severities /\ InForce.fail_on \in Severities
      BY <2>1, ReportedTypes DEF Reports, ControlsOK
    <3>2. \A severity \in Severities : SEVERITY_RANK[severity] \in Nat
      BY DEF Severities, SEVERITY_RANK
    <3>3. Blocking(f.severity, InForce)
      BY <2>1, <2>8, <3>1, <3>2, RequestsOnlyTighten DEF Blocking
    <3>4. Classify(f, Waiver(Key(f)), InForce, today) \in {"violation", "waived"}
      BY <3>3 DEF Classify
    <3> QED
      BY <2>5, <3>4
  <2> QED
    BY <2>6, <2>7, <2>8, DoneFacts DEF OrganisationControlsSurvive
<1> QED
  BY <1>1, CheckIsCorrect, PTL

\* A finding does not block the policy if and only if it is below the threshold
\* or has a usable exception.
LEMMA OneExceptionDecides ==
    ASSUME OneExceptionPerFinding, TypeOK, NEW f
    PROVE  Classify(f, Waiver(Key(f)), InForce, today) # "violation" <=>
              (Blocking(f.severity, InForce) =>
                 /\ f.severity # "critical"
                 /\ InForce.allow_exceptions
                 /\ \E x \in ToSet(policy.exceptions) :
                       /\ Key(x) = Key(f)
                       /\ x.expires >= today
                       /\ \/ InForce.max_exception_days = Unlimited
                          \/ x.expires <= today + InForce.max_exception_days)
<1> DEFINE w == Waiver(Key(f))
<1>1. ASSUME NEW x \in ToSet(policy.exceptions), Key(x) = Key(f)
      PROVE  x = w /\ w # NoWaiver
  <2>1. Key(f) \in ExceptionKeys
    BY <1>1 DEF ExceptionKeys
  <2>2. w \in ToSet(policy.exceptions) /\ Key(w) = Key(f) /\ w # NoWaiver
    BY <2>1, WaiverIsAnException
  <2> QED
    BY <1>1, <2>2 DEF OneExceptionPerFinding, TypeOK
<1>2. w # NoWaiver => w \in ToSet(policy.exceptions) /\ Key(w) = Key(f)
  BY WaiverIsAnException
<1> HIDE DEF w
<1>3. Usable(w, InForce, today) <=>
         /\ InForce.allow_exceptions
         /\ w.expires >= today
         /\ \/ InForce.max_exception_days = Unlimited
            \/ w.expires <= today + InForce.max_exception_days
  BY DEF Usable
<1>4. Classify(f, w, InForce, today) # "violation" <=>
         (Blocking(f.severity, InForce) =>
             w # NoWaiver /\ f.severity # "critical" /\ Usable(w, InForce, today))
  BY DEF Classify
<1> QED
  BY <1>1, <1>2, <1>3, <1>4 DEF w

\* The gate passes exactly what the table of verdicts in docs/guardrails.md
\* lets pass, for policies with at most one exception for each finding.
THEOREM BlocksCorrect ==
    ASSUME OneExceptionPerFinding
    PROVE  Spec => []BlocksAsDocumented
<1>1. CheckInv => BlocksAsDocumented
  <2> SUFFICES ASSUME CheckInv, Done PROVE BlocksAsDocumented
    BY DEF BlocksAsDocumented
  <2>1. TypeOK /\ controls = InForce /\ Reported = ToSet(Findings(controls))
    BY DoneFacts
  <2>2. Passed <=> PassesOn(today)
    BY DoneFacts
  <2> QED
    BY <2>1, <2>2, OneExceptionDecides DEF BlocksAsDocumented, PassesOn
<1> QED
  BY <1>1, CheckIsCorrect, PTL
=============================================================================
