------------------------------ MODULE Controls ------------------------------
(***************************************************************************)
(* The controls an environment is under: enforcement/baseline.py, and      *)
(* load_controls of cli/_pipeline.py.                                      *)
(*                                                                         *)
(* A baseline has a layer of settings for everywhere and one for each      *)
(* environment it names.  What a rule is missing and which forbidden       *)
(* patterns it matches are part of the rule here.                          *)
(***************************************************************************)
EXTENDS Severity, Sequences, SequencesExt

CONSTANTS
    Unset,         \* a setting a layer does not make
    NoBaseline,    \* no baseline is in force
    NoEnvironment, \* the policy or the command names no environment
    Unlimited      \* exceptions may run for any number of days

\* The built-in defaults of Controls.
Defaults ==
    [fail_on |-> "high", require_fields |-> <<>>, allow_exceptions |-> TRUE,
     max_exception_days |-> Unlimited, required_approvals |-> 0,
     allowed_targets |-> {}]

Settings == DOMAIN Defaults

\* Every title the analysis or a baseline can give a finding; the gate's own
\* title is none of them, as those of a baseline have a prefix.
Titles == STRING \ {"Unused exception"}

Reports  == [rule : STRING, title : Titles, severity : Severities]
Patterns == [name : Titles, severity : Severities]
Results  == [name : Titles, passed : BOOLEAN]
Rules    == [name : STRING, action : {"allow", "deny"}, enabled : BOOLEAN,
             missing : SUBSET STRING, matches : SUBSET STRING]

\* ControlsModel: a layer makes a setting or leaves it.
LayerModels ==
    [fail_on : {Unset} \cup Severities, require_fields : {Unset} \cup Seq(Titles),
     allow_exceptions : {Unset} \cup BOOLEAN, max_exception_days : {Unset} \cup Nat,
     required_approvals : {Unset} \cup Nat, allowed_targets : {Unset} \cup SUBSET STRING,
     forbidden : Seq(Patterns), tests : Seq(Results)]

\* Mutant: the last layer decides, whether it makes the setting or not.
SettingOfLastLayer(layers, name) == layers[Len(layers)][name]

\* The most specific layer that makes the setting, else the default.
Setting(layers, name) ==
    LET explicit == {k \in DOMAIN layers : layers[k][name] # Unset} IN
    IF explicit = {} THEN Defaults[name]
    ELSE layers[CHOOSE k \in explicit : \A j \in explicit : j <= k][name]

\* Mutant: an environment's patterns and tests replace the default ones.
JoinedFromLast(layers, name) == layers[Len(layers)][name]

\* Patterns and tests of every layer.
Joined(layers, name) == FlattenSeq([k \in DOMAIN layers |-> layers[k][name]])

\* resolve_controls refuses an environment a baseline with environments does
\* not name.
UnknownEnvironment(baseline, environment) ==
    /\ baseline # NoBaseline /\ environment # NoEnvironment
    /\ DOMAIN baseline.environments # {}
    /\ environment \notin DOMAIN baseline.environments

Layers(baseline, environment) ==
    IF environment \in DOMAIN baseline.environments
    THEN <<baseline.defaults, baseline.environments[environment]>>
    ELSE <<baseline.defaults>>

\* resolve_controls
Resolve(baseline, environment) ==
    [name \in Settings |->
        IF baseline = NoBaseline THEN Defaults[name]
        ELSE Setting(Layers(baseline, environment), name)]

ResolveJoined(baseline, environment, name) ==
    IF baseline = NoBaseline THEN <<>> ELSE Joined(Layers(baseline, environment), name)

\* load_controls: the option and the policy must agree where both speak.
Disagree(option, declared) ==
    option # NoEnvironment /\ declared # NoEnvironment /\ option # declared

Environment(option, declared) == IF option # NoEnvironment THEN option ELSE declared

Finding(rule, title, severity) == [rule |-> rule, title |-> title, severity |-> severity]

\* A line of a report, if there is reason for it.
When(reason, x) == IF reason THEN <<x>> ELSE <<>>

\* enforce_baseline, for one rule.
RuleFindings(rule, fields, forbidden) ==
    IF ~rule.enabled THEN <<>>
    ELSE FlattenSeq([k \in DOMAIN fields |->
             When(fields[k] \in rule.missing, Finding(rule.name, fields[k], "high"))])
         \o FlattenSeq([k \in DOMAIN forbidden |->
             When(rule.action = "allow" /\ forbidden[k].name \in rule.matches,
                  Finding(rule.name, forbidden[k].name, forbidden[k].severity))])

EnforceBaseline(rules, fields, forbidden) ==
    FlattenSeq([i \in DOMAIN rules |-> RuleFindings(rules[i], fields, forbidden)])
=============================================================================
