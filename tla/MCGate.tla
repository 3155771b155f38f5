------------------------------- MODULE MCGate -------------------------------
(***************************************************************************)
(* Gate on small instances: two rules, the analyses, exceptions, tests and *)
(* baselines that tell its verdicts apart.                                 *)
(***************************************************************************)
EXTENDS Gate, TLC

open  == Finding("r1", "open", "high")
wide  == Finding("r2", "wide", "medium")
toAny == Finding("r1", "any", "critical")

Rule(name, action, enabled, missing, matches) ==
    [name |-> name, action |-> action, enabled |-> enabled, missing |-> missing,
     matches |-> matches]

\* The second rule is an allow rule, a deny rule or a disabled one.
RuleSets == {<<Rule("r1", "allow", TRUE, {"owner"}, {}),
               Rule("r2", second[1], second[2], {}, {"telnet", "admin"})>>
             : second \in {<<"allow", TRUE>>, <<"deny", TRUE>>, <<"allow", FALSE>>}}

Analyses == {<<>>, <<open, wide>>, <<toAny>>}

Exception(rule, finding, expires) == [rule |-> rule, title |-> finding, expires |-> expires]

\* No exception; one for each of two findings; one for a baseline pattern;
\* one for a critical finding; one that matches nothing under most analyses.
Exceptions ==
    {<<>>}
    \cup {<<Exception("r1", "open", d), Exception("r2", "telnet", e)>> : d \in 1..4, e \in 2..4}
    \cup {<<Exception("r2", "wide", 3), Exception("r1", "any", 3)>>}

TestResult(passed) == <<[name |-> "t", passed |-> passed]>>

Layer(fail_on, fields, allow, days, forbidden, tests) ==
    [fail_on |-> fail_on, require_fields |-> fields, allow_exceptions |-> allow,
     max_exception_days |-> days, required_approvals |-> Unset,
     allowed_targets |-> Unset, forbidden |-> forbidden, tests |-> tests]

telnet == [name |-> "telnet", severity |-> "high"]
admin  == [name |-> "admin", severity |-> "critical"]

\* A baseline without environments, and two with stricter and laxer ones.
MCBaselines ==
    LET plain == Layer(Unset, Unset, Unset, 2, <<telnet>>, <<>>)
        prod  == Layer("medium", <<"owner">>, Unset, 1, <<admin>>, TestResult(TRUE))
        dev   == Layer("critical", Unset, FALSE, Unset, <<>>, <<>>)
        lax   == Layer("critical", Unset, Unset, Unset, <<>>, TestResult(FALSE))
        none  == [e \in {} |-> lax]
    IN  {NoBaseline,
         [defaults |-> plain, environments |-> none],
         [defaults |-> plain, environments |-> [prod |-> prod, dev |-> dev]],
         [defaults |-> lax, environments |-> [prod |-> prod]]}

PolicySet(exceptions) ==
    [environment : {NoEnvironment, "prod", "dev"}, rules : RuleSets, analysis : Analyses,
     exceptions : exceptions, warnings : {<<>>}, tests : {<<>>}]

\* Two rules of one name: the validator warns and goes on.
SameName ==
    {[environment |-> NoEnvironment,
      rules |-> <<Rule("r1", "allow", TRUE, {}, {}), Rule("r1", "allow", TRUE, {}, {})>>,
      analysis |-> <<open, open>>, exceptions |-> <<Exception("r1", "open", d)>>,
      warnings |-> <<"duplicate rule name">>, tests |-> <<>>] : d \in 1..4}

MCPolicies == PolicySet(Exceptions)
    \cup [environment : {NoEnvironment, "prod"}, rules : RuleSets, analysis : Analyses,
          exceptions : {<<>>}, warnings : {<<"duplicate rule name">>},
          tests : {TestResult(TRUE), TestResult(FALSE)}]
    \cup SameName

MCOptions == {NoEnvironment, "prod"}
MCRequests == {NoRequest, "low", "critical"}
=============================================================================
