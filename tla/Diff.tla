------------------------------- MODULE Diff -------------------------------
(***************************************************************************)
(* engine/diff.py: what changed between two compiled policies, rule by     *)
(* rule.  The score of the change, which is printed with it, is left out.  *)
(***************************************************************************)
EXTENDS Policy, FiniteSetsExt

CONSTANT
    Absent   \* there is no rule of this name

\* Mutant: the services are compared by name.
SignatureByName(ir, rule) ==
    [source      |-> AddressValues(ir, rule.source),
     destination |-> AddressValues(ir, rule.destination),
     services    |-> Range(rule.services),
     action      |-> rule.action,
     enabled     |-> rule.enabled]

\* _signature: a rule with its names resolved.
Signature(ir, rule) ==
    [source      |-> AddressValues(ir, rule.source),
     destination |-> AddressValues(ir, rule.destination),
     services    |-> ServiceValues(ir, rule.services),
     action      |-> rule.action,
     enabled     |-> rule.enabled]

RuleNames(ir) == {ir.policies[i].name : i \in 1..Len(ir.policies)}

\* A dictionary keeps the last of several rules of one name.
RuleNamed(ir, name) ==
    ir.policies[Max({i \in 1..Len(ir.policies) : ir.policies[i].name = name})]

Side(ir, name) ==
    IF name \in RuleNames(ir) THEN Signature(ir, RuleNamed(ir, name)) ELSE Absent

\* diff_policies: a change per name whose signature is not the same.
DiffPolicies(old, new) ==
    {c \in {[name |-> n, before |-> Side(old, n), after |-> Side(new, n)]
            : n \in RuleNames(old) \cup RuleNames(new)} : c.before # c.after}

-----------------------------------------------------------------------------
(* Properties of two compiled policies.                                    *)

\* The rules of a policy in order, by name.
NamesInOrder(ir) == [i \in 1..Len(ir.policies) |-> ir.policies[i].name]

UniqueNames(ir) == IsInjective(NamesInOrder(ir))

SameDecisions(old, new) == \A p \in Packets : Allowed(old, p) <=> Allowed(new, p)

\* Two policies without a change between them decide alike, provided that
\* names are unique and the rules are in the same order.
UnchangedDecidesAlike(old, new) ==
    /\ UniqueNames(old)
    /\ NamesInOrder(old) = NamesInOrder(new)
    /\ DiffPolicies(old, new) = {}
    => SameDecisions(old, new)
=============================================================================
