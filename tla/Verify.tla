------------------------------- MODULE Verify -------------------------------
(***************************************************************************)
(* verify/config.py: what is checked of a generated configuration before   *)
(* it is written.  The text is searched for addresses and for numbers.     *)
(*                                                                         *)
(* An address in the text is the first address of a network; netmasks are  *)
(* in the text and known where the network is, and are left out.  Numbers  *)
(* that are no ports, such as priorities and prefix lengths, are left out: *)
(* they can only stand in for a port that is missing.                      *)
(***************************************************************************)
EXTENDS Objects

CONSTANTS
    Quoted,  \* the addresses that names and descriptions of the policy contain,
             \* as in "block 192.0.2.1": a function to sets of addresses
    Unfound  \* the addresses whose text _IPV6 does not match, since fewer than
             \* two groups come before its "::": fd00::, fe80:: and ::1 are some

ASSUME QuotedAssumption == \A n \in DOMAIN Quoted : Quoted[n] \subseteq Addresses
ASSUME UnfoundAssumption == Unfound \subseteq V6

\* The text of a network's address; "any" stands for 0.0.0.0.
Token(network) == IF network = V4 THEN any ELSE Min(network)

Tokens(values) == {Token(v) : v \in values \cap (Networks \cup {V4})}

\* The ends a target writes and the ports it writes.
WrittenEnds(target, config) ==
    IF target \in ObjectTargets THEN {o.value : o \in config.objects}
    ELSE UNION {line.src \cup line.dst : line \in UNION {part.lines : part \in Range(config)}}

Numbers(target, config) ==
    UNION {Ends(s.ports) : s \in
             IF target \in ObjectTargets THEN Range(config.services)
             ELSE UNION {part.lines : part \in Range(config)}}

\* The names a target writes: kubernetes none, and those that cannot mark a
\* rule as disabled only those of the rules they write; Check Point writes the
\* descriptions of rules as comments.
WrittenNames(target, ir) ==
    LET names(rules) == {rule.name : rule \in rules}
        enabled == {rule \in Range(ir.policies) : rule.enabled}
    IN  CASE target = "kubernetes" -> {}
          [] target = "aws-sg"     -> names({rule \in enabled : rule.action = "allow"})
          [] target = "azure-nsg"  -> names(enabled)
          [] target = "checkpoint" ->
                names(Range(ir.policies)) \cup {rule.description : rule \in Range(ir.policies)}
                \cup DOMAIN ir.addresses \cup DOMAIN ir.services
          [] target \in {"paloalto", "fortigate"} ->
                names(Range(ir.policies)) \cup Referenced(ir) \cup DOMAIN ir.services
          [] OTHER -> names(Range(ir.policies))

QuotedBy(names) == UNION {Quoted[n] : n \in names \cap DOMAIN Quoted}

\* The addresses found in the text.
Present(target, ir, config) ==
    (Tokens(WrittenEnds(target, config)) \cup QuotedBy(WrittenNames(target, ir))) \ Unfound

\* _known_tokens
Known(ir) == {any} \cup Tokens(NetworksOf(ir))

\* Mutant: the destinations of every target are looked for.
SidesAlwaysBoth(target, ir, rule) ==
    AddressValues(ir, rule.source) \cup AddressValues(ir, rule.destination)

\* What has to appear of a rule: the destination if the target writes it.
Sides(target, ir, rule) ==
    AddressValues(ir, rule.source)
    \cup IF target \in AllowOnly THEN {} ELSE AddressValues(ir, rule.destination)

\* The rules that have to appear.
Needed(target, ir) ==
    {rule \in Range(ir.policies) :
        rule.enabled /\ (target \in AllowOnly => rule.action = "allow")}

\* check_intent
Intent(target, ir, config) ==
    LET present == Present(target, ir, config)  numbers == Numbers(target, config) IN
    /\ \A rule \in Needed(target, ir) :
          /\ Tokens(Sides(target, ir, rule)) \subseteq present
          /\ \A s \in ServiceValues(ir, rule.services) :
                s.ports # AllPorts => Ends(s.ports) \subseteq numbers
    /\ present \subseteq Known(ir)

\* check_syntax of Check Point: every name is defined once.  The others look
\* at the form of the text, which is left out.
WellFormed(target, config) ==
    target = "checkpoint" =>
        LET members == ServiceMembers(config) IN
        /\ \A key \in members : MemberName(key[1], key[2]) \notin DOMAIN config.services
        /\ \A key, other \in members :
              key # other => MemberName(key[1], key[2]) # MemberName(other[1], other[2])
        /\ \A rule \in Range(config.rules) :
              /\ rule.source \cup rule.destination \subseteq Defined(config) \cup Words(target)
              /\ rule.services \subseteq DOMAIN config.services \cup Words(target)

\* RenderedConfig.verified
Verified(target, ir, config) == WellFormed(target, config) /\ Intent(target, ir, config)

-----------------------------------------------------------------------------
(* What a policy must not do to be verified: quote addresses that can be   *)
(* found and that it does not define, need one that cannot be found, and,  *)
(* for Check Point, name a service like a made-up one.                     *)

Verifiable(target, ir) ==
    /\ QuotedBy(WrittenNames(target, ir)) \subseteq Known(ir) \cup Unfound
    /\ \A rule \in Needed(target, ir) : Tokens(Sides(target, ir, rule)) \cap Unfound = {}
    /\ target = "checkpoint" =>
          \A s \in DOMAIN ir.services, i \in 1..MaxPort :
              RangeCount(ir.services[s].ports) > 1 => MemberName(s, i) \notin DOMAIN ir.services
=============================================================================
