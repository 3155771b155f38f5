----------------------------- MODULE MCCompile -----------------------------
(***************************************************************************)
(* Compile on small instances.  A network of four addresses has addresses  *)
(* that are not probed, blocks inside it and blocks beside it; three ports *)
(* have a gap; every version has addresses outside every network.          *)
(***************************************************************************)
EXTENDS Compile, TLC

CONSTANTS lan, sub, web, web1, dual, g1, g2, g3, ssh, low, ends, ends1, ping, full, none, world,
    public, h1,
    everything4, everything6

\* The last is the whole of version 4, spelled otherwise than 0.0.0.0/0.
MCNetworks == {{0, 1, 2, 3}, {0, 1}, {2}, {4}, {5}, {8}, {9}, V4}

\* What `ssh` says is varied; the ports of `ends` leave a gap.
Services(port) ==
    (ssh :> [protocol |-> "tcp", ports |-> {port}])
    @@ (low :> [protocol |-> "tcp", ports |-> {1, 2, 3} \ {3}])
    @@ (ends :> [protocol |-> "tcp", ports |-> {1, 3}])
    @@ (ping :> [protocol |-> "icmp", ports |-> {}])
    @@ (full :> [protocol |-> "tcp", ports |-> AllPorts])

Objects ==
    (lan :> {{0, 1, 2, 3}}) @@ (sub :> {{0, 1}}) @@ (web :> {{4}})
    @@ (dual :> {{2}, {8}}) @@ (world :> {everything4})

Groups == (g1 :> {lan, web}) @@ (g2 :> {g1, any}) @@ (g3 :> {sub, dual})

Rule(rule, source, destination, services, action) ==
    [name |-> rule, source |-> source, destination |-> destination,
     services |-> services, action |-> action, enabled |-> TRUE, description |-> "why"]

\* Titles of findings that an exception can waive.
Waivable == {"Open SSH", "Internet to internal database", "Broad source to all ports"}

\* Those of the patterns of the baselines.
Forbidden == {"Baseline: lan", "Baseline: web", "Baseline: udp"}

Exceptions(policies) == {[rule |-> policies[i].name, title |-> t] : i \in DOMAIN policies, t \in Waivable}

\* Whatever can be waived is.
Doc(policies, tests) ==
    [services |-> Services(1), policies |-> policies, exceptions |-> Exceptions(policies),
     tests |-> tests, objects |-> Objects, groups |-> Groups]

Alone(doc) == [document |-> doc, earlier |-> doc]

ServiceLists == {<<ssh>>, <<low>>, <<ends>>, <<ping>>, <<ssh, ping>>, <<any>>, <<full>>}

First ==
    {Rule("first", <<s>>, <<any>>, v, a) : s \in {lan, world}, v \in ServiceLists, a \in {"allow", "deny"}}
    \cup {Rule("first", <<sub>>, <<any>>, v, "deny") : v \in {<<ssh>>, <<ends>>, <<any>>}}
    \cup {Rule("first", <<world>>, <<web>>, v, "allow") : v \in ServiceLists}

Second ==
    {Rule("second", s, <<d>>, v, "allow")
     : s \in {<<lan>>, <<dual>>}, d \in {web, any}, v \in {<<ssh>>, <<low>>, <<ping>>, <<any>>}}
    \cup {Rule("second", <<lan>>, <<web>>, v, "reject") : v \in {<<ssh>>, <<ssh, ping>>, <<full>>}}

\* Two rules with nothing or an allow rule behind them.
RuleCases ==
    {Alone(Doc(<<a, b>>, {})) : a \in First, b \in Second}
    \cup {Alone(Doc(<<a, Rule("last", <<dual, web>>, <<any>>, <<low, ping>>, "allow")>>, {}))
          : a \in First}

\* Groups that share members, contain each other and are empty; one rule
\* with unknown names.
GroupCases ==
    {Alone([Doc(<<Rule("first", <<g1>>, <<web>>, <<ssh>>, "allow")>>, {})
            EXCEPT !.groups = (g1 :> a) @@ (g2 :> b) @@ (g3 :> c)])
     : a \in SUBSET {lan, g2, g3}, b \in SUBSET {sub, g3, any}, c \in SUBSET {web, g1}}
    \cup {Alone(Doc(<<Rule("first", <<h1>>, <<web>>, <<ssh>>, "allow")>>, {}))}

Test(src, dst, protocol, port, expect) ==
    [port |-> port, protocol |-> protocol, src |-> src, dst |-> dst, expect |-> expect]

\* Tests of networks that are cut and networks that are not.
TestCases ==
    {Alone([Doc(<<a, b>>, {t}) EXCEPT !.objects = [@ EXCEPT ![sub] = v, ![dual] = {{8}}]])
     : v \in {{{0, 1}}, {h1}},
       a \in {Rule("first", <<s>>, <<web>>, <<v>>, "deny") : s \in {lan, sub, g3}, v \in {ssh, ends}},
       b \in {Rule("second", <<s>>, <<web, lan>>, <<low, ping>>, "allow") : s \in {lan, any}},
       t \in {Test(s, d, "tcp", 1, e)
              : s \in {lan, g1, Star, 5, 9}, d \in {web, dual}, e \in {"allow", "deny"}}}

\* A rule is renamed, moved, disabled, or what it refers to is changed.
Renamed(rules) == <<[rules[1] EXCEPT !.name = "other"], rules[2]>>
Disabled(rules) == <<[rules[1] EXCEPT !.enabled = FALSE], rules[2]>>
Grouped(rules) == <<[rules[1] EXCEPT !.source = <<g1>>], rules[2]>>

DiffCases ==
    UNION {LET doc == Doc(rules, {}) IN
           {[document |-> doc, earlier |-> [doc EXCEPT !.services = Services(2)]],
            [document |-> doc, earlier |-> [doc EXCEPT !.policies = <<rules[2], rules[1]>>]],
            [document |-> doc, earlier |-> [doc EXCEPT !.policies = Renamed(rules)]],
            [document |-> doc, earlier |-> [doc EXCEPT !.policies = Disabled(rules)]],
            [document |-> [doc EXCEPT !.policies = Disabled(rules)], earlier |-> doc],
            [document |-> doc, earlier |-> [doc EXCEPT !.policies = Grouped(rules)]]}
           : rules \in {<<a, b>>
                        : a \in {Rule("first", <<lan, web>>, <<any>>, <<v>>, "deny") : v \in {ssh, low}},
                          b \in {Rule("second", <<any>>, <<web>>, <<v>>, "allow") : v \in {ssh, ping}}}}

\* A service with an empty list of ports.
PortlessCases ==
    {Alone([doc EXCEPT !.services = (none :> [protocol |-> "tcp", ports |-> {}]) @@ @])
     : doc \in {Doc(<<Rule("first", <<lan>>, <<any>>, <<none>>, a), b>>, {})
               : a \in {"allow", "deny"},
                 b \in {Rule("second", <<s>>, <<web>>, <<v>>, "allow") : s \in {lan, any}, v \in {none, ssh}}}}

\* Rules open to any address or to a broad prefix, with and without exceptions.
ExposureCases ==
    {Alone([Doc(<<a, b>>, {}) EXCEPT !.objects = @ @@ (public :> {{5}}), !.exceptions = x])
     : a \in {Rule("first", <<s>>, <<d>>, v, e)
              : s \in {any, public, lan}, d \in {web, any}, e \in {"allow"},
                v \in {<<ssh>>, <<ends>>, <<ping, low>>, <<full>>, <<any>>}}
             \cup {Rule("first", <<lan>>, <<any>>, <<any>>, "deny")},
       b \in {Rule("second", <<s>>, <<web>>, <<v>>, "allow") : s \in {any, dual}, v \in {ssh, ends}},
       x \in {{}, {[rule |-> "first", title |-> t] : t \in Waivable},
              {[rule |-> r, title |-> "Open SSH"] : r \in {"first", "second"}},
              {[rule |-> "first", title |-> t] : t \in Waivable \cup Forbidden}}}

\* Names that read like made-up ones or like FortiGate's words, that quote an
\* address or are used twice; "any" spelled twice, among other addresses, and
\* by a disabled rule.
NameCases ==
    {Alone([doc EXCEPT !.objects = (web1 :> v) @@ (all :> w) @@ @,
                       !.services = (ends1 :> [protocol |-> "tcp", ports |-> {2}]) @@ @])
     : v \in {{{5}}, {{5}, {2}}},
       w \in {{{4}}, {everything4, everything6}, {everything6, {4}}},
       doc \in {Doc(<<a, b>>, {})
               : a \in {Rule(r, <<dual>>, <<web1>>, <<ends>>, "deny")
                        : r \in {"second", "block 5", "block 0.0.0.3", "block ::9"}}
                      \cup {Rule("first", <<s>>, <<web1>>, <<u>>, "deny")
                             : s \in {dual, lan, all}, u \in {ends, any}},
                 b \in {Rule("second", <<dual>>, <<d>>, <<u>>, "allow")
                        : d \in {any, all, web1}, u \in {low, ends1}}
                      \cup {[Rule("off", <<dual>>, <<all>>, <<ssh>>, "allow") EXCEPT !.enabled = FALSE]}}}

\* A description that quotes an address or is missing, an address that is not
\* found, the whole of version 4 as a network, and Check Point's word as a name.
TextCases ==
    {Alone([Doc(<<[a EXCEPT !.description = text], b>>, {}) EXCEPT !.objects = (n :> v) @@ @])
     : text \in {"", "for 0.0.0.3", "for ::9"}, n \in {AnyWord, public}, v \in {{{9}}, {{8}, V4}, {V4}},
       a \in {Rule("first", <<lan>>, <<web>>, <<any>>, e) : e \in {"allow", "deny"}},
       b \in {Rule("second", <<s>>, <<web>>, <<low>>, "allow") : s \in {public, AnyWord, dual}}}

\* web1 is spelled like the first member of `dual`, ends1 like that of `ends`.
MCSpelled == (<<dual, 1>> :> web1) @@ (<<ends, 1>> :> ends1)

MCQuoted ==
    ("block 5" :> {5}) @@ ("block 0.0.0.3" :> {3}) @@ ("block ::9" :> {9}) @@ ("for 0.0.0.3" :> {3})
    @@ ("for ::9" :> {9})

MCHighRisk == 1 :> "Open SSH"

MCCases ==
    RuleCases \cup GroupCases \cup TestCases \cup DiffCases \cup ExposureCases \cup NameCases
    \cup PortlessCases \cup TextCases

MCHostMaps == {<<>>, h1 :> {{2}}}

\* Patterns of three severities.
MCPatterns ==
    {[title |-> "Baseline: lan", severity |-> "high", protocol |-> "tcp", ports |-> {3},
      source |-> {{0, 1, 2, 3}}, destination |-> Unset],
     [title |-> "Baseline: web", severity |-> "medium", protocol |-> Unset, ports |-> Unset,
      source |-> {{5}}, destination |-> {{4}}],
     [title |-> "Baseline: udp", severity |-> "critical", protocol |-> "udp", ports |-> Unset,
      source |-> {{2}}, destination |-> {{4}}],
     [title |-> "Baseline: broad", severity |-> "high", protocol |-> "udp", ports |-> Unset,
      source |-> Broad, destination |-> {{4}}]}

Thresholds == {"low", "medium", "high", "critical"}

\* No baseline, or one with patterns, a threshold and a test of its own.
MCBaselines ==
    {[tests |-> {}, patterns |-> {}, targets |-> {}, fail_on |-> "high", allow_exceptions |-> TRUE]}
    \cup {[tests |-> {Test(5, web, "tcp", 2, "deny")}, patterns |-> MCPatterns,
           targets |-> {"iptables", "nftables", "ciscoasa", "azure-nsg", "paloalto", "fortigate"},
           fail_on |-> threshold, allow_exceptions |-> threshold # "low"]
          : threshold \in Thresholds}
=============================================================================
