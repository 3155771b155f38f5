\* What is written without a warning passes packets that the policy denies.
\* A command that has ended does nothing more: no deadlock check.
SPECIFICATION Spec
CONSTANTS
    Addresses = {0, 1, 2, 3, 4, 5, 8, 9}
    V6 = {8, 9}
    Networks <- MCNetworks
    Hostnames = {h1}
    any = any
    MaxPort = 3
    Wide = {{5}}
    Database = {3}
    HighRisk <- MCHighRisk
    Cleartext = {2}
    WideRange = 1
    Spelled <- MCSpelled
    Quoted <- MCQuoted
    all = all
    AnyWord = AnyWord
    Unfound = {9}
    Everything = {everything4, everything6}
    everything4 = everything4
    everything6 = everything6
    Broad = Broad
    Star = Star
    Internet = 5
    Unset = Unset
    Absent = Absent
    Unresolved = Unresolved
    Cases <- MCCases
    HostMaps <- MCHostMaps
    Baselines <- MCBaselines
    lan = lan
    sub = sub
    web = web
    web1 = web1
    public = public
    dual = dual
    g1 = g1
    g2 = g2
    g3 = g3
    ssh = ssh
    low = low
    ends = ends
    ends1 = ends1
    ping = ping
    full = full
    none = none
    world = world
    h1 = h1
INVARIANT WrittenIsFaithful
CHECK_DEADLOCK FALSE
