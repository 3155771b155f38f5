# Verification of py2fw

py2fw keeps firewall policies as YAML files. It validates and compiles them,
analyses them, holds them against an organisation's baseline, writes vendor
configurations, and takes a configuration from a plan over approvals to a
deployment, with an audit log of who did what. This directory models that code
in TLA+, checks it with TLC on small instances, and proves with TLAPS, for every
instance, nearly all of what the runs check: of the audit log, the way from a
plan to a deployment, the publication of a file, host pinning, the gate, the
analyses of a compiled policy, what is exported of it and what is checked of the export.

Paths below are relative to the repository; `src/` is its root here.

    tlc -config Audit.cfg MCAuditLog        # any run: <run>.cfg with its module
    tlapm AuditLogProofs.tla                # the proofs; so for ReleaseProofs,
                                            # PublishProofs, HostLockProofs, GateProofs,
                                            # SequenceLemmas, CompileProofs, ExportProofs

## 1. Inventory

py2fw is a command line program. Every command is a process of its own, runs
from top to bottom in one thread and keeps nothing in memory between runs.
Commands meet in files: the policy, the baseline, the lock file of pinned
hosts, the plan file, the audit log, the destination of a deployment with its
temporary file, and the snapshot of what was last deployed. No file is locked.
So there are two kinds of hard behaviour: what processes do to each other, to
an editor's changes and to their own crashes through those files, and what a
long chain of pure functions does to a policy between the file and the device.

| Component | State | Operations | Interacts with | What makes it correct | Modelled in |
|---|---|---|---|---|---|
| audit log, `release/audit.py` | lines of `audit.jsonl`, chained by hashes | `append_event`, `read_log`, `verify_log` | plan, approve and deploy append | verifies unless tampered with; tampering is seen; what is recorded stays | `EventLog`, `AuditLog` |
| review and deployment, `release/plan.py`, `main.py` | plan file, destination, snapshots | `create_plan`, `approve_plan`, `deploy_plan`, saving and loading plans | reads policy, lock, baseline; appends to the log; runs the deploy command | nothing is deployed that was not planned, approved by enough others and checked on the day; no hand in the plan file takes a signature's place; what is deployed is on record | `Release` |
| publication, `release/plan.py` | staged copy, temporary file, destination | write, `os.replace`, deploy command | a second deploy to one destination | a reader finds a whole configuration | `AtomicFile`, `Publish` |
| baseline and controls, `enforcement/baseline.py` | none | `resolve_controls`, `enforce_baseline` | gate, plan, deploy | an environment refines, and never drops, what the organisation asks for | `Controls`, `Guards` |
| gate, `analyzers/gate.py`, `cli/_pipeline.py` | none; time passes between runs | `evaluate_gate`, `load_controls`, `check_path` | every command that emits or deploys | blocks what the table of verdicts says; an exception serves its rule and finding only | `Gate`, `Severity`, `Compile` |
| host pinning, `compiler/hosts.py` | lock file | `resolve_document_hosts` | DNS; compile, plan, deploy | an address that was reviewed stays in use | `HostLock` |
| documents, `compiler/validator.py`, `resolver.py`, `builder.py` | none | `validate_document`, `resolve_group`, `build_ir` | everything behind them | what is valid compiles; a group is its members | `Documents` |
| evaluation, `engine/evaluate.py`, `compiler/ir.py`, `query.py` | none | `evaluate` | flow tests; meaning of all analyses | first match decides | `Policy` |
| shadowed, duplicate, unused, undocumented, `analyzers/` | none | `find_shadowed_rules`, `find_duplicate_rules`, `find_unused_*`, `find_documentation_gaps` | findings of the gate | what is reported is so; what is so is reported | `Shadow`, `Documents`, `Compile` |
| diff, `engine/diff.py` | none | `diff_policies` | reviewers of a plan | no change reported, no change made | `Diff` |
| patterns and tests, `enforcement/baseline.py`, `verify/regression.py` | none | `_matches`, `run_flow_tests` | gate | what passes them keeps to them on the device | `Guards` |
| attack surface and compliance, `analyzers/attack_surface.py`, `compliance.py` | none | `find_attack_surface`, `compliance_report` | gate; the report of `compliance` | nothing is open to the outside without a waiver; a control that passes is kept; both judge alike | `Guards`, `Exposure` |
| exporters, `exporters/` | none | `export`, `describe_lossiness` | compile, plan, deploy | the device decides as the policy does, or the export is refused | `Exporters`, `Objects` |
| checks of the output, `verify/config.py` | none | `check_intent`, `check_syntax` | compile, verify, plan, deploy | a right configuration is not refused; nothing missing is accepted | `Verify` |
| command line, `main.py` | none | plan, approve, deploy, compile, diff | all | order of checks and writes | `Release`, `Compile` |
| not modelled | | parser, source map, reports, graph, risk scores, grammars of texts, vendors' validators | | see section 7 | |

The hazards, each at its line and with the properties that watch it, are the
list `hazards` of `PROJECT.json`.

## 2. Modules

    EventLog <--implements-- AuditLog <--- MCAuditLog, AuditLogProofs
    AtomicFile <--implements-- Publish <--- MCPublish, PublishProofs
    Release (uses the log as EventLog has it) <--- MCRelease, ReleaseProofs
    Severity <--- Controls <--- Gate <--- MCGate, GateProofs
    HostLock <--- MCHostLock, HostLockProofs
    Policy <--- Documents, Shadow, Diff <--- Compile <--- MCCompile
    Policy, Severity <--- Guards <--- Exposure <--- Compile
    Policy <--- Exporters <--- Objects <--- Verify <--- Compile
    Compile <--- CompileProofs <--- ExportProofs
    SequenceLemmas <--- GateProofs, CompileProofs

**AuditLog** splits `append_event` where it can go wrong: `Read` reads the
whole file and builds the entry, `Write` opens the file and appends. `Tear`
stops a process inside the write, `Crash` between the two, `Restart` is the next
command of the caller. Cut inside the JSON, a write leaves an unreadable line, `Torn`;
cut just before the newline, it leaves an entry that reads well (`unended`), until the
next entry is written on its line and neither can be read (`Joined`).
`ReadFails` is `read_log` raising on an unreadable line.
`EditLine`, `SwapLines` and `DropLine` change a file by hand, once. A digest is
the sequence of everything it commits to, so SHA-256 is taken to be injective.
An event of `Splitting` has a character in its text at which `str.splitlines`
breaks the line. **EventLog** is what the log promises: a numbered sequence
that grows until it is closed for good, which may cost the last event and no other.

**Release** has one action for each stretch of a command between two accesses
to shared files: `PlanCheck`, `PlanSeal`, `PlanTruncate`, `PlanSave`;
`ApproveLoad`, `ApproveRecord`, `ApproveTruncate`, `ApproveSave`; `DeployLoad`,
`DeployHash`, `DeployVerify`, `DeployPublish`, `DeployRun`, `DeploySnapshot`,
`DeployCopyPolicy`, `DeployRecord`, each with its refusals, its failures and a
crash. Between any two of them other commands, an editor (`EditPolicy`,
`EditBaseline`, `RefreshPins`, `EditPlan`), a new key (`RotateKey`) and
`Midnight` can come. What a command reads from *several* files without writing
in between (policy, pins and baseline of one check) is read in one action,
except where the code compares a hash first and reads again later; that is two
actions. A version of a file is a model value and stands for its SHA-256.
`EditPlan` is an editor at work on the plan file: it changes the content, which
`load_plan` then refuses (`EditContent`), or the content and the plan_id with it
(`SealContent`; the digest is no secret), or adds or takes out an approval
(`AddApproval`, `RemoveApproval`; the plan_id does not cover them). What it cannot do is
make a signature without the key: those it writes are empty or copied. The history
variables `forged` and `resealed` note what it has made.
`Render`, `Passes`, `Required` and `Signs` are constants: what they compute is
the business of Gate and Compile.

**Publish** opens up `DeployPublish`: staged copy, temporary file and
destination are names of inodes, a text is written block by block, and a deploy
that has opened a file keeps writing to it after somebody else has renamed it. Texts
differ in `Length`: a file that is emptied and written by two deploys can be cut
short, and can have a hole where a block was written behind the cut.
**AtomicFile** is the file that changes in one step.

**Controls** is `resolve_controls` on the layers defaults and environment;
**Gate** is `check_path` and `evaluate_gate`, run on one policy on consecutive
days. **HostLock** is `resolve_document_hosts` one name at a time, with the lock
file truncated and written in two steps. The file is named after the stem of the
policy, so compiles of one file can have different names (`NameSets`): those of
`a.yaml` and `a.yml`, or of one policy before and after an edit.

**Policy** holds a compiled policy. A network is the set of its addresses and a
port specification the set of its ports, so that `ipaddress` and the arithmetic
of ranges become inclusion and intersection; the ends of ranges, which one
analysis looks at, can be told from the set. Beside the word "any", two
literals count as any address (`Everything`: 0.0.0.0/0 and ::/0); another spelling of the
whole of version 4 is a network like others. A service may have an empty list of
ports, which the schema takes. In **Documents** group resolution is a recursive
function of the set of groups on the way to a name, with the error as a value.
**Compile** takes a document
through `validate_document`, `build_ir`, the gate and an exporter
(`Invalid`, `BuildRaises`, `Build`, `Check`, `Disallowed`, `ExportRaises`,
`Lossy`, `Unverified`, `Write`: every way the command ends). Its gate judges the
findings of all analyses and of the forbidden patterns alike, as `_classify` does: by
severity against the threshold, and by exceptions where they count and the finding is
not critical.
In **Exporters** a configuration is, for each rule, the set of its lines; a line
says what its text says (ends, protocol or none, ports or none, the section it
is in). How a device reads lines (`LineMatches`, `Passed`) is not code of the
repository and is marked external: the first line that matches decides, a rule
without ports is for all ports, without a protocol for all protocols.

**Objects** has the exporters that define names and refer to them (Palo Alto,
FortiGate, Check Point): a configuration is its objects, groups, services and
rules, and a device that takes it (`Accepted`) looks the names up (`Loaded`), which
gives lines as those of Exporters. A value of an object gets a name that the
policy may have as well; `Spelled` says which. Check Point's word for any address,
`Any`, is a word of the target (`AnyWord`), which a policy may use as a name. **Verify** is
what `render_config` checks of a text before anybody sees it: the addresses and numbers
in it are those of its ends and ports, and those that names quote and, for Check Point,
descriptions (`Quoted`); the addresses that `_IPV6` does not match are `Unfound`. **Exposure**
has the findings about what is open to any address and the facts from which
`compliance` gives its verdicts.

## 3. Runs

Each run must pass, except those marked *violation*. Every property of a passing run has
a mutant in `PROJECT.json`: a plausible bug in a definition that TLC then finds.

| Run | Instance | What it shows |
|---|---|---|
| `Audit` | 2 writers, 3 events (one of which splits its line), 4 lines, one change by hand | Only overlapping appends, a change by hand or an unreadable line make `audit verify` fail (`IntactUnlessDisturbed`). A change before the last line is seen whatever is appended later (`InnerEditDetected`). Every entry extends an earlier one, in every fork; only an entry cut off before its newline can be lost from under another. Damage stays last, and nothing is written behind it. `ImplementsEventLog`: until the first overlap or change the file implements EventLog, and a crash costs one event at most. |
| `ReleaseReview` | 3 approvers, two baselines: `b1` asks for 2 signed approvals, `b2` for 1 unsigned one; one key or none, 1 edit (a swap of the baselines or a change of the plan file among them), 4 events, up to the first configuration written or refused | `CommittedHasQuorum`: before a deploy writes anything, as many people other than the author as the baseline in force asks for have run `approve` on exactly this plan, by the log; an approval written by hand counts only where the plan asks for no signatures. `PlanFileIsOnRecord`: approvals reach a plan file after the log, or by hand and then without a signature of their own. |
| `ReleaseDrift` | 2 policies, 2 lock files, 2 baselines that ask for an unsigned approval, 2 days, 1 edit, 3 events | Whatever changes between plan and deploy, a deployment is of a plan that was made, or whose plan_id somebody computed by hand, and that was reviewed as a version of its baseline asks, and that was found deployable if anybody had to approve it (`DeploymentsAreJustified`, `DestinationWasReviewed`; approvals written by hand take the place of a review, since no signatures are asked for; `deploy_plan` never looks at `deployable`, it checks again), and passes the gate under the controls and on the day of the deployment (`CommittedPassedTheGate`). |
| `ReleaseOutlets` | one deployer, every combination of `--to`, `--run`, `--dry-run`, failing commands, crashes, 4 events (two plans, two deployments) | At rest, unless a deploy stopped half way, what is in the destination or on the device is on record; the snapshot is the last deployment. The exception for a deploy that comes between another's snapshot and its event needs two deployers: it is in the theorem only. |
| `ReleaseFair` | 2 deployers, plans with and without a baseline, fairness | `PublishedIsRecorded`: a deploy that has published gets its event, unless something stops. |
| `Publish` | 2 deployers, a text of 4 blocks and one of 2, 4 inodes | One deploy at a time, with crashes and what they leave behind, implements AtomicFile and hands the command its own text. In every overlap the destination is complete up to the length of the shorter text once all have ended without a crash; behind it the longer one can be cut off or have a hole. |
| `Gate` | 4 baselines (none, and with up to two environments), 2 rules, 3 analyses, exceptions that expire, tests, `--env`, `--fail-on`, 4 days | The table of verdicts in `docs/guardrails.md` (`BlocksAsDocumented`); neither `--fail-on` nor an environment drops a control of the organisation; time opens the gate at most once; exceptions reported as unused can go. |
| `HostLock` | 2 compiles, policies with 2 names and with 1 on one lock file, 2 addresses, literal / resolve / refresh | Undisturbed, an address that was used stays in use until a refresh, also when the DNS changes or fails and when a policy gains a name. |
| `Compile` | about 2550 pairs of documents, 8 addresses of two versions, 3 ports, 9 targets, no baseline or one with patterns of three severities under each of the four thresholds (under one of them exceptions do not count) | Eleven statements, below. |
| `AuditOverlap` *violation* | as `Audit` | Two commands that append at once fork the chain, and `audit verify` reports tampering. |
| `ReleaseUnrecorded` *violation* | one deployer | A deploy whose command does not start, or whose policy is gone, has published and recorded nothing. |
| `CompileFaithful` *violation* | as `Compile` | nftables loses the protocol of a service with all ports; what is written without a warning lets denied packets through. |

`Compile` sends every packet of its universe through policy and device:

- `GroupsResolveToMembers`: a group is what can be reached from it, and resolving
  raises exactly if a cycle can be reached.
- `UnusedCanGo`: what `analyze` calls unused can be removed without a change to
  validity or to any decision (documents with flow tests excepted: a test may
  name an object that no rule uses, and removing it makes the document invalid).
- `ReportedRulesAreUnreachable`: a rule called shadowed or redundant decides
  nothing, if the rule it is blamed on has one protocol and one range of ports.
- `OppositeRulesAreReported`: of two rules that decide a packet in opposite ways
  the later is reported, unless one mixes icmp with ports.
- `UnchangedPoliciesDecideAlike`: no change found by `diff` means equal
  decisions, for rules with unique names in one order.
- `ExportIsFaithful`: for iptables and FortiGate (version 4), Cisco ASA, Azure,
  Check Point and Palo Alto, what is written without a warning decides every
  packet as the policy; for AWS it passes no more than the allow rules do by
  source and service. A device has to take the configuration, no name of the
  policy may read like one the exporter makes up, or like a word of the target,
  and a tcp or udp service must have a port (`Faithful`).
- `NothingForbiddenIsExported`: a packet between networks that a baseline
  pattern forbids passes the device only by a rule that has an exception for
  that very pattern, and only where exceptions count and the pattern is not
  critical; or because the pattern is below the threshold. Whatever other rules
  and groups allow, and whatever else is waived, does not help it through.
- `TestedFlowsAreKept`: two probes per network are enough: what was written
  decides *every* packet of a tested flow as expected, if no other network of
  the policy lies inside the tested one.
- `ExposureIsWaived`: a packet from an address that the policy does not list
  passes the device only to an address it lists; and, unless only critical
  findings count, on a watched port only by a rule that has an exception for that
  very finding, where exceptions count.
- `PassedControlsHold`: a control of `compliance` that passes is kept by every
  decision, and the two modules that look for broad sources name the same rules.
- `VerificationAcceptsExports`: the checks of the output refuse nothing that an
  exporter has made of a policy whose texts quote no foreign address and whose
  networks can all be found (and, for Check Point, that names no service like a
  made-up one).

**Bounds.** Each is a named constant. Two processes show every race the code has,
because shared files hold one value and a third process can only repeat a step of the
second; `ReleaseReview` has three approvers since a quorum of two needs a forbidden one
beside it. Four events are a plan, two approvals and a deployment, or two plans with two
deployments. One change by hand is enough for one forged approval beside a real one, or
for a plan sealed anew. Two versions of a file are enough for one to be approved and the
other found in its place. In Compile a network of four addresses has addresses that are
not probed, smaller networks inside it and others beside it, each version has addresses
outside every network, and three ports have a gap. A text of four blocks beside one of
two has room for a hole. `MaxEvents`, `MaxEntries` and `MaxDay` only stop commands from
starting, never a command on its way (in `ReleaseReview` the constraints
`BeforeDeployment` and `TwoPlans` also end the search behind the first configuration
that was written, which is what its properties are about); these runs therefore do not
check for deadlock, as a model at its bound stops; HostLock and Publish have no such
bound and do. HostLock follows a behaviour until a second kind of disturbance
(`OneDisturbance`), after which its properties say nothing.

**Fairness.** Only `FairSpec` of Release has it: weak fairness of the steps of a
deploy that is on its way. It waits for nothing but its deploy command, which
is taken to end; there are no locks, so nobody can keep it from a step. Starting
a command, crashing, editing and the clock are not fair.

## 4. Proofs

TLC shows a property on the instances above; TLAPS proves it for every value of
the constants. All 35 invariants of the passing runs are proved, and all five
action and temporal properties but the one that needs fairness. Every
proof goes the same way: an inductive invariant, a lemma for each action that can
disturb it, and the property as a consequence. The theorems are listed under
`theorems` in `PROJECT.json`.

**AuditLogProofs** (any writers, events and lengths; SHA-256 injective).
`IntactUnlessDisturbed` is not inductive: it says nothing about an entry that was read
but not yet written. `ChainInv` adds `OneInside` (without overlap at most one writer is
between its steps) and `PendingFits` (what it holds extends the last line).
`InnerEditDetected` follows from it and from lemmas on sequences: an edited line breaks
its own digest, exchanged lines their numbers, a missing inner line the numbers behind
it, and a broken log stays broken under `Append`. `ForkInv` says of every pending entry
that it extends a line that is there, or was there and has been joined with another:
this holds in any overlap, and so does `EveryEntryExtendsAnEarlierLine`. `DamageInv`
adds that a writer at work has read all there is, so that nobody appends behind damage.
With both, each step is a step of EventLog or a stutter (`LogImplementsEventLog`); an
append that joins an unended entry is the closing that costs the last event.

**ReleaseProofs** (any people, policies, baselines, keys, gates, quorums, any number of
commands at once). `ProtocolInv` is `TypeOK`, `BackedInv` and `CommitInv`. `BackedInv`
follows a plan wherever it is: in the file, in the memory of the author, of an approver,
of a deployer, its plan_id is on record or `resealed`; each of its approvals is on
record, of a plan found deployable, or `forged`; and each signature was made by its
approver for the plan it names (`SignatureKnown`), since an editor can only leave it
empty or copy it. So a forged approval counts only where the plan asks for no signatures
(`UnsignedAssumption`: an empty signature is none). `CommitInv` says of a deploy past
its checks that the review and the gate it saw were those of its plan. From these come
`PlanFileIsOnRecord`, `CommittedHasQuorum`, `CommittedPassedTheGate` and
`DeploymentsAreJustified`. `DestinationInv`, `AuditedInv` and `SnapshotInv` say of what
is in the destination, on the device and in the snapshot where it comes from while
deploys are on their way; at rest that is `DestinationWasReviewed`,
`DeploymentsAreAudited` and `SnapshotIsLastDeploy`. The last holds only if no deploy
wrote its snapshot while another had yet to record its event; `incidents` notes that,
beside the stops half way.

**PublishProofs** (any deploys, texts, blocks; enough inodes). `HandleInv`: who has a
file open is writing. `HolesInv`: a block that every text has and that is missing of a
file with a name will still be written by a deploy that has the file open, however the
deploys overlap; hence `NothingIsMissingAtRest`. `SoloInv`: what a deploy that runs
alone has written so far; with it each step is one of AtomicFile or a stutter.

**HostLockProofs** (any compiles, names, addresses). `QuietInv`: as long as nothing
disturbs, one compile runs at a time, what it has in memory is what was last
used, except for names it is about to change, and it is the lock file again when
it emits.

**GateProofs** (any policies, baselines, exceptions, limits and days). A check is a
loop that moves findings to lists. `CheckInv` says for every phase how much of the
sets `JudgedItems`, `FailedItems` and `UnusedItems` is there already; these depend on
what the check is given and the day alone. For the table of verdicts two lemmas
count: the sections of the items have no finding in common, and a finding is
waived exactly if an exception in force is for it. That needs at most one
exception for each finding (`OneExceptionPerFinding`, a hypothesis of
`BlocksCorrect`; section 5 says what happens otherwise), and that no analysis has
the title "Unused exception" (`PoliciesAssumption`).

**CompileProofs** (any document that the schema and `validate_document` let through,
any pins, baselines, networks and packets). `CompileInv` says for every stage what
is known: which document, that the policy is `BuildIR` of it, that the gate has
passed, that the device has what was written. `IsPolicy` is what every analysis takes
for granted of a compiled policy: names mean finite, non-empty sets of values,
"any" is there, rules refer to names that are there. It holds of `BuildIR` of a valid
document that does not raise; the hard part is group resolution. `Resolve` is a
recursive function on the sets of groups that are open, and `ResolutionExists` proves
by `SetInduction` over the number of groups not yet open that the function is what its
equation says, which the provers do not take for granted. Nothing in that equation
says that paths give what reachability gives; for it `GroupMeans` says, of every set
of open groups, what a name is resolved to: `Unresolved` if an open group or a cycle
can be reached from it, otherwise the values of the objects that
can be reached (`ResolvedIsMeant`, by the same induction). What can be reached is
`Within`, which adds members as often as there are groups; that this is enough, so that
the set is closed and the least closed one (`WithinClosed`, `WithinLeast`), is a count
of the groups each round must add. With the same lemmas a document without its unused
names resolves the names that are left as before (`PartResolvesAlike`), so it is valid
and its rules match alike (`UnusedIsNeedless`). On
`IsPolicy` rest, for a packet at a time: a rule covered by one of a single range
matches nothing the other does not; two rules that one packet tells apart
overlap; equal signatures match alike; a control that passes is kept.

**ExportProofs** (seven targets; for the checks of a text all nine). A device `Mirrors`
a policy for a packet if it has a rule for each of the policy's, with the same action,
whose lines match the packet exactly if the rule does; then their decisions are the
same. For iptables, Cisco ASA and Azure this is a statement about the lines of one rule
(`LinesMirror`). For Palo Alto, FortiGate and Check Point each name in a rule has to be
looked up as what it was in the policy. It is, because made-up names are injective
(`ValueList`, `MemberName`) and keep clear of the policy's, and because nothing is left
out (`NamesMeanAlike`). AWS gets its own lemma, as it only allows. With
`DeviceDecidesAlike` what the gate found out about the policy is true of the device: a
rule that allows a forbidden packet has a finding of that pattern
(`ForbiddenRuleIsFound`), and what the gate has not blocked is below the threshold or
has an exception of its own (`FindingIsWaived`); every packet of an uncut network is
treated as the probe of that network; a packet from outside passes only by a rule with a
finding of the same kind. For the checks of a text (`VerificationCorrect`) each exporter
is shown to write the ends and ports of every rule and no other (`LinesShow` for lines,
`ObjectsShow` and `ListsShow` for objects), and Check Point's names to be defined once;
`ShownIsIntended` says that this is what `check_intent` asks, if the addresses it needs
can be found.

**SequenceLemmas** has what no library theorem states in a form the provers can use:
induction over the natural numbers for a set in place of a predicate
(`SetInduction`, from a theorem about finite sets: the induction theorems of the
library take an operator, which the provers cannot instantiate), and with it what
is in a `FlattenSeq`, a recursive function of the community modules.

**Assumptions.** They are named, stand in the module that declares the constant,
and TLC evaluates them in each of its runs. Besides types and bounds they are:

| Assumption | Why the code justifies it |
|---|---|
| `VoidAssumption`, `DamageAssumption`, the `NamesAssumption` of Release, HostLock and Publish, `NoRequestAssumption`, `AllAssumption`, `WordsAssumption`, `EverythingAssumption` | markers of the model, words of targets and the literals for any address are none of the values they stand beside |
| `UnsignedAssumption` | the empty string is no HMAC |
| `LengthAssumption` | a text has at least one block |
| `UnfoundAssumption` | `_IPV4` matches every address of version 4 |
| `RenderAssumption`, `PassesAssumption`, `ControlsAssumption` | what Compile and Gate compute has a type; Release needs no more |
| `FilesAssumption` | the file system has an inode for each deploy and two more |
| `PoliciesAssumption`, `BaselinesAssumption`, `CasesAssumption` with `IsDocument` | what the pydantic models let through |
| `AddressesAssumption`, `NetworksAssumption` | networks are intervals of one version that nest or are disjoint, as CIDR blocks do |
| `ValuesAssumption`, `UnresolvedAssumption` | "any" is a word, no network; hostnames are neither; the exception of `resolve_group` is no set of values |
| `HostMapsAssumption` | a pin has addresses (`hosts.py` leaves a name without an answer out) |
| `TitlesAssumption` | the titles of `attack_surface.py` differ |
| `SpelledAssumption`, `MadeUpAssumption` | a name that an exporter makes up, `web_1`, comes from one name and one number; it is no word of the target, be it made of an address (FortiGate, Palo Alto) or of a service (Check Point). Those that read like a name of the policy are listed in `Spelled`, all others are pairs that are no names |

That nothing in a policy reads like a made-up name is no assumption, since nothing
keeps a user from naming an object `web_1`: it is `NamesAreApart`, a condition in the
statements about exporters.

**Only model-checked.** `PublishedIsRecorded` is liveness under fairness, which the
prover does not do. So are the three violations, which are counterexamples, and
that the instances reach every action.

## 5. What the documentation says and TLC refutes

Three of these are runs. The others are definitions in the modules, behind "What
the documentation says and the code does not do"; put the definition in place of
the properties of the run to see the behaviour.

| Statement | Says | Run | What happens |
|---|---|---|---|
| `OnlyTamperingIsReported` | "hash chain for tampering", `main.py:461` | `AuditOverlap` | two appends at once write the same number and link (`audit.py:41`) |
| `EveryEditDetected` | "deleting any line breaks the chain", `audit.py:4` | `Audit` | the last line can go |
| `WholeEntriesAreReadable` | "JSON Lines", `audit.py:1` | `Audit` | U+2028 in a comment splits an entry and every later command raises (`audit.py:34`) |
| `RecordedForGood` | "Append-only", `audit.py:1` | `Audit` | an entry whose write was cut before the newline is joined by the next one, and both are lost (`audit.py:53`) |
| `EveryDeploymentIsRecorded` | "every ... deployment is appended", `docs/guardrails.md:207` | `ReleaseUnrecorded` | `plan.py:390` and `:411` raise after `os.replace` |
| `EveryRefusalIsRecorded` | "every ... refusal", same line | `ReleaseDrift` | `load_plan` refuses before there is an event (`plan.py:225`) |
| `EditedPlansAreRefused` | "editing the plan file afterwards invalidates it", `docs/guardrails.md:178` | `ReleaseReview`, `ReleaseDrift` | the plan_id covers neither approvals nor itself (`plan.py:202`, `:225`): approvals can be written in, which count where no signatures are asked for (`plan.py:282`) |
| `ApprovalIsKept` | "`approve` adds an approval", `docs/guardrails.md:182` | `ReleaseReview` | two approvers save over each other (`main.py:407`) |
| `SnapshotPolicyWasDeployed` | "against what was last deployed", `docs/guardrails.md:174` | `ReleaseOutlets` | the policy is copied after the deployment, as it is then (`plan.py:411`) |
| `DeployedUnderApprovedBaseline` | baseline "still match[es] the approved hashes", `docs/guardrails.md:200` | `ReleaseDrift` | it is hashed and then read again (`plan.py:321`) |
| `CountedApprovalsAreSigned` | "approvals must carry an HMAC", `docs/guardrails.md:184` | `ReleaseReview` with `PlanOptions = {TRUE, FALSE}` | a plan made without a baseline and deployed under one counts unsigned approvals (`plan.py:282`) |
| `DestinationIsWhole` | "write the config atomically", `docs/guardrails.md:205` | `Publish` | two deploys share a temporary file (`plan.py:383`) |
| `NoHoleAtRest` | the same sentence | `Publish` | of two overlapping deploys the one with the shorter text empties the shared file under the other, which goes on behind the end (`plan.py:384`) |
| `OneWaiverOneFinding` | "for one analyzer finding on one rule", `schema.py:60` | `Gate` | two rules of one name share it (`gate.py:136`) |
| `LaterCompilesAreDeterministic` | "later compiles are deterministic", `hosts.py:4` | `HostLock` | a crash in `_write_lock` loses all pins (`hosts.py:59`); a policy with the same stem drops those of the other (`hosts.py:104`) |
| `WrittenIsFaithful` | refuses "when the target can't express the policy faithfully", `docs/guardrails.md:132` | `CompileFaithful` | `nftables/exporter.py:70`; also icmp in `kubernetes/exporter.py:55`, version 6 in `iptables/exporter.py:61`; a tcp service with `port: []` matches nothing in the policy and is written for all ports by every exporter |
| `ForbiddenIsNeverDeployed` | "must never be deployed", `enforcement/baseline.py:36` | `Compile` | an exception waives the finding of a pattern that is not critical, and a pattern below the threshold is a warning (`gate.py:87`) |
| `ValidDocumentsCompile` | "Groups [...] must not reference each other in a cycle", `docs/guardrails.md:41` | `Compile` | groups that contain each other pass the validator; the error is not handled (`main.py:101`) |
| `ShadowedIsNeverReached` | "Never reached", `shadow_rules.py:134` | `Compile` | ports of several protocols are put together, gaps are not seen (`shadow_rules.py:59`) |
| `ExportersAnswer` | "exit 3" when the target can't express the policy, `docs/guardrails.md:132` | `Compile` | a hostname, or 0.0.0.0/0 beside ::/0, makes the FortiGate exporter raise an error that is not handled (`fortigate/exporter.py:73`) |
| `WrittenIsAccepted` | the same sentence | `Compile` | Palo Alto: services for icmp or all ports are used and not defined (`paloalto/exporter.py:81`), hostnames are written as netmasks; FortiGate: networks of version 6 are written as `set subnet` |
| `DroppedRulesAreNoticed` | "catches dropped rules", `verify/config.py:8` | `Compile` | the addresses and ports of a rule are looked for anywhere in the text (`config.py:104`) |
| `ExportsAreVerified` | "every address [...] an enabled rule needs must appear in it", `verify/config.py:6` | `Compile` | it does, but `_IPV6` does not find `fd00::` or `::1` in the text (`config.py:25`), and right configurations are refused |
| `NoChangeIsNoChange` | "No semantic changes.", `main.py:620` | `Compile` | the order of rules is not compared (`diff.py:84`) |

One more was left out of the instances: two exceptions for one finding. The
validator warns only, and the later one replaces the earlier even if it has
expired (`gate.py:120`), so `BlocksAsDocumented` is checked for policies with at
most one exception for each finding.

## 6. Plan

Done so far: the modules above, in the order audit log, release, publication,
gate, host pinning, the pure part from documents to devices, then the exporters
by object names, the checks of their output, attack surface and compliance, and
policies that share a lock file; then the proofs of section 4.

1. Model: the score of a diff (`_risk`); several policies in one `check`.
2. Compose: Release with the log of AuditLog instead of EventLog, for a deploy
   that overlaps an approval; Release with HostLock, for a refresh between the
   two readings of the lock file.
3. Prove: that the log of AuditLog, put in the place of EventLog, keeps the
   theorems of Release; and, for nftables and Kubernetes, about which `ExportIsFaithful`
   says nothing, what is left of faithfulness (section 5 has where it ends).

## 7. Not modelled

Parsing of YAML and ports, the source map, messages, reports and graphs are text in and
text out. The risk score is a sum that nothing judges. Of the checks of a configuration
the grammars of `_syntax.py` are left out: they look at the form of a text. They can
refuse what the exporters modelled here write: where a rule's name has a newline, which
breaks a line in two, and for more than about 4000 Azure rules. The native validators
are other programs. In Verify, numbers of a text that are no ports (priorities, prefix
lengths) are left out; they can only stand in for a port that is missing. A hostname
that is not pinned is a value that matches no address, in the policy and on the device;
what a device resolves it to is not in the repository. `optimize_ir` returns its
argument.
