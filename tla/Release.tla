------------------------------ MODULE Release ------------------------------
(***************************************************************************)
(* Review, approval and controlled deployment: release/plan.py with the    *)
(* commands of main.py that drive it.                                      *)
(*                                                                         *)
(* `py2fw plan`, `approve` and `deploy` are separate processes that meet   *)
(* only in files: the policy, its lock file and the baseline they read,    *)
(* the plan file they hand on, the audit log, the destination and the      *)
(* snapshot of what was last deployed.  Every action below is the stretch  *)
(* of one command between two accesses to those files, so that everything  *)
(* another command, an editor or a crash can do in between is a behaviour. *)
(*                                                                         *)
(* What a command computes is a constant operator: the configuration a     *)
(* policy renders to, whether the gate and the checks of the rendered      *)
(* configuration leave no blocker, and the controls a baseline resolves    *)
(* to.  A version of a file stands for its content and for its SHA-256;    *)
(* a plan_id is the digest of a content record.  The audit log is used at  *)
(* the level of EventLog.                                                  *)
(***************************************************************************)
EXTENDS Naturals, Sequences, FiniteSets

CONSTANTS
    Authors,       \* names given with `plan --author`
    Approvers,     \* names given with `approve --by`
    Deployers,     \* names given with `deploy --actor`, one process each
    Policies,      \* versions of the policy file
    Pins,          \* versions of its lock file
    Baselines,     \* versions of the baseline file
    Configs,       \* rendered configurations
    Keys,          \* values of PY2FW_APPROVAL_KEY
    NoFile,        \* there is no such file
    Partial,       \* a file whose writer stopped before the end
    NoBaseline,    \* no baseline is in force
    NoKey,         \* PY2FW_APPROVAL_KEY is not set
    Unsigned,      \* the empty signature
    Render(_, _),        \* policy, pins: the configuration for the target
    Passes(_, _, _, _),  \* policy, pins, baseline, day: no blockers
    Required(_),         \* required_approvals of a baseline
    Signs(_),            \* sign_approvals of a baseline
    PlanOptions,   \* bound: whether `plan` is run with a baseline, without, both
    Shells,        \* bound: the ways `deploy` is run
    MaxDay,        \* bound: days the clock runs through
    MaxEdits,      \* bound: changes to policy, baseline, lock, key, plan file
    MaxEvents      \* bound: no command starts when the log is this long

ASSUME RenderAssumption ==
    \A p \in Policies, s \in Pins : Render(p, s) \in Configs
ASSUME ControlsAssumption ==
    \A b \in Baselines : Required(b) \in Nat /\ Signs(b) \in BOOLEAN
ASSUME PassesAssumption ==
    \A p \in Policies, s \in Pins, b \in Baselines \cup {NoBaseline}, t \in 1..MaxDay :
        Passes(p, s, b, t) \in BOOLEAN
ASSUME BoundsAssumption ==
    MaxDay \in Nat \ {0} /\ MaxEdits \in Nat /\ MaxEvents \in Nat
ASSUME OptionsAssumption ==
    /\ PlanOptions \subseteq BOOLEAN
    /\ Shells \subseteq [to : BOOLEAN, run : BOOLEAN, dry : BOOLEAN, env : BOOLEAN]
ASSUME ApproversAssumption == IsFiniteSet(Approvers)
ASSUME NamesAssumption ==
    /\ NoFile \notin Policies \cup Baselines \cup Configs \cup {Partial, NoBaseline}
    /\ NoBaseline \notin Baselines
    /\ NoKey \notin Keys

VARIABLES
    policy, pins, baseline,  \* the files the checks read
    planFile,                \* the plan file
    log,                     \* the events of the audit log
    destination,             \* the file given with --to
    device,                  \* what the last deploy command applied
    snapshotConfig,          \* deployed/<env>/<target>.cfg
    snapshotPolicy,          \* deployed/<env>/<target>.policy.yaml
    day, key,                \* the date; the key new processes are given
    edits,                   \* how many changes were made to the files
    forged,                  \* history: the approvals written by hand
    resealed,                \* history: the plan_ids computed by hand
    ppc, check, draft,       \* plan: where it is, its check, its plan
    apc, working,            \* approve: where it is, its plan in memory
    dpc, shell, loaded,      \* deploy: where it is, its options, its plan
    controls, counted,       \* deploy: baseline and date it was verified under,
                             \* counted approvers
    incidents                \* history: how deploys ended that had published
                             \* but recorded nothing, and whether two of them
                             \* wrote the snapshot at a time

files    == <<policy, pins, baseline>>
world    == <<destination, device, snapshotConfig, snapshotPolicy>>
byHand   == <<forged, resealed>>
clock    == <<day, key, edits, byHand>>
planning == <<ppc, check, draft>>
approval == <<apc, working>>
memory   == <<shell, loaded, controls, counted>>
deploying == <<dpc, memory, incidents>>
outside  == <<files, planFile, clock, planning, approval>>
vars == <<files, planFile, log, world, clock, planning, approval, deploying>>

-----------------------------------------------------------------------------
(* Plans, controls and events.                                             *)

\* The controls without a baseline are the defaults of Controls.
RequiredBy(b) == IF b = NoBaseline THEN 0 ELSE Required(b)
SignsBy(b)    == IF b = NoBaseline THEN FALSE ELSE Signs(b)

Content == [author : Authors, created : Nat, policy : Policies,
            baseline : Baselines \cup {NoBaseline}, required : Nat,
            sign : BOOLEAN, deployable : BOOLEAN, config : Configs]

\* SHA-256 of the canonical content, taken to be injective.
PlanId(content) == [sha256 |-> content]
PlanIds == [sha256 : Content]

Signatures == [plan_id : PlanIds, by : Approvers, key : Keys]

ASSUME UnsignedAssumption == Unsigned \notin Signatures

Approval == [by : Approvers, signature : Signatures \cup {Unsigned}]

Plan == [plan_id : PlanIds, content : Content, approvals : SUBSET Approval]

\* _sign
Sign(id, approver, k) ==
    IF k = NoKey THEN Unsigned ELSE [plan_id |-> id, by |-> approver, key |-> k]

\* valid_approvers: names count once, the author's never, and where the plan
\* asks for signatures only those the deployer's own key reproduces.
ValidApprovers(plan, k) ==
    {name \in Approvers :
        /\ name # plan.content.author
        /\ \E a \in plan.approvals :
              /\ a.by = name
              /\ plan.content.sign =>
                    /\ k # NoKey
                    /\ a.signature = Sign(plan.plan_id, name, k)}

\* load_plan: readable JSON whose plan_id is the digest of its content.
Loadable(file) ==
    /\ file \notin {NoFile, Partial}
    /\ file.plan_id = PlanId(file.content)

EventKinds == {"plan", "approve", "deploy_refused", "deploy_failed", "deploy"}

Event == [event : EventKinds, actor : Authors \cup Approvers \cup Deployers,
          plan_id : PlanIds, approvers : SUBSET Approvers]

\* Mutant: the event does not name the plan.
EntryWithoutPlan(event, actor, id, approvers) ==
    [event |-> event, actor |-> actor, approvers |-> approvers]

Entry(event, actor, id, approvers) ==
    [event |-> event, actor |-> actor, plan_id |-> id, approvers |-> approvers]

\* append_event, as EventLog has it.
Record(event, actor, id, approvers) ==
    log' = Append(log, Entry(event, actor, id, approvers))

Room == Len(log) < MaxEvents

PlanGoes(a, from, to)    == ppc[a] = from /\ ppc' = [ppc EXCEPT ![a] = to]
ApproveGoes(a, from, to) == apc[a] = from /\ apc' = [apc EXCEPT ![a] = to]
DeployGoes(d, from, to)  == dpc[d] = from /\ dpc' = [dpc EXCEPT ![d] = to]

-----------------------------------------------------------------------------
(* plan                                                                    *)

\* check_path and render_config: policy, lock file and baseline are read,
\* analysed and rendered.  The baseline is in force when it is given or
\* PY2FW_BASELINE is set; if its file is missing the command ends.
PlanCheck(a, given) ==
    LET b == IF given THEN baseline ELSE NoBaseline IN
    /\ PlanGoes(a, "idle", "checked") /\ Room
    /\ policy # NoFile /\ b # NoFile
    /\ check' = [check EXCEPT ![a] =
         [baseline |-> b, required |-> RequiredBy(b), sign |-> SignsBy(b),
          deployable |-> Passes(policy, pins, b, day),
          config |-> Render(policy, pins)]]
    /\ UNCHANGED <<files, planFile, log, world, clock, draft, approval, deploying>>

\* Policy and baseline are read a second time for their hashes, the content is
\* sealed with its plan_id and the "plan" event recorded.
PlanSeal(a) ==
    LET hashed  == IF check[a].baseline = NoBaseline THEN NoBaseline ELSE baseline
        content == [author |-> a, created |-> day, policy |-> policy,
                    baseline |-> hashed, required |-> check[a].required,
                    sign |-> check[a].sign, deployable |-> check[a].deployable,
                    config |-> check[a].config]
    IN
    /\ PlanGoes(a, "checked", "sealed") /\ policy # NoFile /\ hashed # NoFile
    /\ draft' = [draft EXCEPT ![a] =
         [plan_id |-> PlanId(content), content |-> content, approvals |-> {}]]
    /\ check' = [check EXCEPT ![a] = NoFile]
    /\ Record("plan", a, PlanId(content), {})
    /\ UNCHANGED <<files, planFile, world, clock, approval, deploying>>

\* save_plan empties the file before it writes it.
PlanTruncate(a) ==
    /\ PlanGoes(a, "sealed", "saving")
    /\ planFile' = Partial
    /\ UNCHANGED <<files, log, world, clock, check, draft, approval, deploying>>

PlanSave(a) ==
    /\ PlanGoes(a, "saving", "idle")
    /\ planFile' = draft[a]
    /\ draft' = [draft EXCEPT ![a] = NoFile]
    /\ UNCHANGED <<files, log, world, clock, check, approval, deploying>>

\* The process stops, or sha256_file does not find a file any more.
PlanStop(a) ==
    /\ ppc[a] # "idle"
    /\ ppc' = [ppc EXCEPT ![a] = "idle"]
    /\ check' = [check EXCEPT ![a] = NoFile]
    /\ draft' = [draft EXCEPT ![a] = NoFile]
    /\ UNCHANGED <<files, planFile, log, world, clock, approval, deploying>>

PlanStep(a) ==
    \/ \E given \in PlanOptions : PlanCheck(a, given)
    \/ PlanSeal(a)
    \/ PlanTruncate(a)
    \/ PlanSave(a)
    \/ PlanStop(a)

-----------------------------------------------------------------------------
(* approve                                                                 *)

\* approve_plan has no reason to refuse.
MayApprove(a, plan) ==
    /\ a # plan.content.author
    /\ plan.content.deployable
    /\ \A x \in plan.approvals : x.by # a
    /\ plan.content.sign => key # NoKey

\* The plan is loaded and checked, and the approval added to it in memory.  A
\* refused approval changes nothing and is not recorded.
ApproveLoad(a) ==
    /\ ApproveGoes(a, "idle", "approving") /\ Room
    /\ Loadable(planFile) /\ MayApprove(a, planFile)
    /\ working' = [working EXCEPT ![a] =
         [planFile EXCEPT !.approvals =
            @ \cup {[by |-> a, signature |-> Sign(planFile.plan_id, a, key)]}]]
    /\ UNCHANGED <<files, planFile, log, clock, world, planning, deploying>>

\* The "approve" event is recorded before the plan file is written.
ApproveRecord(a) ==
    /\ ApproveGoes(a, "approving", "recorded")
    /\ Record("approve", a, working[a].plan_id, {})
    /\ UNCHANGED <<files, planFile, world, clock, planning, working, deploying>>

\* Mutant: the plan is saved without waiting for the record.
ApproveTruncateEarly(a) ==
    /\ apc[a] \in {"approving", "recorded"}
    /\ apc' = [apc EXCEPT ![a] = "saving"]
    /\ planFile' = Partial
    /\ UNCHANGED <<files, log, world, clock, planning, working, deploying>>

ApproveTruncate(a) ==
    /\ ApproveGoes(a, "recorded", "saving")
    /\ planFile' = Partial
    /\ UNCHANGED <<files, log, world, clock, planning, working, deploying>>

ApproveSave(a) ==
    /\ ApproveGoes(a, "saving", "approved")
    /\ planFile' = working[a]
    /\ UNCHANGED <<files, log, world, clock, planning, working, deploying>>

ApproveCrash(a) ==
    /\ apc[a] \in {"approving", "recorded", "saving"}
    /\ apc' = [apc EXCEPT ![a] = "idle"]
    /\ working' = [working EXCEPT ![a] = NoFile]
    /\ UNCHANGED <<files, planFile, log, clock, world, planning, deploying>>

\* The same person runs the command again.
ApproveAgain(a) ==
    /\ ApproveGoes(a, "approved", "idle")
    /\ working' = [working EXCEPT ![a] = NoFile]
    /\ UNCHANGED <<files, planFile, log, clock, world, planning, deploying>>

ApproveStep(a) ==
    \/ ApproveLoad(a)
    \/ ApproveRecord(a)
    \/ ApproveTruncate(a)
    \/ ApproveSave(a)
    \/ ApproveCrash(a)
    \/ ApproveAgain(a)

-----------------------------------------------------------------------------
(* deploy                                                                  *)

\* Where a deploy command ends.
Exits == {"idle", "refused", "checked only", "deployed", "failed", "error", "crashed"}

\* Where a deploy command has passed every check and not ended.
Committed == {"verified", "published", "applied", "snapshotted", "recorded"}

\* The options --to, --run and --dry-run, and what the process finds in its
\* environment: PY2FW_BASELINE and PY2FW_APPROVAL_KEY.
Shell == [to : BOOLEAN, run : BOOLEAN, dry : BOOLEAN, env : BOOLEAN,
          key : Keys \cup {NoKey}]

DeployLoad(d, s) ==
    /\ dpc[d] \in Exits /\ Room
    /\ Loadable(planFile)
    /\ dpc' = [dpc EXCEPT ![d] = "loaded"]
    /\ shell' = [shell EXCEPT ![d] = [to |-> s.to, run |-> s.run, dry |-> s.dry,
                                      env |-> s.env, key |-> key]]
    /\ loaded' = [loaded EXCEPT ![d] = planFile]
    /\ UNCHANGED <<outside, log, world, controls, counted, incidents>>

\* load_plan refuses the file, before deploy_plan is called.
DeployLoadRefused(d) ==
    /\ dpc[d] \in Exits \ {"refused"}
    /\ planFile # NoFile /\ ~Loadable(planFile)
    /\ dpc' = [dpc EXCEPT ![d] = "refused"]
    /\ UNCHANGED <<outside, memory, log, world, incidents>>

\* A process that has ended remembers nothing.
Forget(d) ==
    /\ shell' = [shell EXCEPT ![d] = NoFile]
    /\ loaded' = [loaded EXCEPT ![d] = NoFile]
    /\ controls' = [controls EXCEPT ![d] = NoFile]
    /\ counted' = [counted EXCEPT ![d] = {}]

FilesMatch(content) ==
    /\ policy = content.policy
    /\ content.baseline # NoBaseline => baseline = content.baseline

Refuse(d) ==
    /\ dpc' = [dpc EXCEPT ![d] = "refused"]
    /\ Record("deploy_refused", d, loaded[d].plan_id, {})
    /\ Forget(d)
    /\ UNCHANGED <<outside, world, incidents>>

\* The hashes of policy and baseline, compared with those in the plan.
DeployHash(d) ==
    /\ dpc[d] = "loaded"
    /\ IF FilesMatch(loaded[d].content)
       THEN /\ dpc' = [dpc EXCEPT ![d] = "matched"]
            /\ UNCHANGED <<outside, memory, log, world, incidents>>
       ELSE Refuse(d)

\* The baseline that deploy resolves the controls from: the plan's, or
\* PY2FW_BASELINE when the plan was made without one.
InForce(d) ==
    IF loaded[d].content.baseline # NoBaseline \/ shell[d].env
    THEN baseline ELSE NoBaseline

\* Mutant: one approval too few is enough.
QuorumOffByOne(d) ==
    Cardinality(ValidApprovers(loaded[d], shell[d].key)) + 1 >= RequiredBy(InForce(d))

Quorum(d) ==
    Cardinality(ValidApprovers(loaded[d], shell[d].key)) >= RequiredBy(InForce(d))

\* Mutant: the gate's verdict is taken from the plan.
NoBlockersAsPlanned(d) == loaded[d].content.deployable

NoBlockers(d) == Passes(policy, pins, InForce(d), day)

\* No reason of _verify_for_deploy or deploy_plan to refuse.
Deployable(d) ==
    /\ NoBlockers(d)
    /\ Render(policy, pins) = loaded[d].content.config
    /\ Quorum(d)
    /\ shell[d].to \/ shell[d].run \/ shell[d].dry

\* Every check again on the files as they are now.  A dry run ends here.
DeployVerify(d) ==
    /\ dpc[d] = "matched"
    /\ policy # NoFile /\ InForce(d) # NoFile
    /\ IF Deployable(d)
       THEN /\ UNCHANGED <<outside, log, world, incidents>>
            /\ IF shell[d].dry
               THEN dpc' = [dpc EXCEPT ![d] = "checked only"] /\ Forget(d)
               ELSE /\ dpc' = [dpc EXCEPT ![d] = "verified"]
                    /\ controls' = [controls EXCEPT ![d] = [baseline |-> InForce(d), today |-> day]]
                    /\ counted' = [counted EXCEPT ![d] =
                                     ValidApprovers(loaded[d], shell[d].key)]
                    /\ UNCHANGED <<shell, loaded>>
       ELSE Refuse(d)

\* ParseError or BaselineError: a file is gone.  Nothing is recorded.
DeployVerifyFails(d) ==
    /\ DeployGoes(d, "matched", "error")
    /\ policy = NoFile \/ InForce(d) = NoFile
    /\ Forget(d)
    /\ UNCHANGED <<outside, log, world, incidents>>

\* Mutant: the configuration is generated once more.
TextRegenerated(d) == IF policy = NoFile THEN NoFile ELSE Render(policy, pins)

\* What is written is the configuration in the plan.
Text(d) == loaded[d].content.config

\* The staged copy and, with --to, the destination are written.
DeployPublish(d) ==
    /\ DeployGoes(d, "verified", IF shell[d].run THEN "published" ELSE "applied")
    /\ destination' = IF shell[d].to THEN Text(d) ELSE destination
    /\ UNCHANGED <<outside, memory, log, device, snapshotConfig, snapshotPolicy, incidents>>

\* What the command is given: the destination as it is now, or the staged
\* copy, which is named after the plan it belongs to.
ConfigPath(d) == IF shell[d].to THEN destination ELSE Text(d)

DeployRun(d) ==
    /\ DeployGoes(d, "published", "applied")
    /\ device' = ConfigPath(d)
    /\ UNCHANGED <<outside, memory, log, destination, snapshotConfig, snapshotPolicy, incidents>>

\* Mutant: a failed command is not recorded.
NoFailureEvent(d) == UNCHANGED log

FailureEvent(d) == Record("deploy_failed", d, loaded[d].plan_id, {})

\* The command exits with an error, before or after it has had its effect.
DeployRunFails(d) ==
    /\ DeployGoes(d, "published", "failed")
    /\ device' \in {device, ConfigPath(d)}
    /\ FailureEvent(d)
    /\ Forget(d)
    /\ UNCHANGED <<outside, destination, snapshotConfig, snapshotPolicy, incidents>>

\* subprocess.run raises: the command cannot be started.
DeployRunRaises(d) ==
    /\ DeployGoes(d, "published", "error")
    /\ incidents' = IF shell[d].to THEN incidents \cup {"error"} ELSE incidents
    /\ Forget(d)
    /\ UNCHANGED <<outside, log, world>>

\* Another deploy is between its snapshot and its event.
Overlaps(d) == \E e \in Deployers \ {d} : dpc[e] \in {"snapshotted", "recorded"}

DeploySnapshot(d) ==
    /\ DeployGoes(d, "applied", "snapshotted")
    /\ snapshotConfig' = Text(d)
    /\ incidents' = IF Overlaps(d) THEN incidents \cup {"overlap"} ELSE incidents
    /\ UNCHANGED <<outside, memory, log, destination, device, snapshotPolicy>>

\* The policy file is copied as it is now.
DeployCopyPolicy(d) ==
    /\ DeployGoes(d, "snapshotted", "recorded") /\ policy # NoFile
    /\ snapshotPolicy' = policy
    /\ UNCHANGED <<outside, memory, log, destination, device, snapshotConfig, incidents>>

DeployCopyRaises(d) ==
    /\ DeployGoes(d, "snapshotted", "error") /\ policy = NoFile
    /\ incidents' = incidents \cup {"error"}
    /\ Forget(d)
    /\ UNCHANGED <<outside, log, world>>

DeployRecord(d) ==
    /\ DeployGoes(d, "recorded", "deployed")
    /\ Record("deploy", d, loaded[d].plan_id, counted[d])
    /\ Forget(d)
    /\ UNCHANGED <<outside, world, incidents>>

\* The process stops; the snapshot it was writing may be incomplete.
DeployCrash(d) ==
    /\ dpc[d] \notin Exits
    /\ dpc' = [dpc EXCEPT ![d] = "crashed"]
    /\ incidents' = IF dpc[d] \in Committed \ {"verified"}
                  THEN incidents \cup {"crash"} ELSE incidents
    /\ snapshotConfig' \in IF dpc[d] = "applied" THEN {snapshotConfig, Partial}
                                                 ELSE {snapshotConfig}
    /\ Forget(d)
    /\ UNCHANGED <<outside, log, destination, device, snapshotPolicy>>

\* A deploy on its way, without the choice to start or to crash.
DeployWork(d) ==
    \/ DeployHash(d)
    \/ DeployVerify(d)
    \/ DeployVerifyFails(d)
    \/ DeployPublish(d)
    \/ DeployRun(d)
    \/ DeployRunFails(d)
    \/ DeployRunRaises(d)
    \/ DeploySnapshot(d)
    \/ DeployCopyPolicy(d)
    \/ DeployCopyRaises(d)
    \/ DeployRecord(d)

DeployStep(d) ==
    \/ \E s \in Shells : DeployLoad(d, s)
    \/ DeployLoadRefused(d)
    \/ DeployWork(d)
    \/ DeployCrash(d)

-----------------------------------------------------------------------------
(* Everything else that happens to the files.                              *)

Edit == edits < MaxEdits /\ edits' = edits + 1

EditPolicy ==
    /\ Edit
    /\ policy' \in (Policies \cup {NoFile}) \ {policy}
    /\ UNCHANGED <<pins, baseline, planFile, log, world, day, key, byHand, planning, approval, deploying>>

EditBaseline ==
    /\ Edit
    /\ baseline' \in (Baselines \cup {NoFile}) \ {baseline}
    /\ UNCHANGED <<policy, pins, planFile, log, world, day, key, byHand, planning, approval, deploying>>

\* Another command rewrites the lock file with --refresh-hosts.
RefreshPins ==
    /\ Edit
    /\ pins' \in Pins \ {pins}
    /\ UNCHANGED <<policy, baseline, planFile, log, world, day, key, byHand, planning, approval, deploying>>

RotateKey ==
    /\ Edit
    /\ key' \in (Keys \cup {NoKey}) \ {key}
    /\ UNCHANGED <<files, planFile, log, world, day, byHand, planning, approval, deploying>>

\* A plan with a change made to its content.
Changes(plan) ==
    ({[plan EXCEPT !.content.config = c] : c \in Configs}
        \cup {[plan EXCEPT !.content.sign = FALSE], [plan EXCEPT !.content.deployable = TRUE]})
    \ {plan}

EditContent ==
    /\ planFile' \in Changes(planFile)
    /\ UNCHANGED byHand

\* The content is changed and given the digest that load_plan will compute;
\* the approvals that were there now stand for another plan.
SealContent ==
    \E plan \in Changes(planFile) :
        LET id == PlanId(plan.content) IN
        /\ planFile' = [plan EXCEPT !.plan_id = id]
        /\ resealed' = resealed \cup {id}
        /\ forged' = forged \cup {[plan_id |-> id, by |-> x.by] : x \in plan.approvals}

\* An approval is written by hand, with a signature that is empty or copied:
\* a new one takes the key.  The plan_id does not cover the approvals.
AddApproval ==
    \E name \in Approvers, signature \in {Unsigned} \cup {x.signature : x \in planFile.approvals} :
        /\ planFile' = [planFile EXCEPT !.approvals =
                          @ \cup {[by |-> name, signature |-> signature]}]
        /\ forged' = forged \cup {[plan_id |-> planFile.plan_id, by |-> name]}
        /\ UNCHANGED resealed

RemoveApproval ==
    /\ \E x \in planFile.approvals : planFile' = [planFile EXCEPT !.approvals = @ \ {x}]
    /\ UNCHANGED byHand

\* The plan file is changed in an editor.
EditPlan ==
    /\ Edit
    /\ planFile \notin {NoFile, Partial}
    /\ EditContent \/ SealContent \/ AddApproval \/ RemoveApproval
    /\ planFile' # planFile
    /\ UNCHANGED <<files, log, world, day, key, planning, approval, deploying>>

Midnight ==
    /\ day < MaxDay
    /\ day' = day + 1
    /\ UNCHANGED <<files, planFile, log, world, key, edits, byHand, planning, approval, deploying>>

Environment ==
    EditPolicy \/ EditBaseline \/ RefreshPins \/ RotateKey \/ EditPlan \/ Midnight

-----------------------------------------------------------------------------
Init ==
    /\ policy \in Policies /\ pins \in Pins /\ baseline \in Baselines
    /\ planFile = NoFile
    /\ log = <<>>
    /\ destination = NoFile /\ device = NoFile
    /\ snapshotConfig = NoFile /\ snapshotPolicy = NoFile
    /\ day = 1 /\ key \in Keys \cup {NoKey} /\ edits = 0
    /\ forged = {} /\ resealed = {}
    /\ ppc = [a \in Authors |-> "idle"]
    /\ check = [a \in Authors |-> NoFile]
    /\ draft = [a \in Authors |-> NoFile]
    /\ apc = [a \in Approvers |-> "idle"]
    /\ working = [a \in Approvers |-> NoFile]
    /\ dpc = [d \in Deployers |-> "idle"]
    /\ shell = [d \in Deployers |-> NoFile]
    /\ loaded = [d \in Deployers |-> NoFile]
    /\ controls = [d \in Deployers |-> NoFile]
    /\ counted = [d \in Deployers |-> {}]
    /\ incidents = {}

Next ==
    \/ \E a \in Authors : PlanStep(a)
    \/ \E a \in Approvers : ApproveStep(a)
    \/ \E d \in Deployers : DeployStep(d)
    \/ Environment

Spec == Init /\ [][Next]_vars

\* A deploy that is on its way takes its next step unless it crashes: it
\* waits for nothing but the deploy command, which is taken to end.
FairSpec == Spec /\ \A d \in Deployers : WF_vars(DeployWork(d))

-----------------------------------------------------------------------------
InForceThen == [baseline : Baselines \cup {NoBaseline}, today : 1..MaxDay]

Check == [baseline : Baselines \cup {NoBaseline}, required : Nat, sign : BOOLEAN,
          deployable : BOOLEAN, config : Configs]

FileTypes ==
    /\ policy \in Policies \cup {NoFile}
    /\ pins \in Pins
    /\ baseline \in Baselines \cup {NoFile}
    /\ planFile \in Plan \cup {NoFile, Partial}
    /\ log \in Seq(Event)
    /\ destination \in Configs \cup {NoFile}
    /\ device \in Configs \cup {NoFile}
    /\ snapshotConfig \in Configs \cup {NoFile, Partial}
    /\ snapshotPolicy \in Policies \cup {NoFile}
    /\ day \in 1..MaxDay /\ key \in Keys \cup {NoKey} /\ edits \in 0..MaxEdits
    /\ forged \subseteq [plan_id : PlanIds, by : Approvers]
    /\ resealed \subseteq PlanIds

PlanTypes ==
    /\ ppc \in [Authors -> {"idle", "checked", "sealed", "saving"}]
    /\ check \in [Authors -> Check \cup {NoFile}]
    /\ draft \in [Authors -> Plan \cup {NoFile}]
    /\ \A a \in Authors :
          /\ ppc[a] = "checked" => check[a] \in Check
          /\ ppc[a] \in {"sealed", "saving"} => draft[a] \in Plan

ApproveTypes ==
    /\ apc \in [Approvers ->
              {"idle", "approving", "recorded", "saving", "approved"}]
    /\ working \in [Approvers -> Plan \cup {NoFile}]
    /\ \A a \in Approvers : apc[a] \in {"approving", "recorded", "saving"}
                              => working[a] \in Plan

DeployTypes ==
    /\ dpc \in [Deployers -> Exits \cup Committed \cup {"loaded", "matched"}]
    /\ shell \in [Deployers -> Shell \cup {NoFile}]
    /\ loaded \in [Deployers -> Plan \cup {NoFile}]
    /\ controls \in [Deployers -> InForceThen \cup {NoFile}]
    /\ counted \in [Deployers -> SUBSET Approvers]
    /\ \A d \in Deployers :
          /\ dpc[d] \notin Exits => loaded[d] \in Plan /\ shell[d] \in Shell
          /\ dpc[d] \in Committed => controls[d] \in InForceThen
    /\ incidents \in SUBSET {"crash", "error", "overlap"}

TypeOK == FileTypes /\ PlanTypes /\ ApproveTypes /\ DeployTypes

-----------------------------------------------------------------------------
(* What the audit log says about a plan.                                   *)

Planned(id) == \E i \in 1..Len(log) : log[i].event = "plan" /\ log[i].plan_id = id

ApprovedBy(id, name) ==
    \E i \in 1..Len(log) :
        log[i].event = "approve" /\ log[i].plan_id = id /\ log[i].actor = name

\* The people other than its author who ran `approve` on a plan.
Reviewers(id) ==
    {name \in Approvers : name # id.sha256.author /\ ApprovedBy(id, name)}

\* Whose approvals of a plan were written by hand.
Forged(id) ==
    {name \in Approvers : name # id.sha256.author /\ [plan_id |-> id, by |-> name] \in forged}

\* The signature of an approval is one that its approver made for this plan.
Genuine(id, x) == \E k \in Keys : x.signature = Sign(id, x.by, k)

DeployEvents == {i \in 1..Len(log) : log[i].event = "deploy"}

LastDeploy == CHOOSE i \in DeployEvents : \A j \in DeployEvents : j <= i

\* The log has a deployment of this configuration, done or failed.
OnRecord(config) ==
    \E i \in 1..Len(log) :
        /\ log[i].event \in {"deploy", "deploy_failed"}
        /\ log[i].plan_id.sha256.config = config

Quiet == \A d \in Deployers : dpc[d] \in Exits

\* No deploy stopped half way, between what it wrote and its event.
NoneStopped == incidents \cap {"crash", "error"} = {}

-----------------------------------------------------------------------------
(* Properties.                                                             *)

\* deploy_plan writes nothing before as many people other than the author as
\* the baseline in force asks for have approved exactly this plan, on record.
\* An approval written into the plan file by hand counts for one of them only
\* if the plan asks for no signatures.
CommittedHasQuorum ==
    \A d \in Deployers :
        dpc[d] \in Committed =>
            LET id      == loaded[d].plan_id
                counting == IF id.sha256.sign THEN Reviewers(id) ELSE Reviewers(id) \cup Forged(id)
            IN  Cardinality(counting) >= RequiredBy(controls[d].baseline)

\* What is about to be deployed is the configuration of a policy that passes
\* the gate under the controls in force on the day of the deployment, not of
\* the day it was planned or approved.
CommittedPassedTheGate ==
    \A d \in Deployers :
        dpc[d] \in Committed =>
            \E p \in Policies, s \in Pins :
                /\ Render(p, s) = loaded[d].content.config
                /\ Passes(p, s, controls[d].baseline, controls[d].today)

\* The audit log justifies every deployment it records: the plan was made
\* before, and everyone the event names as an approver had approved it before,
\* having been shown that it was found deployable.  The exceptions are a plan
\* whose plan_id was computed by hand, and a name that was written into a plan
\* that asks for no signatures.
DeploymentsAreJustified ==
    \A i \in DeployEvents :
        LET id == log[i].plan_id IN
        /\ \/ id \in resealed
           \/ \E j \in 1..(i-1) : log[j].event = "plan" /\ log[j].plan_id = id
        /\ \A name \in log[i].approvers :
              /\ name # id.sha256.author
              /\ \/ ~id.sha256.sign /\ name \in Forged(id)
                 \/ /\ id.sha256.deployable
                    /\ \E j \in 1..(i-1) :
                          /\ log[j].event = "approve"
                          /\ log[j].plan_id = id
                          /\ log[j].actor = name

\* What is in the destination was planned, or sealed by hand, and was reviewed
\* as some version of the baseline asks, if it was planned under one; where
\* approvals were asked for it was found deployable when it was planned.
\* Approvals written by hand take the place of a review only where the plan
\* asks for no signatures.  No half-written plan gets there, and no content
\* that does not fit its plan_id.
ReviewedAs(id, b) ==
    \/ ~id.sha256.sign /\ Forged(id) # {}
       /\ Cardinality(Reviewers(id) \cup Forged(id)) >= RequiredBy(b)
    \/ /\ Cardinality(Reviewers(id)) >= RequiredBy(b)
       /\ RequiredBy(b) > 0 => id.sha256.deployable

DestinationWasReviewed ==
    destination # NoFile =>
        \E id \in {log[i].plan_id : i \in 1..Len(log)} \cup resealed :
            /\ Planned(id) \/ id \in resealed
            /\ id.sha256.config = destination
            /\ \E b \in Baselines \cup {NoBaseline} :
                  /\ id.sha256.baseline # NoBaseline => b # NoBaseline
                  /\ ReviewedAs(id, b)

\* An approval reaches a plan file only after it is on record, whatever
\* crashes and whoever saves over whom, or by hand, and then without a
\* signature of its own.
PlanFileIsOnRecord ==
    Loadable(planFile) =>
        LET id == planFile.plan_id IN
        /\ Planned(id) \/ id \in resealed
        /\ \A x \in planFile.approvals :
              \/ ApprovedBy(id, x.by)
              \/ [plan_id |-> id, by |-> x.by] \in forged /\ ~Genuine(id, x)

\* When no deploy is on its way and none stopped half way, what is in the
\* destination and what the last command applied come from plans with a
\* "deploy" or "deploy_failed" event.
DeploymentsAreAudited ==
    Quiet /\ NoneStopped => \A c \in {destination, device} \ {NoFile} : OnRecord(c)

\* When no deploy is on its way, none stopped half way and none wrote its
\* snapshot while another had yet to record its event, the snapshot the next
\* plan is compared with is the configuration last deployed.
SnapshotIsLastDeploy ==
    Quiet /\ incidents = {} =>
        IF DeployEvents = {} THEN snapshotConfig = NoFile
        ELSE snapshotConfig = log[LastDeploy].plan_id.sha256.config

\* A deploy that has written the destination gets its event on record,
\* unless it crashes or raises.
PublishedIsRecorded ==
    \A d \in Deployers, i \in 1..MaxEvents :
        dpc[d] = "published" /\ shell[d].to /\ i <= Len(log) /\ loaded[d].plan_id = log[i].plan_id ~>
            \/ ~NoneStopped
            \/ \E j \in i..Len(log) :
                  /\ log[j].event \in {"deploy", "deploy_failed"}
                  /\ log[j].actor = d
                  /\ log[j].plan_id = log[i].plan_id

-----------------------------------------------------------------------------
(* What the documentation says and the code does not do.                   *)

\* "Every plan, approval, refusal, failure and deployment is appended": as
\* long as no process crashes, what is deployed is on record.
EveryDeploymentIsRecorded ==
    Quiet /\ "crash" \notin incidents => \A c \in {destination, device} \ {NoFile} : OnRecord(c)

\* The same sentence, of a deploy command that ends with "refused".
EveryRefusalIsRecorded ==
    \A d \in Deployers :
        dpc[d] = "refused" =>
            \E i \in 1..Len(log) : log[i].event = "deploy_refused" /\ log[i].actor = d

\* "Editing the plan file invalidates it": what an editor leaves behind is
\* refused, unless it is what was there before.
EditedPlansAreRefused ==
    [][edits' # edits /\ planFile' # planFile => ~Loadable(planFile')]_vars

\* "approve adds an approval": somebody whose command has succeeded is among
\* the approvals of the plan.
ApprovalIsKept ==
    \A a \in Approvers :
        apc[a] = "approved" /\ Loadable(planFile) /\ planFile.plan_id = working[a].plan_id
            => \E x \in planFile.approvals : x.by = a

\* The policy diff of a plan is "against what was last deployed".
SnapshotPolicyWasDeployed ==
    Quiet /\ incidents = {} /\ DeployEvents # {} =>
        snapshotPolicy = log[LastDeploy].plan_id.sha256.policy

\* "When sign_approvals is on, approvals must carry an HMAC": an approval
\* that counts for a deployment does, if the controls in force ask for it.
CountedApprovalsAreSigned ==
    \A d \in Deployers :
        dpc[d] \in Committed /\ SignsBy(controls[d].baseline) =>
            \A name \in counted[d] :
                \E x \in loaded[d].approvals : x.by = name /\ x.signature # Unsigned

\* Before writing anything, deploy checks that the baseline still matches
\* the approved hash: nothing is deployed under another one.
DeployedUnderApprovedBaseline ==
    \A d \in Deployers :
        dpc[d] \in Committed /\ loaded[d].content.baseline # NoBaseline =>
            controls[d].baseline = loaded[d].content.baseline
=============================================================================
