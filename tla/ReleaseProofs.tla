--------------------------- MODULE ReleaseProofs ---------------------------
(***************************************************************************)
(* Proofs about Release, for any people, policies, baselines, keys and     *)
(* configurations, any number of deploys at a time, whatever the checks    *)
(* say, and any length of the audit log.                                   *)
(***************************************************************************)
EXTENDS Release, SequenceTheorems, FiniteSetTheorems, TLAPS

-----------------------------------------------------------------------------
(* Types.                                                                  *)

\* What Record appends is an event.
LEMMA EntryType ==
    ASSUME NEW event \in EventKinds, NEW actor \in Authors \cup Approvers \cup Deployers,
           NEW id \in PlanIds, NEW approvers \in SUBSET Approvers
    PROVE  Entry(event, actor, id, approvers) \in Event
BY DEF Entry, Event

\* A plan that was sealed is a plan.
LEMMA SealedType ==
    ASSUME NEW content \in Content
    PROVE  [plan_id |-> PlanId(content), content |-> content, approvals |-> {}] \in Plan
BY DEF Plan, PlanId, PlanIds

\* A plan has an id, a content and approvals.
LEMMA PlanFields ==
    ASSUME NEW plan \in Plan
    PROVE  /\ plan.plan_id \in PlanIds
           /\ plan.content \in Content
           /\ plan.approvals \in SUBSET Approval
BY DEF Plan

\* An approval by somebody, signed with the key there is, is an approval.
LEMMA ApprovalType ==
    ASSUME NEW id \in PlanIds, NEW a \in Approvers, NEW k \in Keys \cup {NoKey}
    PROVE  [by |-> a, signature |-> Sign(id, a, k)] \in Approval
BY DEF Approval, Sign, Signatures

\* Controls without a baseline are controls too.
LEMMA ControlTypes ==
    ASSUME NEW b \in Baselines \cup {NoBaseline}
    PROVE  RequiredBy(b) \in Nat /\ SignsBy(b) \in BOOLEAN
BY ControlsAssumption DEF RequiredBy, SignsBy

\* Types depend on the variables they are about.
LEMMA TypesKept ==
    /\ FileTypes /\ UNCHANGED <<files, planFile, log, world, clock>> => FileTypes'
    /\ PlanTypes /\ UNCHANGED planning => PlanTypes'
    /\ ApproveTypes /\ UNCHANGED approval => ApproveTypes'
    /\ DeployTypes /\ UNCHANGED deploying => DeployTypes'
<1>1. FileTypes /\ UNCHANGED <<files, planFile, log, world, clock>> => FileTypes'
  BY DEF FileTypes, files, world, clock, byHand
<1>2. PlanTypes /\ UNCHANGED planning => PlanTypes'
  BY DEF PlanTypes, planning
<1>3. ApproveTypes /\ UNCHANGED approval => ApproveTypes'
  BY DEF ApproveTypes, approval
<1>4. DeployTypes /\ UNCHANGED deploying => DeployTypes'
  BY DEF DeployTypes, deploying, memory
<1> QED
  BY <1>1, <1>2, <1>3, <1>4

\* A step of one `plan` leaves the types of the others alone.
LEMMA PlanTypesStep ==
    ASSUME PlanTypes, NEW a \in Authors,
           NEW to \in {"idle", "checked", "sealed", "saving"},
           NEW c \in Check \cup {NoFile}, NEW plan \in Plan \cup {NoFile},
           ppc' = [ppc EXCEPT ![a] = to],
           check' = [check EXCEPT ![a] = c],
           draft' = [draft EXCEPT ![a] = plan],
           to = "checked" => c \in Check,
           to \in {"sealed", "saving"} => plan \in Plan
    PROVE  PlanTypes'
<1>1. /\ ppc' \in [Authors -> {"idle", "checked", "sealed", "saving"}]
      /\ check' \in [Authors -> Check \cup {NoFile}]
      /\ draft' \in [Authors -> Plan \cup {NoFile}]
  BY DEF PlanTypes
<1>2. ASSUME NEW x \in Authors
      PROVE  /\ ppc'[x] = "checked" => check'[x] \in Check
             /\ ppc'[x] \in {"sealed", "saving"} => draft'[x] \in Plan
  <2>1. CASE x = a
    BY <2>1 DEF PlanTypes
  <2>2. CASE x # a
    <3>1. ppc'[x] = ppc[x] /\ check'[x] = check[x] /\ draft'[x] = draft[x]
      BY <2>2 DEF PlanTypes
    <3> QED
      BY <3>1 DEF PlanTypes
  <2> QED
    BY <2>1, <2>2
<1> QED
  BY <1>1, <1>2 DEF PlanTypes

LEMMA PlanKeepsTypes ==
    ASSUME TypeOK, NEW a \in Authors, PlanStep(a)
    PROVE  TypeOK'
<1> USE DEF TypeOK
<1>1. UNCHANGED <<approval, deploying>>
  BY DEF PlanStep, PlanCheck, PlanSeal, PlanTruncate, PlanSave, PlanStop
<1>2. ASSUME NEW given \in PlanOptions, PlanCheck(a, given) PROVE FileTypes' /\ PlanTypes'
  <2> DEFINE b == IF given THEN baseline ELSE NoBaseline
  <2>1. b \in Baselines \cup {NoBaseline} /\ policy \in Policies
    BY <1>2 DEF PlanCheck, FileTypes
  <2>2. /\ RequiredBy(b) \in Nat /\ SignsBy(b) \in BOOLEAN
        /\ Passes(policy, pins, b, day) \in BOOLEAN
        /\ Render(policy, pins) \in Configs
    BY <2>1, ControlTypes, PassesAssumption, RenderAssumption DEF FileTypes
  <2> DEFINE c == [baseline |-> b, required |-> RequiredBy(b), sign |-> SignsBy(b),
                   deployable |-> Passes(policy, pins, b, day),
                   config |-> Render(policy, pins)]
  <2>3. c \in Check
    BY <2>1, <2>2 DEF Check
  <2>4. check' = [check EXCEPT ![a] = c] /\ ppc' = [ppc EXCEPT ![a] = "checked"]
        /\ draft' = draft
    BY <1>2 DEF PlanCheck, PlanGoes
  <2> HIDE DEF c
  <2>5. PlanTypes'
    BY <2>3, <2>4 DEF PlanTypes
  <2>6. FileTypes'
    BY <1>2, TypesKept DEF PlanCheck
  <2> QED
    BY <2>5, <2>6
<1>3. CASE PlanSeal(a)
  <2> DEFINE hashed  == IF check[a].baseline = NoBaseline THEN NoBaseline ELSE baseline
             content == [author |-> a, created |-> day, policy |-> policy,
                         baseline |-> hashed, required |-> check[a].required,
                         sign |-> check[a].sign, deployable |-> check[a].deployable,
                         config |-> check[a].config]
             plan == [plan_id |-> PlanId(content), content |-> content, approvals |-> {}]
  <2>1. check[a] \in Check /\ policy \in Policies /\ hashed \in Baselines \cup {NoBaseline}
    BY <1>3 DEF PlanSeal, PlanGoes, PlanTypes, FileTypes
  <2>2. day \in Nat
    BY BoundsAssumption DEF FileTypes
  <2>3. content \in Content
    BY <2>1, <2>2 DEF Content, Check
  <2>4. plan \in Plan
    BY <2>3, SealedType
  <2>5. Entry("plan", a, PlanId(content), {}) \in Event
    BY <2>3, EntryType DEF EventKinds, PlanId, PlanIds
  <2>6. log' \in Seq(Event)
    BY <1>3, <2>5, AppendProperties DEF PlanSeal, Record, FileTypes
  <2>7. UNCHANGED <<files, planFile, world, clock>>
    BY <1>3 DEF PlanSeal
  <2>8. FileTypes'
    BY <2>6, <2>7 DEF FileTypes, files, world, clock, byHand
  <2>9. draft' = [draft EXCEPT ![a] = plan] /\ ppc' = [ppc EXCEPT ![a] = "sealed"]
        /\ check' = [check EXCEPT ![a] = NoFile]
    BY <1>3 DEF PlanSeal, PlanGoes
  <2> HIDE DEF plan
  <2>10. PlanTypes'
    BY <2>4, <2>9, PlanTypesStep
  <2> QED
    BY <1>1, <2>8, <2>10, TypesKept
<1>4. CASE PlanTruncate(a)
  <2>1. FileTypes'
    BY <1>4 DEF PlanTruncate, FileTypes, files, world, clock, byHand
  <2>2. /\ ppc' = [ppc EXCEPT ![a] = "saving"]
        /\ check' = [check EXCEPT ![a] = check[a]]
        /\ draft' = [draft EXCEPT ![a] = draft[a]]
        /\ draft[a] \in Plan /\ check[a] \in Check \cup {NoFile}
    BY <1>4 DEF PlanTruncate, PlanGoes, PlanTypes
  <2>3. PlanTypes'
    BY <2>2, PlanTypesStep
  <2> QED
    BY <1>1, <2>1, <2>3, TypesKept
<1>5. CASE PlanSave(a)
  <2>1. FileTypes'
    BY <1>5 DEF PlanSave, PlanGoes, PlanTypes, FileTypes, files, world, clock, byHand
  <2>2. /\ ppc' = [ppc EXCEPT ![a] = "idle"]
        /\ check' = [check EXCEPT ![a] = check[a]]
        /\ draft' = [draft EXCEPT ![a] = NoFile]
        /\ check[a] \in Check \cup {NoFile}
    BY <1>5 DEF PlanSave, PlanGoes, PlanTypes
  <2>3. PlanTypes'
    BY <2>2, PlanTypesStep
  <2> QED
    BY <1>1, <2>1, <2>3, TypesKept
<1>6. CASE PlanStop(a)
  BY <1>6, TypesKept DEF PlanStop, PlanTypes
<1> QED
  BY <1>1, <1>2, <1>3, <1>4, <1>5, <1>6, TypesKept DEF PlanStep

LEMMA ApproveKeepsTypes ==
    ASSUME TypeOK, NEW a \in Approvers, ApproveStep(a)
    PROVE  TypeOK'
<1> USE DEF TypeOK
<1>1. UNCHANGED <<planning, deploying>>
  BY DEF ApproveStep, ApproveLoad, ApproveRecord, ApproveTruncate, ApproveSave,
         ApproveCrash, ApproveAgain
<1>2. CASE ApproveLoad(a)
  <2> DEFINE new  == [by |-> a, signature |-> Sign(planFile.plan_id, a, key)]
             plan == [planFile EXCEPT !.approvals = @ \cup {new}]
  <2>1. planFile \in Plan
    BY <1>2 DEF ApproveLoad, Loadable, FileTypes
  <2>2. new \in Approval
    BY <2>1, PlanFields, ApprovalType DEF FileTypes
  <2>3. plan \in Plan
    BY <2>1, <2>2 DEF Plan
  <2>4. working' = [working EXCEPT ![a] = plan] /\ apc' = [apc EXCEPT ![a] = "approving"]
    BY <1>2 DEF ApproveLoad, ApproveGoes
  <2> HIDE DEF plan
  <2>5. ApproveTypes'
    BY <2>3, <2>4 DEF ApproveTypes
  <2> QED
    BY <1>1, <1>2, <2>5, TypesKept DEF ApproveLoad
<1>3. CASE ApproveRecord(a)
  <2>1. working[a] \in Plan
    BY <1>3 DEF ApproveRecord, ApproveGoes, ApproveTypes
  <2>2. Entry("approve", a, working[a].plan_id, {}) \in Event
    BY <2>1, PlanFields, EntryType DEF EventKinds
  <2>3. log' \in Seq(Event)
    BY <1>3, <2>2, AppendProperties DEF ApproveRecord, Record, FileTypes
  <2>4. FileTypes'
    BY <1>3, <2>3 DEF ApproveRecord, FileTypes, files, world, clock, byHand
  <2>5. ApproveTypes'
    BY <1>3 DEF ApproveRecord, ApproveGoes, ApproveTypes
  <2> QED
    BY <1>1, <2>4, <2>5, TypesKept
<1>4. CASE ApproveTruncate(a)
  <2>1. FileTypes'
    BY <1>4 DEF ApproveTruncate, FileTypes, files, world, clock, byHand
  <2>2. ApproveTypes'
    BY <1>4 DEF ApproveTruncate, ApproveGoes, ApproveTypes
  <2> QED
    BY <1>1, <2>1, <2>2, TypesKept
<1>5. CASE ApproveSave(a)
  <2>1. FileTypes'
    BY <1>5 DEF ApproveSave, ApproveGoes, ApproveTypes, FileTypes, files, world, clock, byHand
  <2>2. ApproveTypes'
    BY <1>5 DEF ApproveSave, ApproveGoes, ApproveTypes
  <2> QED
    BY <1>1, <2>1, <2>2, TypesKept
<1>6. CASE ApproveCrash(a)
  <2>1. ApproveTypes'
    BY <1>6 DEF ApproveCrash, ApproveTypes
  <2> QED
    BY <1>1, <1>6, <2>1, TypesKept DEF ApproveCrash
<1>7. CASE ApproveAgain(a)
  <2>1. ApproveTypes'
    BY <1>7 DEF ApproveAgain, ApproveGoes, ApproveTypes
  <2> QED
    BY <1>1, <1>7, <2>1, TypesKept DEF ApproveAgain
<1> QED
  BY <1>2, <1>3, <1>4, <1>5, <1>6, <1>7 DEF ApproveStep

\* What a deploy may do without disturbing the types of anything but what its
\* own process holds.
LEMMA DeployTypesStep ==
    ASSUME DeployTypes, NEW d \in Deployers,
           NEW to \in Exits \cup Committed \cup {"loaded", "matched"},
           dpc' = [dpc EXCEPT ![d] = to],
           incidents' \in SUBSET {"crash", "error", "overlap"},
           \/ to \in Exits /\ Forget(d)
           \/ to \in Exits /\ UNCHANGED memory
           \/ UNCHANGED memory /\ dpc[d] \notin Exits /\ (dpc[d] \in Committed \/ to = "matched")
    PROVE  DeployTypes'
<1>1. CASE to \in Exits /\ Forget(d)
  BY <1>1 DEF DeployTypes, Forget, Exits, Committed
<1>2. CASE to \in Exits /\ UNCHANGED memory
  BY <1>2 DEF DeployTypes, memory, Exits, Committed
<1>3. CASE UNCHANGED memory /\ dpc[d] \notin Exits /\ (dpc[d] \in Committed \/ to = "matched")
  BY <1>3 DEF DeployTypes, memory, Exits, Committed
<1> QED
  BY <1>1, <1>2, <1>3

\* The record of a refusal, a failure or a deployment keeps the log a log.
LEMMA RecordType ==
    ASSUME FileTypes, NEW d \in Deployers, loaded[d] \in Plan,
           NEW event \in EventKinds, NEW approvers \in SUBSET Approvers,
           Record(event, d, loaded[d].plan_id, approvers)
    PROVE  log' \in Seq(Event)
<1>1. Entry(event, d, loaded[d].plan_id, approvers) \in Event
  BY PlanFields, EntryType
<1> QED
  BY <1>1, AppendProperties DEF Record, FileTypes

LEMMA DeployKeepsDeployTypes ==
    ASSUME TypeOK, NEW d \in Deployers, DeployStep(d)
    PROVE  DeployTypes'
<1> USE DEF TypeOK
<1>1. incidents \in SUBSET {"crash", "error", "overlap"}
  BY DEF DeployTypes
<1>2. ASSUME NEW s \in Shells, DeployLoad(d, s) PROVE DeployTypes'
  <2> DEFINE options == [to |-> s.to, run |-> s.run, dry |-> s.dry, env |-> s.env, key |-> key]
  <2>1. options \in Shell
    BY OptionsAssumption DEF Shell, FileTypes
  <2>2. planFile \in Plan
    BY <1>2 DEF DeployLoad, Loadable, FileTypes
  <2>3. /\ dpc' = [dpc EXCEPT ![d] = "loaded"]
        /\ shell' = [shell EXCEPT ![d] = options]
        /\ loaded' = [loaded EXCEPT ![d] = planFile]
        /\ UNCHANGED <<controls, counted, incidents>>
    BY <1>2 DEF DeployLoad
  <2> HIDE DEF options
  <2> QED
    BY <2>1, <2>2, <2>3 DEF DeployTypes, Exits, Committed
<1>3. CASE DeployLoadRefused(d)
  BY <1>1, <1>3, DeployTypesStep DEF DeployLoadRefused, Exits
<1>4. ASSUME Refuse(d) PROVE DeployTypes'
  BY <1>1, <1>4, DeployTypesStep DEF Refuse, Exits
<1>5. CASE DeployHash(d)
  <2>1. CASE Refuse(d)
    BY <1>4, <2>1
  <2>2. CASE dpc' = [dpc EXCEPT ![d] = "matched"] /\ UNCHANGED <<outside, memory, log, world, incidents>>
    BY <1>1, <1>5, <2>2, DeployTypesStep DEF DeployHash, Exits
  <2> QED
    BY <1>5, <2>1, <2>2 DEF DeployHash
<1>6. CASE DeployVerify(d)
  <2>1. CASE Refuse(d)
    BY <1>4, <2>1
  <2>2. CASE dpc' = [dpc EXCEPT ![d] = "checked only"] /\ Forget(d) /\ UNCHANGED incidents
    BY <1>1, <2>2, DeployTypesStep DEF Exits
  <2>3. CASE /\ dpc' = [dpc EXCEPT ![d] = "verified"]
             /\ controls' = [controls EXCEPT ![d] = [baseline |-> InForce(d), today |-> day]]
             /\ counted' = [counted EXCEPT ![d] = ValidApprovers(loaded[d], shell[d].key)]
             /\ UNCHANGED <<incidents, shell, loaded>>
    <3> DEFINE now == [baseline |-> InForce(d), today |-> day]
               valid == ValidApprovers(loaded[d], shell[d].key)
    <3>1. InForce(d) \in Baselines \cup {NoBaseline}
      BY <1>6 DEF DeployVerify, InForce, FileTypes
    <3>2. now \in InForceThen
      BY <3>1 DEF InForceThen, FileTypes
    <3>3. valid \in SUBSET Approvers
      BY DEF ValidApprovers
    <3>4. dpc[d] = "matched"
      BY <1>6 DEF DeployVerify
    <3> HIDE DEF now, valid
    <3> QED
      BY <2>3, <3>2, <3>3, <3>4 DEF DeployTypes, Exits, Committed, now, valid
  <2> QED
    BY <1>6, <2>1, <2>2, <2>3 DEF DeployVerify
<1>7. CASE DeployVerifyFails(d)
  BY <1>1, <1>7, DeployTypesStep DEF DeployVerifyFails, DeployGoes, Exits
<1>8. CASE DeployPublish(d)
  BY <1>1, <1>8, DeployTypesStep DEF DeployPublish, DeployGoes, Exits, Committed
<1>9. CASE DeployRun(d)
  BY <1>1, <1>9, DeployTypesStep DEF DeployRun, DeployGoes, Exits, Committed
<1>10. CASE DeployRunFails(d)
  BY <1>1, <1>10, DeployTypesStep DEF DeployRunFails, DeployGoes, Exits
<1>11. CASE DeployRunRaises(d)
  BY <1>1, <1>11, DeployTypesStep DEF DeployRunRaises, DeployGoes, Exits
<1>12. CASE DeploySnapshot(d)
  BY <1>1, <1>12, DeployTypesStep DEF DeploySnapshot, DeployGoes, Exits, Committed
<1>13. CASE DeployCopyPolicy(d)
  BY <1>1, <1>13, DeployTypesStep DEF DeployCopyPolicy, DeployGoes, Exits, Committed
<1>14. CASE DeployCopyRaises(d)
  BY <1>1, <1>14, DeployTypesStep DEF DeployCopyRaises, DeployGoes, Exits
<1>15. CASE DeployRecord(d)
  BY <1>1, <1>15, DeployTypesStep DEF DeployRecord, DeployGoes, Exits
<1>16. CASE DeployCrash(d)
  BY <1>1, <1>16, DeployTypesStep DEF DeployCrash, Exits
<1> QED
  BY <1>2, <1>3, <1>5, <1>6, <1>7, <1>8, <1>9, <1>10, <1>11, <1>12, <1>13, <1>14, <1>15, <1>16
  DEF DeployStep, DeployWork

LEMMA DeployKeepsFileTypes ==
    ASSUME TypeOK, NEW d \in Deployers, DeployStep(d)
    PROVE  FileTypes'
<1> USE DEF TypeOK, outside
<1>1. dpc[d] \notin Exits => loaded[d] \in Plan
  BY DEF DeployTypes
<1>2. ASSUME dpc[d] \notin Exits
      PROVE  Text(d) \in Configs /\ ConfigPath(d) \in Configs \cup {NoFile}
  BY <1>1, <1>2 DEF Text, ConfigPath, Plan, Content, FileTypes
<1>3. CASE UNCHANGED <<files, planFile, log, world, clock>>
  BY <1>3, TypesKept
<1>4. ASSUME dpc[d] \notin Exits, Refuse(d) PROVE FileTypes'
  <2>1. log' \in Seq(Event)
    BY <1>1, <1>4, RecordType DEF Refuse, EventKinds
  <2> QED
    BY <1>4, <2>1 DEF Refuse, FileTypes, files, world, clock, byHand
<1>5. CASE DeployPublish(d)
  BY <1>2, <1>5 DEF DeployPublish, DeployGoes, Exits, FileTypes, files, clock, byHand
<1>6. CASE DeployRun(d)
  BY <1>2, <1>6 DEF DeployRun, DeployGoes, Exits, FileTypes, files, clock, byHand
<1>7. CASE DeployRunFails(d)
  <2>1. dpc[d] \notin Exits
    BY <1>7 DEF DeployRunFails, DeployGoes, Exits
  <2>2. log' \in Seq(Event)
    <3>1. Record("deploy_failed", d, loaded[d].plan_id, {})
      BY <1>7 DEF DeployRunFails, FailureEvent
    <3>2. loaded[d] \in Plan /\ "deploy_failed" \in EventKinds /\ {} \in SUBSET Approvers
      BY <1>1, <2>1 DEF EventKinds
    <3> QED
      BY <3>1, <3>2, RecordType
  <2>3. /\ device' \in Configs \cup {NoFile}
        /\ UNCHANGED <<outside, destination, snapshotConfig, snapshotPolicy>>
    BY <1>2, <1>7, <2>1 DEF DeployRunFails, FileTypes
  <2> QED
    BY <2>2, <2>3 DEF FileTypes, files, clock, byHand
<1>8. CASE DeploySnapshot(d)
  BY <1>2, <1>8 DEF DeploySnapshot, DeployGoes, Exits, FileTypes, files, clock, byHand
<1>9. CASE DeployCopyPolicy(d)
  BY <1>9 DEF DeployCopyPolicy, FileTypes, files, clock, byHand
<1>10. CASE DeployRecord(d)
  <2>1. loaded[d] \in Plan /\ counted[d] \in SUBSET Approvers
    BY <1>1, <1>10 DEF DeployRecord, DeployGoes, Exits, DeployTypes
  <2>2. log' \in Seq(Event)
    BY <1>10, <2>1, RecordType DEF DeployRecord, EventKinds
  <2> QED
    BY <1>10, <2>2 DEF DeployRecord, FileTypes, files, world, clock, byHand
<1>11. CASE DeployCrash(d)
  BY <1>11 DEF DeployCrash, FileTypes, files, clock, byHand
<1>12. CASE \E s \in Shells : DeployLoad(d, s)
  BY <1>3, <1>12 DEF DeployLoad
<1>13. CASE DeployHash(d)
  BY <1>3, <1>4, <1>13 DEF DeployHash, Exits
<1>14. CASE DeployVerify(d)
  BY <1>3, <1>4, <1>14 DEF DeployVerify, Exits
<1>15. CASE DeployLoadRefused(d) \/ DeployVerifyFails(d) \/ DeployRunRaises(d) \/ DeployCopyRaises(d)
  BY <1>3, <1>15 DEF DeployLoadRefused, DeployVerifyFails, DeployRunRaises, DeployCopyRaises
<1> QED
  BY <1>5, <1>6, <1>7, <1>8, <1>9, <1>10, <1>11, <1>12, <1>13, <1>14, <1>15
  DEF DeployStep, DeployWork

\* A deploy does not touch what other commands hold.
LEMMA DeployLeavesOutside ==
    ASSUME NEW d, DeployStep(d)
    PROVE  UNCHANGED outside
BY DEF DeployStep, DeployWork, DeployLoad, DeployLoadRefused, DeployHash, Refuse, DeployVerify,
       DeployVerifyFails, DeployPublish, DeployRun, DeployRunFails, DeployRunRaises,
       DeploySnapshot, DeployCopyPolicy, DeployCopyRaises, DeployRecord, DeployCrash

\* What an editor leaves behind is a plan, whatever it says.
LEMMA ChangedType ==
    ASSUME NEW file \in Plan, NEW plan \in Changes(file)
    PROVE  /\ plan \in Plan
           /\ plan.plan_id = file.plan_id /\ plan.approvals = file.approvals
<1>1. CASE \E c \in Configs : plan = [file EXCEPT !.content.config = c]
  BY <1>1 DEF Plan, Content
<1>2. CASE plan = [file EXCEPT !.content.sign = FALSE]
  BY <1>2 DEF Plan, Content
<1>3. CASE plan = [file EXCEPT !.content.deployable = TRUE]
  BY <1>3 DEF Plan, Content
<1> QED
  BY <1>1, <1>2, <1>3 DEF Changes

LEMMA EditedType ==
    ASSUME TypeOK, EditPlan
    PROVE  /\ planFile' \in Plan
           /\ forged' \subseteq [plan_id : PlanIds, by : Approvers]
           /\ resealed' \subseteq PlanIds
<1>1. /\ planFile \in Plan
      /\ forged \subseteq [plan_id : PlanIds, by : Approvers] /\ resealed \subseteq PlanIds
  BY DEF EditPlan, TypeOK, FileTypes
<1>2. planFile.plan_id \in PlanIds /\ planFile.approvals \in SUBSET Approval
  BY <1>1, PlanFields
<1>3. CASE EditContent
  BY <1>1, <1>3, ChangedType DEF EditContent, byHand
<1>4. CASE SealContent
  <2>1. PICK plan \in Changes(planFile) :
           /\ planFile' = [plan EXCEPT !.plan_id = PlanId(plan.content)]
           /\ resealed' = resealed \cup {PlanId(plan.content)}
           /\ forged' = forged \cup {[plan_id |-> PlanId(plan.content), by |-> x.by] :
                                        x \in plan.approvals}
    BY <1>4 DEF SealContent
  <2>2. plan \in Plan /\ plan.approvals \in SUBSET Approval /\ plan.content \in Content
    BY <1>1, ChangedType, PlanFields
  <2>3. PlanId(plan.content) \in PlanIds
    BY <2>2 DEF PlanId, PlanIds
  <2>4. \A x \in plan.approvals : x.by \in Approvers
    BY <2>2 DEF Approval
  <2>5. planFile' \in Plan
    BY <2>1, <2>2, <2>3 DEF Plan
  <2> QED
    BY <1>1, <2>1, <2>3, <2>4, <2>5
<1>5. CASE AddApproval
  <2>1. PICK name \in Approvers, signature \in {Unsigned} \cup {x.signature : x \in planFile.approvals} :
           /\ planFile' = [planFile EXCEPT !.approvals = @ \cup {[by |-> name, signature |-> signature]}]
           /\ forged' = forged \cup {[plan_id |-> planFile.plan_id, by |-> name]}
           /\ resealed' = resealed
    BY <1>5 DEF AddApproval
  <2>2. [by |-> name, signature |-> signature] \in Approval
    BY <1>2 DEF Approval
  <2>3. planFile' \in Plan
    BY <1>1, <2>1, <2>2 DEF Plan
  <2> QED
    BY <1>1, <1>2, <2>1, <2>3
<1>6. CASE RemoveApproval
  BY <1>1, <1>6 DEF RemoveApproval, byHand, Plan
<1> QED
  BY <1>3, <1>4, <1>5, <1>6 DEF EditPlan

LEMMA EnvironmentKeepsTypes == TypeOK /\ Environment => TypeOK'
<1> SUFFICES ASSUME TypeOK, Environment PROVE TypeOK'
  OBVIOUS
<1> USE DEF TypeOK
<1>1. UNCHANGED <<log, world, planning, approval, deploying>>
  BY DEF Environment, EditPolicy, EditBaseline, RefreshPins, RotateKey, EditPlan, Midnight, files
<1>2. Edit => edits' \in 0..MaxEdits
  BY BoundsAssumption DEF Edit, FileTypes
<1>3. CASE EditPolicy \/ EditBaseline \/ RefreshPins \/ RotateKey
  <2>1. FileTypes'
    BY <1>1, <1>2, <1>3 DEF EditPolicy, EditBaseline, RefreshPins, RotateKey, FileTypes, files, world, byHand
  <2> QED
    BY <1>1, <2>1, TypesKept
<1>4. CASE EditPlan
  <2>1. /\ planFile' \in Plan
        /\ forged' \subseteq [plan_id : PlanIds, by : Approvers]
        /\ resealed' \subseteq PlanIds
    BY <1>4, EditedType
  <2>2. FileTypes'
    BY <1>1, <1>2, <1>4, <2>1 DEF EditPlan, FileTypes, files, world
  <2> QED
    BY <1>1, <2>2, TypesKept
<1>5. CASE Midnight
  <2>1. day' \in 1..MaxDay
    BY <1>5, BoundsAssumption DEF Midnight, FileTypes
  <2>2. FileTypes'
    BY <1>1, <1>5, <2>1 DEF Midnight, FileTypes, files, world, byHand
  <2> QED
    BY <1>1, <2>2, TypesKept
<1> QED
  BY <1>3, <1>4, <1>5 DEF Environment

LEMMA TypeStep == TypeOK /\ [Next]_vars => TypeOK'
<1> SUFFICES ASSUME TypeOK, [Next]_vars PROVE TypeOK'
  OBVIOUS
<1>1. CASE UNCHANGED vars
  BY <1>1, TypesKept DEF TypeOK, vars
<1>2. ASSUME NEW d \in Deployers, DeployStep(d) PROVE TypeOK'
  BY <1>2, TypesKept, DeployLeavesOutside, DeployKeepsFileTypes, DeployKeepsDeployTypes
  DEF TypeOK, outside
<1>3. CASE Next
  BY <1>2, <1>3, PlanKeepsTypes, ApproveKeepsTypes, EnvironmentKeepsTypes DEF Next
<1> QED
  BY <1>1, <1>3

LEMMA TypeInit == Init => TypeOK
<1> SUFFICES ASSUME Init PROVE TypeOK
  OBVIOUS
<1>1. FileTypes
  BY BoundsAssumption DEF Init, FileTypes
<1>2. PlanTypes /\ ApproveTypes
  BY DEF Init, PlanTypes, ApproveTypes
<1>3. DeployTypes
  BY DEF Init, DeployTypes, Exits, Committed
<1> QED
  BY <1>1, <1>2, <1>3 DEF TypeOK

\* Whoever plans, approves, deploys or edits, the files, the log and what a
\* command holds have the shape that plan.py and main.py give them; above all
\* the log is a sequence of complete events.
THEOREM TypeCorrect == Spec => []TypeOK
BY TypeInit, TypeStep, PTL DEF Spec

-----------------------------------------------------------------------------
(* The audit log only grows, and what it says once it says for ever.       *)

Lengthens == Len(log) <= Len(log') /\ \A i \in 1..Len(log) : log'[i] = log[i]

\* What was written by hand is remembered as well.
Grows == Lengthens /\ forged \subseteq forged' /\ resealed \subseteq resealed'

LEMMA RecordAppends ==
    ASSUME TypeOK, NEW e, log' = Append(log, e)
    PROVE  /\ Lengthens
           /\ Len(log) \in Nat
           /\ Len(log') = Len(log) + 1
           /\ log'[Len(log) + 1] = e
<1>1. log \in Seq(Event \cup {e})
  <2>1. log \in Seq(Event)
    BY DEF TypeOK, FileTypes
  <2> QED
    BY <2>1, SeqMonotonic
<1>2. Len(log) \in Nat
  BY <1>1, LenProperties
<1> QED
  BY <1>1, <1>2, AppendProperties DEF Lengthens

LEMMA LogLengthens == TypeOK /\ [Next]_vars => Lengthens
<1> SUFFICES ASSUME TypeOK, [Next]_vars PROVE Lengthens
  OBVIOUS
<1>1. CASE log' = log
  <2>1. Len(log) \in Nat
    BY LenProperties DEF TypeOK, FileTypes
  <2> QED
    BY <1>1, <2>1 DEF Lengthens
<1>2. CASE \E e : log' = Append(log, e)
  BY <1>2, RecordAppends
<1>3. ASSUME NEW a \in Authors, PlanStep(a)
      PROVE  log' = log \/ \E e : log' = Append(log, e)
  BY <1>3 DEF PlanStep, PlanCheck, PlanSeal, PlanTruncate, PlanSave, PlanStop, Record
<1>4. ASSUME NEW a \in Approvers, ApproveStep(a)
      PROVE  log' = log \/ \E e : log' = Append(log, e)
  BY <1>4 DEF ApproveStep, ApproveLoad, ApproveRecord, ApproveTruncate, ApproveSave,
              ApproveCrash, ApproveAgain, Record
<1>5. ASSUME NEW d \in Deployers, DeployStep(d)
      PROVE  log' = log \/ \E e : log' = Append(log, e)
  BY <1>5 DEF DeployStep, DeployWork, DeployLoad, DeployLoadRefused, DeployHash, Refuse,
              DeployVerify, DeployVerifyFails, DeployPublish, DeployRun, DeployRunFails,
              FailureEvent, DeployRunRaises, DeploySnapshot, DeployCopyPolicy,
              DeployCopyRaises, DeployRecord, DeployCrash, Record
<1>6. CASE Environment
  BY <1>1, <1>6 DEF Environment, EditPolicy, EditBaseline, RefreshPins, RotateKey, EditPlan, Midnight
<1>7. CASE UNCHANGED vars
  BY <1>1, <1>7 DEF vars
<1> QED
  BY <1>1, <1>2, <1>3, <1>4, <1>5, <1>6, <1>7 DEF Next

\* Only an editor writes by hand, and nobody forgets it.
LEMMA HandGrows == [Next]_vars => forged \subseteq forged' /\ resealed \subseteq resealed'
<1> SUFFICES ASSUME [Next]_vars
             PROVE  forged \subseteq forged' /\ resealed \subseteq resealed'
  OBVIOUS
<1>1. CASE UNCHANGED clock
  BY <1>1 DEF clock, byHand
<1>2. ASSUME NEW a \in Authors, PlanStep(a) PROVE UNCHANGED clock
  BY <1>2 DEF PlanStep, PlanCheck, PlanSeal, PlanTruncate, PlanSave, PlanStop
<1>3. ASSUME NEW a \in Approvers, ApproveStep(a) PROVE UNCHANGED clock
  BY <1>3 DEF ApproveStep, ApproveLoad, ApproveRecord, ApproveTruncate, ApproveSave,
              ApproveCrash, ApproveAgain
<1>4. ASSUME NEW d \in Deployers, DeployStep(d) PROVE UNCHANGED clock
  BY <1>4, DeployLeavesOutside DEF outside
<1>5. CASE EditPlan
  <2>1. CASE SealContent
    BY <2>1 DEF SealContent
  <2>2. CASE EditContent \/ AddApproval \/ RemoveApproval
    BY <2>2 DEF EditContent, AddApproval, RemoveApproval, byHand
  <2> QED
    BY <1>5, <2>1, <2>2 DEF EditPlan
<1>6. CASE EditPolicy \/ EditBaseline \/ RefreshPins \/ RotateKey \/ Midnight
  BY <1>6 DEF EditPolicy, EditBaseline, RefreshPins, RotateKey, Midnight, byHand
<1> QED
  BY <1>1, <1>2, <1>3, <1>4, <1>5, <1>6 DEF Next, Environment, vars

LEMMA LogGrows == TypeOK /\ [Next]_vars => Grows
BY LogLengthens, HandGrows DEF Grows

LEMMA RecordsStay ==
    ASSUME TypeOK, Grows, TypeOK'
    PROVE  /\ \A id : Planned(id) => Planned(id)'
           /\ \A id, name : ApprovedBy(id, name) => ApprovedBy(id, name)'
           /\ \A config : OnRecord(config) => OnRecord(config)'
           /\ \A id : Reviewers(id) \subseteq Reviewers(id)'
           /\ \A id : Forged(id) \subseteq Forged(id)'
<1>1. Len(log) \in Nat /\ Len(log') \in Nat
  BY LenProperties DEF TypeOK, FileTypes
<1>2. \A i \in 1..Len(log) : i \in 1..Len(log') /\ log'[i] = log[i]
  BY <1>1 DEF Grows, Lengthens
<1>3. \A id, name : ApprovedBy(id, name) => ApprovedBy(id, name)'
  BY <1>2 DEF ApprovedBy
<1> QED
  BY <1>2, <1>3 DEF Planned, OnRecord, Reviewers, Forged, Grows

\* An event that was just recorded is on record.
LEMMA RecordedNow ==
    ASSUME TypeOK, NEW event, NEW actor, NEW id, NEW approvers,
           Record(event, actor, id, approvers)
    PROVE  /\ event = "plan" => Planned(id)'
           /\ event = "approve" => ApprovedBy(id, actor)'
           /\ event \in {"deploy", "deploy_failed"} => OnRecord(id.sha256.config)'
<1>1. Len(log) + 1 \in 1..Len(log') /\ log'[Len(log) + 1] = Entry(event, actor, id, approvers)
  BY RecordAppends DEF Record
<1> QED
  BY <1>1 DEF Entry, Planned, ApprovedBy, OnRecord

-----------------------------------------------------------------------------
(* Plans are on record wherever they are.                                  *)

\* A signature is on record with the name and the plan it is for.
SignatureKnown(x) ==
    x.signature # Unsigned =>
        /\ ApprovedBy(x.signature.plan_id, x.signature.by)
        /\ x.signature.plan_id.sha256.deployable

\* An approval is on record, of a plan found deployable, or was written by hand.
Known(id, x) ==
    /\ SignatureKnown(x)
    /\ \/ ApprovedBy(id, x.by) /\ id.sha256.deployable
       \/ [plan_id |-> id, by |-> x.by] \in forged

Given(id) == Planned(id) \/ id \in resealed

\* The log has the plan, unless it was sealed by hand, and its approvals are
\* what Known says.
Backed(plan) ==
    /\ Given(plan.plan_id)
    /\ \A x \in plan.approvals : Known(plan.plan_id, x)

\* The same of a plan that somebody is approving, but for this approval.
BackedButFor(a, plan) ==
    /\ Given(plan.plan_id)
    /\ plan.plan_id.sha256.deployable
    /\ \A x \in plan.approvals :
          \/ Known(plan.plan_id, x)
          \/ /\ x.by = a
             /\ x.signature # Unsigned =>
                   x.signature.plan_id = plan.plan_id /\ x.signature.by = a

FileBacked == planFile \notin {NoFile, Partial} => Backed(planFile)

DraftsBacked == \A a \in Authors : ppc[a] \in {"sealed", "saving"} => Backed(draft[a])

WorkBacked ==
    \A a \in Approvers :
        /\ apc[a] = "approving" => BackedButFor(a, working[a])
        /\ apc[a] \in {"recorded", "saving"} => Backed(working[a])

LoadedBacked ==
    \A d \in Deployers : dpc[d] \notin Exits => Backed(loaded[d]) /\ Loadable(loaded[d])

BackedInv == FileBacked /\ DraftsBacked /\ WorkBacked /\ LoadedBacked

LEMMA BackedStays ==
    ASSUME TypeOK, Grows, TypeOK'
    PROVE  /\ \A plan : Backed(plan) => Backed(plan)'
           /\ \A a, plan : BackedButFor(a, plan) => BackedButFor(a, plan)'
           /\ \A id, x : Known(id, x) => Known(id, x)'
           /\ \A id : Given(id) => Given(id)'
<1>1. \A id : Given(id) => Given(id)'
  BY RecordsStay DEF Given, Grows
<1>2. \A x : SignatureKnown(x) => SignatureKnown(x)'
  BY RecordsStay DEF SignatureKnown
<1>3. \A id, x : Known(id, x) => Known(id, x)'
  BY <1>2, RecordsStay DEF Known, Grows
<1> QED
  BY <1>1, <1>3 DEF Backed, BackedButFor

\* Who signed an approval of a plan is on record with it.
LEMMA GenuineIsOnRecord ==
    ASSUME NEW id \in PlanIds, NEW x \in Approval, SignatureKnown(x), Genuine(id, x)
    PROVE  ApprovedBy(id, x.by) /\ id.sha256.deployable
<1>1. PICK k \in Keys : x.signature = [plan_id |-> id, by |-> x.by, key |-> k]
  BY NamesAssumption DEF Genuine, Sign
<1>2. x.signature \in Signatures
  BY <1>1 DEF Signatures, Approval
<1>3. x.signature # Unsigned
  BY <1>2, UnsignedAssumption
<1>4. x.signature.plan_id = id /\ x.signature.by = x.by
  BY <1>1
<1> QED
  BY <1>3, <1>4 DEF SignatureKnown

LEMMA BackedKept ==
    ASSUME TypeOK, Grows, TypeOK'
    PROVE  /\ FileBacked /\ UNCHANGED planFile => FileBacked'
           /\ DraftsBacked /\ UNCHANGED planning => DraftsBacked'
           /\ WorkBacked /\ UNCHANGED approval => WorkBacked'
           /\ LoadedBacked /\ UNCHANGED <<dpc, loaded>> => LoadedBacked'
BY BackedStays DEF FileBacked, DraftsBacked, WorkBacked, LoadedBacked, Loadable, planning, approval

LEMMA PlanKeepsBacked ==
    ASSUME TypeOK, Grows, TypeOK', BackedInv, NEW a \in Authors, PlanStep(a)
    PROVE  BackedInv'
<1> USE DEF BackedInv
<1>1. UNCHANGED <<approval, dpc, loaded>>
  BY DEF PlanStep, PlanCheck, PlanSeal, PlanTruncate, PlanSave, PlanStop, deploying, memory
<1>2. WorkBacked' /\ LoadedBacked'
  BY <1>1, BackedKept
<1>3. ASSUME NEW given \in PlanOptions, PlanCheck(a, given) PROVE FileBacked' /\ DraftsBacked'
  BY <1>3, BackedKept, BackedStays DEF PlanCheck, PlanGoes, DraftsBacked, TypeOK, PlanTypes
<1>4. ASSUME PlanSeal(a) PROVE FileBacked' /\ DraftsBacked'
  <2> DEFINE hashed  == IF check[a].baseline = NoBaseline THEN NoBaseline ELSE baseline
             content == [author |-> a, created |-> day, policy |-> policy,
                         baseline |-> hashed, required |-> check[a].required,
                         sign |-> check[a].sign, deployable |-> check[a].deployable,
                         config |-> check[a].config]
             plan == [plan_id |-> PlanId(content), content |-> content, approvals |-> {}]
  <2>1. /\ Record("plan", a, PlanId(content), {})
        /\ draft' = [draft EXCEPT ![a] = plan]
        /\ ppc' = [ppc EXCEPT ![a] = "sealed"]
        /\ UNCHANGED planFile
    BY <1>4 DEF PlanSeal, PlanGoes
  <2>2. \A id : id = PlanId(content) => Planned(id)'
    <3> HIDE DEF content
    <3> QED
      BY <2>1, RecordedNow
  <2>3. plan.plan_id = PlanId(content) /\ plan.approvals = {}
    OBVIOUS
  <2>4. draft'[a] = plan /\ \A x \in Authors \ {a} : draft'[x] = draft[x] /\ ppc'[x] = ppc[x]
    BY <2>1 DEF TypeOK, PlanTypes
  <2> HIDE DEF plan, content
  <2>5. Backed(draft[a])'
    BY <2>2, <2>3, <2>4 DEF Backed, Given
  <2> QED
    BY <2>1, <2>4, <2>5, BackedKept, BackedStays DEF DraftsBacked
<1>5. ASSUME PlanTruncate(a) PROVE FileBacked' /\ DraftsBacked'
  BY <1>5, BackedStays DEF PlanTruncate, PlanGoes, FileBacked, DraftsBacked, TypeOK, PlanTypes
<1>6. ASSUME PlanSave(a) PROVE FileBacked' /\ DraftsBacked'
  BY <1>6, BackedStays DEF PlanSave, PlanGoes, FileBacked, DraftsBacked, TypeOK, PlanTypes
<1>7. ASSUME PlanStop(a) PROVE FileBacked' /\ DraftsBacked'
  BY <1>7, BackedKept, BackedStays DEF PlanStop, DraftsBacked, TypeOK, PlanTypes
<1> QED
  BY <1>2, <1>3, <1>4, <1>5, <1>6, <1>7 DEF PlanStep

LEMMA ApproveKeepsBacked ==
    ASSUME TypeOK, Grows, TypeOK', BackedInv, NEW a \in Approvers, ApproveStep(a)
    PROVE  BackedInv'
<1> USE DEF BackedInv
<1>1. UNCHANGED <<planning, dpc, loaded>>
  BY DEF ApproveStep, ApproveLoad, ApproveRecord, ApproveTruncate, ApproveSave,
         ApproveCrash, ApproveAgain, deploying, memory
<1>2. DraftsBacked' /\ LoadedBacked'
  BY <1>1, BackedKept
<1>3. ASSUME ApproveLoad(a) PROVE FileBacked' /\ WorkBacked'
  <2> DEFINE new  == [by |-> a, signature |-> Sign(planFile.plan_id, a, key)]
             plan == [planFile EXCEPT !.approvals = @ \cup {new}]
  <2>1. planFile \in Plan /\ planFile \notin {NoFile, Partial}
    BY <1>3 DEF ApproveLoad, Loadable, TypeOK, FileTypes
  <2>2. plan.plan_id = planFile.plan_id /\ plan.approvals = planFile.approvals \cup {new}
    BY <2>1 DEF Plan
  <2>3. new.by = a /\ (new.signature # Unsigned =>
                         new.signature.plan_id = planFile.plan_id /\ new.signature.by = a)
    BY DEF Sign
  <2>4. Backed(planFile)
    BY <2>1 DEF FileBacked
  <2>5. planFile.plan_id.sha256.deployable
    BY <1>3 DEF ApproveLoad, MayApprove, Loadable, PlanId
  <2>6. /\ working' = [working EXCEPT ![a] = plan]
        /\ apc' = [apc EXCEPT ![a] = "approving"]
        /\ UNCHANGED planFile
    BY <1>3 DEF ApproveLoad, ApproveGoes
  <2> HIDE DEF plan, new
  <2>7. BackedButFor(a, plan)
    BY <2>2, <2>3, <2>4, <2>5 DEF Backed, BackedButFor
  <2>8. BackedButFor(a, working[a])'
    BY <2>6, <2>7, BackedStays DEF TypeOK, ApproveTypes
  <2> QED
    BY <2>6, <2>8, BackedKept, BackedStays DEF WorkBacked, TypeOK, ApproveTypes
<1>4. ASSUME ApproveRecord(a) PROVE FileBacked' /\ WorkBacked'
  <2>1. /\ Record("approve", a, working[a].plan_id, {})
        /\ apc[a] = "approving" /\ apc' = [apc EXCEPT ![a] = "recorded"]
        /\ UNCHANGED <<planFile, working>>
    BY <1>4 DEF ApproveRecord, ApproveGoes
  <2> PICK id : id = working[a].plan_id
    OBVIOUS
  <2>2. ApprovedBy(id, a)'
    BY <2>1, RecordedNow
  <2>3. BackedButFor(a, working[a])
    BY <2>1 DEF WorkBacked
  <2>4. Given(id)' /\ id.sha256.deployable
    BY <2>3, BackedStays DEF BackedButFor
  <2>5. ASSUME NEW x \in working[a].approvals PROVE Known(id, x)'
    <3>1. CASE Known(id, x)
      BY <3>1, BackedStays
    <3>2. CASE /\ x.by = a
               /\ x.signature # Unsigned => x.signature.plan_id = id /\ x.signature.by = a
      <4>1. SignatureKnown(x)'
        BY <2>2, <2>4, <3>2 DEF SignatureKnown
      <4>2. ApprovedBy(id, x.by)'
        BY <2>2, <3>2
      <4> QED
        BY <2>4, <4>1, <4>2 DEF Known
    <3> QED
      BY <2>3, <3>1, <3>2 DEF BackedButFor
  <2>6. Backed(working[a])'
    BY <2>1, <2>4, <2>5 DEF Backed
  <2> QED
    BY <2>1, <2>6, BackedKept, BackedStays DEF WorkBacked, TypeOK, ApproveTypes
<1>5. ASSUME ApproveTruncate(a) PROVE FileBacked' /\ WorkBacked'
  BY <1>5, BackedStays DEF ApproveTruncate, ApproveGoes, FileBacked, WorkBacked, TypeOK, ApproveTypes
<1>6. ASSUME ApproveSave(a) PROVE FileBacked' /\ WorkBacked'
  BY <1>6, BackedStays DEF ApproveSave, ApproveGoes, FileBacked, WorkBacked, TypeOK, ApproveTypes
<1>7. ASSUME ApproveCrash(a) \/ ApproveAgain(a) PROVE FileBacked' /\ WorkBacked'
  BY <1>7, BackedKept, BackedStays
  DEF ApproveCrash, ApproveAgain, ApproveGoes, WorkBacked, TypeOK, ApproveTypes
<1> QED
  BY <1>2, <1>3, <1>4, <1>5, <1>6, <1>7 DEF ApproveStep

\* A deploy has what it loaded, or nothing.
LEMMA DeployKeepsLoaded ==
    ASSUME TypeOK, NEW d \in Deployers, DeployStep(d)
    PROVE  /\ \/ dpc'[d] \in Exits
              \/ dpc'[d] = "loaded" /\ loaded'[d] = planFile /\ Loadable(planFile)
              \/ dpc[d] \notin Exits /\ loaded'[d] = loaded[d]
           /\ \A e \in Deployers \ {d} : dpc'[e] = dpc[e] /\ loaded'[e] = loaded[e]
<1> USE DEF TypeOK, DeployTypes, memory, Exits
<1>1. CASE \E s \in Shells : DeployLoad(d, s)
  BY <1>1 DEF DeployLoad
<1>2. ASSUME Refuse(d)
      PROVE  /\ dpc'[d] \in Exits
             /\ \A e \in Deployers \ {d} : dpc'[e] = dpc[e] /\ loaded'[e] = loaded[e]
  BY <1>2 DEF Refuse, Forget
<1>3. CASE DeployHash(d)
  BY <1>2, <1>3 DEF DeployHash
<1>4. CASE DeployVerify(d)
  BY <1>2, <1>4 DEF DeployVerify, Forget
<1>5. CASE DeployLoadRefused(d)
  BY <1>5 DEF DeployLoadRefused
<1>6. CASE DeployPublish(d) \/ DeployRun(d)
  BY <1>6 DEF DeployPublish, DeployRun, DeployGoes
<1>7. CASE DeploySnapshot(d) \/ DeployCopyPolicy(d)
  BY <1>7 DEF DeploySnapshot, DeployCopyPolicy, DeployGoes
<1>8. CASE DeployVerifyFails(d) \/ DeployRunFails(d) \/ DeployRunRaises(d)
  BY <1>8 DEF DeployVerifyFails, DeployRunFails, DeployRunRaises, DeployGoes, Forget
<1>9. CASE DeployCopyRaises(d) \/ DeployRecord(d) \/ DeployCrash(d)
  BY <1>9 DEF DeployCopyRaises, DeployRecord, DeployCrash, DeployGoes, Forget
<1> QED
  BY <1>1, <1>3, <1>4, <1>5, <1>6, <1>7, <1>8, <1>9 DEF DeployStep, DeployWork

LEMMA DeployKeepsBacked ==
    ASSUME TypeOK, Grows, TypeOK', BackedInv, NEW d \in Deployers, DeployStep(d)
    PROVE  BackedInv'
<1> USE DEF BackedInv
<1>1. UNCHANGED <<planFile, planning, approval>>
  BY DeployLeavesOutside DEF outside
<1>2. FileBacked' /\ DraftsBacked' /\ WorkBacked'
  BY <1>1, BackedKept
<1>3. ASSUME Loadable(planFile) PROVE Backed(planFile)
  BY <1>3 DEF Loadable, FileBacked
<1>4. LoadedBacked'
  <2>1. ASSUME NEW e \in Deployers, dpc'[e] \notin Exits
        PROVE  Backed(loaded'[e]) /\ Loadable(loaded'[e])
    BY <1>3, <2>1, DeployKeepsLoaded DEF LoadedBacked
  <2> QED
    BY <2>1, BackedStays DEF LoadedBacked, Loadable
<1> QED
  BY <1>2, <1>4

\* Whatever is written into a plan file by hand: approvals that are not on
\* record are remembered, and signatures only copied.
LEMMA EditKeepsBacked ==
    ASSUME TypeOK, Grows, TypeOK', FileBacked, EditPlan
    PROVE  Backed(planFile)'
<1>1. planFile \in Plan /\ Backed(planFile)
  BY DEF EditPlan, TypeOK, FileTypes, FileBacked
<1> PICK old : old = planFile.plan_id
  OBVIOUS
<1>2. Given(old)' /\ \A x \in planFile.approvals : Known(old, x)'
  BY <1>1, BackedStays DEF Backed
<1>3. CASE EditContent
  <2>1. planFile'.plan_id = planFile.plan_id /\ planFile'.approvals = planFile.approvals
    BY <1>1, <1>3, ChangedType DEF EditContent
  <2> QED
    BY <1>2, <2>1 DEF Backed
<1>4. CASE SealContent
  <2>1. PICK plan \in Changes(planFile) :
           /\ planFile' = [plan EXCEPT !.plan_id = PlanId(plan.content)]
           /\ resealed' = resealed \cup {PlanId(plan.content)}
           /\ forged' = forged \cup {[plan_id |-> PlanId(plan.content), by |-> x.by] :
                                        x \in plan.approvals}
    BY <1>4 DEF SealContent
  <2> PICK id : id = PlanId(plan.content)
    OBVIOUS
  <2>2. plan \in Plan /\ plan.approvals = planFile.approvals
    BY <1>1, ChangedType
  <2>3. planFile'.plan_id = id /\ planFile'.approvals = planFile.approvals
    BY <2>1, <2>2 DEF Plan
  <2>4. Given(id)'
    BY <2>1 DEF Given
  <2>5. ASSUME NEW x \in planFile.approvals PROVE Known(id, x)'
    <3>1. SignatureKnown(x)'
      BY <1>2 DEF Known
    <3>2. [plan_id |-> id, by |-> x.by] \in forged'
      BY <2>1, <2>2
    <3> QED
      BY <3>1, <3>2 DEF Known
  <2> QED
    BY <2>3, <2>4, <2>5 DEF Backed
<1>5. CASE AddApproval
  <2>1. PICK name \in Approvers, signature \in {Unsigned} \cup {x.signature : x \in planFile.approvals} :
           /\ planFile' = [planFile EXCEPT !.approvals = @ \cup {[by |-> name, signature |-> signature]}]
           /\ forged' = forged \cup {[plan_id |-> planFile.plan_id, by |-> name]}
    BY <1>5 DEF AddApproval
  <2> DEFINE new == [by |-> name, signature |-> signature]
  <2>2. /\ planFile'.plan_id = planFile.plan_id
        /\ planFile'.approvals = planFile.approvals \cup {new}
    BY <1>1, <2>1 DEF Plan
  <2>3. SignatureKnown(new)'
    <3>1. new.signature = signature
      OBVIOUS
    <3>2. CASE signature = Unsigned
      BY <3>1, <3>2 DEF SignatureKnown
    <3>3. ASSUME NEW x \in planFile.approvals, signature = x.signature PROVE SignatureKnown(new)'
      BY <1>2, <3>1, <3>3 DEF Known, SignatureKnown
    <3> QED
      BY <3>2, <3>3
  <2>4. Known(old, new)'
    BY <2>1, <2>3 DEF Known
  <2> HIDE DEF new
  <2> QED
    BY <1>2, <2>2, <2>4 DEF Backed
<1>6. CASE RemoveApproval
  <2>1. planFile'.plan_id = planFile.plan_id /\ planFile'.approvals \subseteq planFile.approvals
    BY <1>1, <1>6 DEF RemoveApproval, Plan
  <2> QED
    BY <1>2, <2>1 DEF Backed
<1> QED
  BY <1>3, <1>4, <1>5, <1>6 DEF EditPlan

LEMMA EnvironmentKeepsBacked ==
    ASSUME TypeOK, Grows, TypeOK', BackedInv, Environment
    PROVE  BackedInv'
<1> USE DEF BackedInv
<1>1. UNCHANGED <<planning, approval, dpc, loaded>>
  BY DEF Environment, EditPolicy, EditBaseline, RefreshPins, RotateKey, EditPlan, Midnight,
         deploying, memory
<1>2. DraftsBacked' /\ WorkBacked' /\ LoadedBacked'
  BY <1>1, BackedKept
<1>3. CASE EditPlan
  <2>1. Backed(planFile)'
    BY <1>3, EditKeepsBacked
  <2> QED
    BY <1>2, <2>1 DEF FileBacked
<1>4. CASE ~EditPlan
  BY <1>2, <1>4, BackedKept DEF Environment, EditPolicy, EditBaseline, RefreshPins, RotateKey, Midnight
<1> QED
  BY <1>3, <1>4

LEMMA BackedStep == TypeOK /\ BackedInv /\ [Next]_vars /\ TypeOK' => BackedInv'
<1> SUFFICES ASSUME TypeOK, BackedInv, [Next]_vars, TypeOK' PROVE BackedInv'
  OBVIOUS
<1>1. Grows
  BY LogGrows
<1>2. CASE UNCHANGED vars
  BY <1>1, <1>2, BackedKept DEF vars, deploying, memory, BackedInv
<1>3. CASE Next
  BY <1>1, <1>3, PlanKeepsBacked, ApproveKeepsBacked, DeployKeepsBacked, EnvironmentKeepsBacked
  DEF Next
<1> QED
  BY <1>2, <1>3

LEMMA BackedInit == Init => BackedInv
BY DEF Init, BackedInv, FileBacked, DraftsBacked, WorkBacked, LoadedBacked, Exits

LEMMA BackedAlways == Spec => [](TypeOK /\ BackedInv)
<1>1. Init => TypeOK /\ BackedInv
  BY TypeInit, BackedInit
<1>2. TypeOK /\ BackedInv /\ [Next]_vars => (TypeOK /\ BackedInv)'
  BY TypeStep, BackedStep
<1> QED
  BY <1>1, <1>2, PTL DEF Spec

\* Whatever approvers save over each other, whoever edits the plan file and
\* wherever commands crash, a plan file that load_plan takes is of a plan on
\* record, or sealed by hand, with approvals on record, or written by hand and
\* without a signature of their own.
THEOREM PlanFilesAreOnRecord == Spec => []PlanFileIsOnRecord
<1>1. TypeOK /\ BackedInv => PlanFileIsOnRecord
  <2> SUFFICES ASSUME TypeOK, BackedInv, Loadable(planFile)
               PROVE  /\ Given(planFile.plan_id)
                      /\ \A x \in planFile.approvals :
                            \/ ApprovedBy(planFile.plan_id, x.by)
                            \/ /\ [plan_id |-> planFile.plan_id, by |-> x.by] \in forged
                               /\ ~Genuine(planFile.plan_id, x)
    BY DEF PlanFileIsOnRecord, Given
  <2>1. planFile \in Plan /\ Backed(planFile)
    BY DEF Loadable, BackedInv, FileBacked, TypeOK, FileTypes
  <2>2. planFile.plan_id \in PlanIds /\ planFile.approvals \in SUBSET Approval
    BY <2>1, PlanFields
  <2>3. \A x \in planFile.approvals : Known(planFile.plan_id, x) /\ x \in Approval
    BY <2>1, <2>2 DEF Backed
  <2>4. Given(planFile.plan_id)
    BY <2>1 DEF Backed
  <2> QED
    BY <2>2, <2>3, <2>4, GenuineIsOnRecord DEF Known
<1> QED
  BY <1>1, BackedAlways, PTL

-----------------------------------------------------------------------------
(* What a deploy knows that has passed every check.                        *)

\* Whose approvals may count: reviewers on record of what was found
\* deployable and, where no signatures are asked for, names written by hand.
MayCount(id) ==
    {name \in Reviewers(id) : id.sha256.deployable} \cup {name \in Forged(id) : ~id.sha256.sign}

\* The people it counted are among them and are enough for the baseline that
\* was in force.
ReviewKnown(d) ==
    LET id == loaded[d].plan_id IN
    /\ counted[d] \subseteq MayCount(id)
    /\ Cardinality(counted[d]) >= RequiredBy(controls[d].baseline)
    /\ id.sha256.baseline # NoBaseline => controls[d].baseline # NoBaseline

\* The configuration is the one of a policy that passed the gate.
GateKnown(d) ==
    \E p \in Policies, s \in Pins :
        /\ Render(p, s) = loaded[d].content.config
        /\ Passes(p, s, controls[d].baseline, controls[d].today)

CommitInv == \A d \in Deployers : dpc[d] \in Committed => ReviewKnown(d) /\ GateKnown(d)

\* A deploy becomes committed when it verifies, and from then on holds what
\* it verified; of other deploys it changes nothing.
LEMMA DeployKeepsCommitted ==
    ASSUME TypeOK, NEW d \in Deployers, DeployStep(d)
    PROVE  /\ dpc'[d] \in Committed =>
                \/ /\ dpc[d] \in Committed
                   /\ loaded'[d] = loaded[d] /\ controls'[d] = controls[d]
                   /\ counted'[d] = counted[d] /\ shell'[d] = shell[d]
                \/ /\ dpc[d] = "matched" /\ Deployable(d)
                   /\ policy # NoFile /\ InForce(d) # NoFile
                   /\ loaded'[d] = loaded[d]
                   /\ controls'[d] = [baseline |-> InForce(d), today |-> day]
                   /\ counted'[d] = ValidApprovers(loaded[d], shell[d].key)
           /\ \A e \in Deployers \ {d} :
                 /\ dpc'[e] = dpc[e] /\ loaded'[e] = loaded[e] /\ shell'[e] = shell[e]
                 /\ controls'[e] = controls[e] /\ counted'[e] = counted[e]
<1> USE DEF TypeOK, DeployTypes, memory, Committed
<1> DEFINE Others == \A e \in Deployers \ {d} :
              /\ dpc'[e] = dpc[e] /\ loaded'[e] = loaded[e] /\ shell'[e] = shell[e]
              /\ controls'[e] = controls[e] /\ counted'[e] = counted[e]
<1>1. CASE \E s \in Shells : DeployLoad(d, s)
  BY <1>1 DEF DeployLoad
<1>2. ASSUME Refuse(d) PROVE dpc'[d] = "refused" /\ Others
  BY <1>2 DEF Refuse, Forget
<1>3. CASE DeployHash(d)
  BY <1>2, <1>3 DEF DeployHash
<1>4. CASE DeployVerify(d)
  <2>1. CASE Refuse(d)
    BY <1>2, <2>1
  <2>2. CASE dpc' = [dpc EXCEPT ![d] = "checked only"] /\ Forget(d)
    BY <2>2 DEF Forget
  <2>3. CASE /\ Deployable(d)
             /\ dpc' = [dpc EXCEPT ![d] = "verified"]
             /\ controls' = [controls EXCEPT ![d] = [baseline |-> InForce(d), today |-> day]]
             /\ counted' = [counted EXCEPT ![d] = ValidApprovers(loaded[d], shell[d].key)]
             /\ UNCHANGED <<shell, loaded>>
    <3>1. dpc[d] = "matched" /\ policy # NoFile /\ InForce(d) # NoFile
      BY <1>4 DEF DeployVerify
    <3>2. Others
      BY <2>3
    <3> QED
      BY <2>3, <3>1, <3>2
  <2> QED
    BY <1>4, <2>1, <2>2, <2>3 DEF DeployVerify
<1>5. CASE DeployLoadRefused(d)
  BY <1>5 DEF DeployLoadRefused
<1>6. CASE DeployPublish(d) \/ DeployRun(d)
  BY <1>6 DEF DeployPublish, DeployRun, DeployGoes
<1>7. CASE DeploySnapshot(d) \/ DeployCopyPolicy(d)
  BY <1>7 DEF DeploySnapshot, DeployCopyPolicy, DeployGoes
<1>8. CASE DeployVerifyFails(d) \/ DeployRunFails(d) \/ DeployRunRaises(d)
  BY <1>8 DEF DeployVerifyFails, DeployRunFails, DeployRunRaises, DeployGoes, Forget
<1>9. CASE DeployCopyRaises(d) \/ DeployRecord(d) \/ DeployCrash(d)
  BY <1>9 DEF DeployCopyRaises, DeployRecord, DeployCrash, DeployGoes, Forget
<1> QED
  BY <1>1, <1>3, <1>4, <1>5, <1>6, <1>7, <1>8, <1>9 DEF DeployStep, DeployWork

\* Every name that counts is the name of a reviewer on record, or written by
\* hand into a plan that asks for no signatures.
LEMMA ValidMayCount ==
    ASSUME NEW plan \in Plan, NEW k \in Keys \cup {NoKey}, Backed(plan), Loadable(plan)
    PROVE  ValidApprovers(plan, k) \subseteq MayCount(plan.plan_id)
<1> DEFINE id == plan.plan_id
<1>1. id \in PlanIds /\ plan.approvals \in SUBSET Approval /\ id.sha256 = plan.content
  BY PlanFields DEF Loadable, PlanId
<1>2. SUFFICES ASSUME NEW name \in ValidApprovers(plan, k) PROVE name \in MayCount(id)
  OBVIOUS
<1>3. /\ name \in Approvers /\ name # id.sha256.author
      /\ \E a \in plan.approvals :
            /\ a.by = name
            /\ id.sha256.sign => k # NoKey /\ a.signature = Sign(id, name, k)
  BY <1>1 DEF ValidApprovers
<1>4. PICK a \in plan.approvals :
         /\ a.by = name
         /\ id.sha256.sign => k # NoKey /\ a.signature = Sign(id, name, k)
  BY <1>3
<1>5. Known(id, a) /\ a \in Approval
  BY <1>1 DEF Backed
<1>6. CASE id.sha256.sign
  <2>1. Genuine(id, a)
    BY <1>4, <1>6 DEF Genuine
  <2>2. ApprovedBy(id, a.by) /\ id.sha256.deployable
    BY <1>1, <1>5, <2>1, GenuineIsOnRecord DEF Known
  <2> QED
    BY <1>3, <1>4, <2>2 DEF MayCount, Reviewers
<1>7. CASE ~id.sha256.sign
  BY <1>3, <1>4, <1>5, <1>7 DEF Known, MayCount, Reviewers, Forged
<1> QED
  BY <1>6, <1>7

LEMMA MayCountStays ==
    ASSUME TypeOK, Grows, TypeOK'
    PROVE  \A id : MayCount(id) \subseteq MayCount(id)'
BY RecordsStay DEF MayCount

\* The step in which a deploy becomes committed.
LEMMA CommittingKnows ==
    ASSUME TypeOK, BackedInv, Grows, TypeOK', NEW d \in Deployers,
           dpc[d] = "matched", Deployable(d), policy # NoFile, InForce(d) # NoFile,
           loaded'[d] = loaded[d],
           controls'[d] = [baseline |-> InForce(d), today |-> day],
           counted'[d] = ValidApprovers(loaded[d], shell[d].key)
    PROVE  ReviewKnown(d)' /\ GateKnown(d)'
<1>1. Backed(loaded[d]) /\ Loadable(loaded[d])
  BY DEF BackedInv, LoadedBacked, Exits
<1>2. controls'[d].baseline = InForce(d) /\ controls'[d].today = day
  OBVIOUS
<1>3. counted'[d] \subseteq MayCount(loaded[d].plan_id)
  <2>1. loaded[d] \in Plan /\ shell[d].key \in Keys \cup {NoKey}
    BY DEF TypeOK, DeployTypes, Shell, Exits
  <2> QED
    BY <1>1, <2>1, ValidMayCount
<1>4. \A id : MayCount(id) \subseteq MayCount(id)'
  BY MayCountStays
<1>5. Cardinality(counted'[d]) >= RequiredBy(controls'[d].baseline)
  BY <1>2 DEF Deployable, Quorum
<1>6. loaded[d].plan_id.sha256 = loaded[d].content
  BY <1>1 DEF Loadable, PlanId
<1>7. loaded[d].content.baseline # NoBaseline => InForce(d) # NoBaseline
  BY NamesAssumption DEF InForce, TypeOK, FileTypes
<1>8. ReviewKnown(d)'
  BY <1>2, <1>3, <1>4, <1>5, <1>6, <1>7 DEF ReviewKnown, RequiredBy
<1>9. policy \in Policies /\ pins \in Pins
  BY DEF TypeOK, FileTypes
<1>10. GateKnown(d)'
  BY <1>2, <1>9 DEF GateKnown, Deployable, NoBlockers
<1> QED
  BY <1>8, <1>10

LEMMA CommitKept ==
    ASSUME TypeOK, CommitInv, Grows, TypeOK', NEW d \in Deployers, dpc[d] \in Committed,
           loaded'[d] = loaded[d], controls'[d] = controls[d], counted'[d] = counted[d]
    PROVE  ReviewKnown(d)' /\ GateKnown(d)'
<1>1. ReviewKnown(d) /\ GateKnown(d)
  BY DEF CommitInv
<1>2. \A id : MayCount(id) \subseteq MayCount(id)'
  BY MayCountStays
<1> QED
  BY <1>1, <1>2 DEF ReviewKnown, GateKnown, RequiredBy

LEMMA CommitStep == TypeOK /\ BackedInv /\ CommitInv /\ [Next]_vars /\ TypeOK' => CommitInv'
<1> SUFFICES ASSUME TypeOK, BackedInv, CommitInv, [Next]_vars, TypeOK' PROVE CommitInv'
  OBVIOUS
<1>1. Grows
  BY LogGrows
<1>2. ASSUME UNCHANGED deploying PROVE CommitInv'
  <2>1. ASSUME NEW e \in Deployers, dpc'[e] \in Committed PROVE ReviewKnown(e)' /\ GateKnown(e)'
    BY <1>1, <1>2, <2>1, CommitKept DEF deploying, memory
  <2> QED
    BY <2>1 DEF CommitInv
<1>3. ASSUME NEW d \in Deployers, DeployStep(d) PROVE CommitInv'
  <2>1. ASSUME NEW e \in Deployers, e # d, dpc'[e] \in Committed
        PROVE  ReviewKnown(e)' /\ GateKnown(e)'
    <3>1. dpc[e] \in Committed /\ loaded'[e] = loaded[e] /\ controls'[e] = controls[e]
          /\ counted'[e] = counted[e]
      BY <1>3, <2>1, DeployKeepsCommitted
    <3> QED
      BY <1>1, <3>1, CommitKept
  <2>2. ASSUME dpc'[d] \in Committed PROVE ReviewKnown(d)' /\ GateKnown(d)'
    BY <1>1, <1>3, <2>2, DeployKeepsCommitted, CommitKept, CommittingKnows
  <2> QED
    BY <2>1, <2>2 DEF CommitInv
<1>4. ASSUME NEW a \in Authors, PlanStep(a) PROVE UNCHANGED deploying
  BY <1>4 DEF PlanStep, PlanCheck, PlanSeal, PlanTruncate, PlanSave, PlanStop
<1>5. ASSUME NEW a \in Approvers, ApproveStep(a) PROVE UNCHANGED deploying
  BY <1>5 DEF ApproveStep, ApproveLoad, ApproveRecord, ApproveTruncate, ApproveSave,
              ApproveCrash, ApproveAgain
<1>6. ASSUME Environment PROVE UNCHANGED deploying
  BY <1>6 DEF Environment, EditPolicy, EditBaseline, RefreshPins, RotateKey, EditPlan, Midnight
<1> QED
  BY <1>2, <1>3, <1>4, <1>5, <1>6 DEF Next, vars

LEMMA CommitInit == Init => CommitInv
BY DEF Init, CommitInv, Committed

ProtocolInv == TypeOK /\ BackedInv /\ CommitInv

LEMMA ProtocolAlways == Spec => []ProtocolInv
<1>1. Init => ProtocolInv
  BY TypeInit, BackedInit, CommitInit DEF ProtocolInv
<1>2. ProtocolInv /\ [Next]_vars => ProtocolInv'
  BY TypeStep, BackedStep, CommitStep DEF ProtocolInv
<1> QED
  BY <1>1, <1>2, PTL DEF Spec

\* More people are no fewer.
LEMMA PeopleCount ==
    ASSUME NEW T \in SUBSET Approvers, NEW S \in SUBSET T
    PROVE  Cardinality(S) \in Nat /\ Cardinality(T) \in Nat
           /\ Cardinality(S) <= Cardinality(T)
<1>1. IsFiniteSet(T)
  BY ApproversAssumption, FS_Subset
<1> QED
  BY <1>1, FS_Subset, FS_CardinalityType

\* deploy_plan: as many people other than the author as the baseline in force
\* asks for have approved the plan on record before anything is written, for
\* any baseline, any keys and any number of deploys and approvals at a time;
\* what is written into the plan file by hand counts only if the plan asks for
\* no signatures.
THEOREM DeploysHaveTheirQuorum == Spec => []CommittedHasQuorum
<1>1. ProtocolInv => CommittedHasQuorum
  <2> SUFFICES ASSUME ProtocolInv, NEW d \in Deployers, dpc[d] \in Committed,
                      NEW id, id = loaded[d].plan_id
               PROVE  Cardinality(IF id.sha256.sign THEN Reviewers(id)
                                  ELSE Reviewers(id) \cup Forged(id))
                        >= RequiredBy(controls[d].baseline)
    BY DEF CommittedHasQuorum
  <2> DEFINE counting == IF id.sha256.sign THEN Reviewers(id) ELSE Reviewers(id) \cup Forged(id)
  <2>1. ReviewKnown(d)
    BY DEF ProtocolInv, CommitInv
  <2>2. RequiredBy(controls[d].baseline) \in Nat
    BY ControlTypes DEF ProtocolInv, TypeOK, DeployTypes, InForceThen
  <2>3. counting \in SUBSET Approvers /\ counted[d] \in SUBSET counting
    BY <2>1 DEF ReviewKnown, MayCount, Reviewers, Forged
  <2>4. Cardinality(counted[d]) >= RequiredBy(controls[d].baseline)
    BY <2>1 DEF ReviewKnown
  <2> HIDE DEF counting
  <2>5. Cardinality(counting) >= RequiredBy(controls[d].baseline)
    BY <2>2, <2>3, <2>4, PeopleCount
  <2> QED
    BY <2>5 DEF counting
<1> QED
  BY <1>1, ProtocolAlways, PTL

\* _verify_for_deploy: what is about to be deployed renders from a policy that
\* passes the gate under the controls and on the day of the deployment,
\* whatever the gate's rules are.
THEOREM DeploysPassTheGate == Spec => []CommittedPassedTheGate
<1>1. ProtocolInv => CommittedPassedTheGate
  BY DEF ProtocolInv, CommitInv, GateKnown, CommittedPassedTheGate
<1> QED
  BY <1>1, ProtocolAlways, PTL

-----------------------------------------------------------------------------
(* What the log and the destination have to do with each other.            *)

\* The steps of other commands and of the world around them leave what deploys
\* do alone, and record no deployment.
LEMMA OthersLeaveDeploys ==
    ASSUME [Next]_vars, \A d \in Deployers : ~DeployStep(d)
    PROVE  /\ UNCHANGED <<deploying, world>>
           /\ \/ log' = log
              \/ \E event \in {"plan", "approve"} : \E actor, id : Record(event, actor, id, {})
<1>1. CASE UNCHANGED vars
  BY <1>1 DEF vars
<1>2. ASSUME NEW a \in Authors, PlanStep(a)
      PROVE  /\ UNCHANGED <<deploying, world>>
             /\ \/ log' = log
                \/ \E event \in {"plan", "approve"} : \E actor, id : Record(event, actor, id, {})
  <2>1. UNCHANGED <<deploying, world>>
    BY <1>2 DEF PlanStep, PlanCheck, PlanSeal, PlanTruncate, PlanSave, PlanStop
  <2>2. CASE PlanSeal(a)
    <3>1. \E id : Record("plan", a, id, {})
      BY <2>2 DEF PlanSeal
    <3> QED
      BY <2>1, <3>1
  <2>3. CASE ~PlanSeal(a)
    BY <1>2, <2>1, <2>3 DEF PlanStep, PlanCheck, PlanTruncate, PlanSave, PlanStop
  <2> QED
    BY <2>2, <2>3
<1>3. ASSUME NEW a \in Approvers, ApproveStep(a)
      PROVE  /\ UNCHANGED <<deploying, world>>
             /\ \/ log' = log
                \/ \E event \in {"plan", "approve"} : \E actor, id : Record(event, actor, id, {})
  <2>1. UNCHANGED <<deploying, world>>
    BY <1>3 DEF ApproveStep, ApproveLoad, ApproveRecord, ApproveTruncate, ApproveSave,
                ApproveCrash, ApproveAgain
  <2>2. CASE ApproveRecord(a)
    BY <2>1, <2>2 DEF ApproveRecord
  <2>3. CASE ~ApproveRecord(a)
    BY <1>3, <2>1, <2>3 DEF ApproveStep, ApproveLoad, ApproveTruncate, ApproveSave,
                            ApproveCrash, ApproveAgain
  <2> QED
    BY <2>2, <2>3
<1>4. CASE Environment
  BY <1>4 DEF Environment, EditPolicy, EditBaseline, RefreshPins, RotateKey, EditPlan, Midnight
<1> QED
  BY <1>1, <1>2, <1>3, <1>4 DEF Next

\* Only a deploy that ends as it should records a deployment.
LEMMA DeployRecords ==
    ASSUME NEW d, DeployStep(d)
    PROVE  \/ log' = log
           \/ DeployRecord(d)
           \/ \E event \in {"deploy_refused", "deploy_failed"} :
                 Record(event, d, loaded[d].plan_id, {})
BY DEF DeployStep, DeployWork, DeployLoad, DeployLoadRefused, DeployHash, Refuse, DeployVerify,
       DeployVerifyFails, DeployPublish, DeployRun, DeployRunFails, FailureEvent,
       DeployRunRaises, DeploySnapshot, DeployCopyPolicy, DeployCopyRaises, DeployCrash

\* Every deployment on record is an old one or the one just recorded.
LEMMA NewDeployments ==
    ASSUME TypeOK, TypeOK', [Next]_vars
    PROVE  \/ DeployEvents' = DeployEvents
           \/ /\ DeployEvents' = DeployEvents \cup {Len(log) + 1}
              /\ \E d \in Deployers :
                    /\ DeployRecord(d)
                    /\ log'[Len(log) + 1] = Entry("deploy", d, loaded[d].plan_id, counted[d])
<1>1. Grows
  BY LogGrows
<1>2. Len(log) \in Nat
  BY LenProperties DEF TypeOK, FileTypes
<1>3. ASSUME log' = log PROVE DeployEvents' = DeployEvents
  BY <1>3 DEF DeployEvents
<1>4. ASSUME NEW event \in EventKinds \ {"deploy"}, NEW actor, NEW id, Record(event, actor, id, {})
      PROVE  DeployEvents' = DeployEvents
  <2>1. Len(log') = Len(log) + 1 /\ log'[Len(log) + 1] = Entry(event, actor, id, {})
    BY <1>4, RecordAppends DEF Record
  <2>2. log'[Len(log) + 1].event # "deploy"
    BY <2>1 DEF Entry
  <2> QED
    BY <1>1, <1>2, <2>1, <2>2 DEF DeployEvents, Grows, Lengthens
<1>5. ASSUME NEW d \in Deployers, DeployRecord(d)
      PROVE  /\ DeployEvents' = DeployEvents \cup {Len(log) + 1}
             /\ log'[Len(log) + 1] = Entry("deploy", d, loaded[d].plan_id, counted[d])
  <2>1. Len(log') = Len(log) + 1
        /\ log'[Len(log) + 1] = Entry("deploy", d, loaded[d].plan_id, counted[d])
    BY <1>5, RecordAppends DEF DeployRecord, Record
  <2>2. log'[Len(log) + 1].event = "deploy"
    BY <2>1 DEF Entry
  <2>3. ASSUME NEW i PROVE i \in DeployEvents' <=> i \in DeployEvents \cup {Len(log) + 1}
    BY <1>1, <1>2, <2>1, <2>2 DEF DeployEvents, Grows, Lengthens
  <2> QED
    BY <2>1, <2>3
<1>6. CASE \A d \in Deployers : ~DeployStep(d)
  <2>1. \/ log' = log
        \/ \E event \in {"plan", "approve"} : \E actor, id : Record(event, actor, id, {})
    BY <1>6, OthersLeaveDeploys
  <2> QED
    BY <1>3, <1>4, <2>1 DEF EventKinds
<1>7. ASSUME NEW d \in Deployers, DeployStep(d)
      PROVE  DeployRecord(d) \/ DeployEvents' = DeployEvents
  <2>1. CASE log' = log
    BY <1>3, <2>1
  <2>2. CASE \E event \in {"deploy_refused", "deploy_failed"} :
                Record(event, d, loaded[d].plan_id, {})
    <3>1. PICK event \in {"deploy_refused", "deploy_failed"} :
             Record(event, d, loaded[d].plan_id, {})
      BY <2>2
    <3>2. event \in EventKinds \ {"deploy"}
      BY DEF EventKinds
    <3> QED
      BY <1>4, <3>1, <3>2
  <2> QED
    BY <1>7, <2>1, <2>2, DeployRecords
<1> QED
  BY <1>5, <1>6, <1>7

\* What DeploymentsAreJustified says of one event.
NameIsJustified(i, name) ==
    LET id == log[i].plan_id IN
    /\ name # id.sha256.author
    /\ \/ ~id.sha256.sign /\ name \in Forged(id)
       \/ /\ id.sha256.deployable
          /\ \E j \in 1..(i-1) :
                /\ log[j].event = "approve"
                /\ log[j].plan_id = id
                /\ log[j].actor = name

PlanIsJustified(i) ==
    LET id == log[i].plan_id IN
    \/ id \in resealed
    \/ \E j \in 1..(i-1) : log[j].event = "plan" /\ log[j].plan_id = id

LEMMA Justified ==
    DeploymentsAreJustified <=>
        \A i \in DeployEvents :
            PlanIsJustified(i) /\ \A name \in log[i].approvers : NameIsJustified(i, name)
BY DEF DeploymentsAreJustified, PlanIsJustified, NameIsJustified

LEMMA JustifiedStep ==
    ProtocolInv /\ DeploymentsAreJustified /\ [Next]_vars /\ ProtocolInv'
        => DeploymentsAreJustified'
<1> SUFFICES ASSUME ProtocolInv, DeploymentsAreJustified, [Next]_vars, ProtocolInv',
                    NEW i \in DeployEvents'
             PROVE  /\ PlanIsJustified(i)'
                    /\ \A name \in log'[i].approvers : NameIsJustified(i, name)'
  BY DEF DeploymentsAreJustified, PlanIsJustified, NameIsJustified
<1>1. Grows /\ Len(log) \in Nat /\ TypeOK /\ TypeOK'
  BY LogGrows, LenProperties DEF ProtocolInv, TypeOK, FileTypes
<1>2. \A j \in 1..Len(log) : log'[j] = log[j]
  BY <1>1 DEF Grows, Lengthens
<1>3. CASE i \in DeployEvents
  <2>1. i \in 1..Len(log) /\ \A j \in 1..(i-1) : j \in 1..Len(log)
    BY <1>1, <1>3 DEF DeployEvents
  <2>2. log'[i] = log[i] /\ \A j \in 1..(i-1) : log'[j] = log[j]
    BY <1>2, <2>1
  <2>3. PlanIsJustified(i) /\ \A name \in log[i].approvers : NameIsJustified(i, name)
    BY <1>3, Justified
  <2>4. PlanIsJustified(i)'
    BY <1>1, <2>2, <2>3 DEF PlanIsJustified, Grows
  <2>5. \A id : Forged(id) \subseteq Forged(id)'
    BY <1>1, RecordsStay
  <2>6. ASSUME NEW name \in log[i].approvers PROVE NameIsJustified(i, name)'
    BY <2>2, <2>3, <2>5 DEF NameIsJustified
  <2> QED
    BY <2>2, <2>4, <2>6
<1>4. CASE i \notin DeployEvents
  <2>1. PICK d \in Deployers :
           /\ DeployRecord(d)
           /\ i = Len(log) + 1
           /\ log'[i] = Entry("deploy", d, loaded[d].plan_id, counted[d])
    BY <1>1, <1>4, NewDeployments
  <2>2. log'[i].plan_id = loaded[d].plan_id /\ log'[i].approvers = counted[d]
    BY <2>1 DEF Entry
  <2>3. dpc[d] = "recorded"
    BY <2>1 DEF DeployRecord, DeployGoes
  <2>4. ReviewKnown(d) /\ Given(loaded[d].plan_id)
    BY <2>3 DEF ProtocolInv, BackedInv, LoadedBacked, Backed, CommitInv, Committed, Exits
  <2>5. i - 1 = Len(log)
    BY <1>1, <2>1
  <2>6. PlanIsJustified(i)'
    BY <1>1, <1>2, <2>2, <2>4, <2>5 DEF Given, Planned, PlanIsJustified, Grows
  <2>7. ASSUME NEW name \in log'[i].approvers PROVE NameIsJustified(i, name)'
    <3> PICK id : id = loaded[d].plan_id
      OBVIOUS
    <3>1. name \in MayCount(id)
      BY <2>2, <2>4, <2>7 DEF ReviewKnown
    <3>2. name # id.sha256.author
      BY <3>1 DEF MayCount, Reviewers, Forged
    <3>3. CASE name \in Forged(id) /\ ~id.sha256.sign
      <4>1. name \in Forged(id)'
        BY <1>1, <3>3, RecordsStay
      <4> QED
        BY <2>2, <3>2, <3>3, <4>1 DEF NameIsJustified
    <3>4. CASE name \in Reviewers(id) /\ id.sha256.deployable
      <4>1. \E j \in 1..Len(log) :
               log[j].event = "approve" /\ log[j].plan_id = id /\ log[j].actor = name
        BY <3>4 DEF Reviewers, ApprovedBy
      <4> QED
        BY <1>2, <2>2, <2>5, <3>2, <3>4, <4>1 DEF NameIsJustified
    <3> QED
      BY <3>1, <3>3, <3>4 DEF MayCount
  <2> QED
    BY <2>6, <2>7
<1> QED
  BY <1>3, <1>4

\* deploy_plan, append_event and load_plan together: every deployment in the
\* audit log comes after the event of its plan and after the events of all
\* approvals it counts, none of them the author's; but for a plan sealed by
\* hand, and for names written by hand into a plan without signatures.
THEOREM RecordedDeploymentsAreJustified == Spec => []DeploymentsAreJustified
<1>1. Init => DeploymentsAreJustified
  BY DEF Init, DeploymentsAreJustified, DeployEvents
<1>2. ProtocolInv /\ ProtocolInv' /\ DeploymentsAreJustified /\ [Next]_vars
         => DeploymentsAreJustified'
  BY JustifiedStep
<1> QED
  BY <1>1, <1>2, ProtocolAlways, PTL DEF Spec

\* Some plan that was reviewed as it should be has this configuration.
ReviewedSomewhere(config) ==
    \E id \in PlanIds :
        /\ Given(id)
        /\ id.sha256.config = config
        /\ \E b \in Baselines \cup {NoBaseline} :
              /\ id.sha256.baseline # NoBaseline => b # NoBaseline
              /\ ReviewedAs(id, b)

DestinationInv == destination # NoFile => ReviewedSomewhere(destination)

LEMMA ReviewedAsStays ==
    ASSUME TypeOK, Grows, TypeOK', NEW id, NEW b \in Baselines \cup {NoBaseline}, ReviewedAs(id, b)
    PROVE  ReviewedAs(id, b)'
<1>1. Reviewers(id) \subseteq Reviewers(id)' /\ Forged(id) \subseteq Forged(id)'
  BY RecordsStay
<1>2. Reviewers(id)' \in SUBSET Approvers /\ Forged(id)' \in SUBSET Approvers
  BY DEF Reviewers, Forged
<1>3. RequiredBy(b) \in Nat /\ RequiredBy(b)' = RequiredBy(b)
  BY ControlTypes DEF RequiredBy
<1>4. CASE /\ ~id.sha256.sign /\ Forged(id) # {}
           /\ Cardinality(Reviewers(id) \cup Forged(id)) >= RequiredBy(b)
  <2>1. Cardinality(Reviewers(id)' \cup Forged(id)') >= RequiredBy(b)
    <3> DEFINE S == Reviewers(id) \cup Forged(id)
               T == Reviewers(id)' \cup Forged(id)'
    <3>1. T \in SUBSET Approvers /\ S \in SUBSET T /\ Cardinality(S) >= RequiredBy(b)
      BY <1>1, <1>2, <1>4
    <3> HIDE DEF S, T
    <3>2. Cardinality(T) >= RequiredBy(b)
      BY <1>3, <3>1, PeopleCount
    <3> QED
      BY <3>2 DEF T
  <2> QED
    BY <1>1, <1>3, <1>4, <2>1 DEF ReviewedAs
<1>5. CASE /\ Cardinality(Reviewers(id)) >= RequiredBy(b)
           /\ RequiredBy(b) > 0 => id.sha256.deployable
  <2>1. Cardinality(Reviewers(id)') >= RequiredBy(b)
    BY <1>1, <1>2, <1>3, <1>5, PeopleCount
  <2> QED
    BY <1>3, <1>5, <2>1 DEF ReviewedAs
<1> QED
  BY <1>4, <1>5 DEF ReviewedAs

LEMMA ReviewedStays ==
    ASSUME TypeOK, Grows, TypeOK'
    PROVE  \A config : ReviewedSomewhere(config) => ReviewedSomewhere(config)'
<1> SUFFICES ASSUME NEW config, ReviewedSomewhere(config) PROVE ReviewedSomewhere(config)'
  OBVIOUS
<1>1. PICK id \in PlanIds, b \in Baselines \cup {NoBaseline} :
         /\ Given(id)
         /\ id.sha256.config = config
         /\ id.sha256.baseline # NoBaseline => b # NoBaseline
         /\ ReviewedAs(id, b)
  BY DEF ReviewedSomewhere
<1>2. Given(id)' /\ ReviewedAs(id, b)'
  BY <1>1, BackedStays, ReviewedAsStays
<1> QED
  BY <1>1, <1>2 DEF ReviewedSomewhere

LEMMA CommittedIsReviewed ==
    ASSUME ProtocolInv, NEW d \in Deployers, dpc[d] \in Committed
    PROVE  ReviewedSomewhere(Text(d))
<1>1. /\ Backed(loaded[d]) /\ Loadable(loaded[d]) /\ loaded[d] \in Plan
      /\ ReviewKnown(d) /\ controls[d].baseline \in Baselines \cup {NoBaseline}
  BY DEF ProtocolInv, BackedInv, LoadedBacked, CommitInv, TypeOK, DeployTypes, Committed, Exits,
         InForceThen
<1> DEFINE id == loaded[d].plan_id
           b  == controls[d].baseline
<1>2. id \in PlanIds /\ Given(id) /\ id.sha256.config = Text(d)
  BY <1>1 DEF Backed, Loadable, PlanId, Text, Plan
<1>3. RequiredBy(b) \in Nat
  BY <1>1, ControlTypes
<1>4. counted[d] \subseteq MayCount(id) /\ Cardinality(counted[d]) >= RequiredBy(b)
      /\ (id.sha256.baseline # NoBaseline => b # NoBaseline)
  BY <1>1 DEF ReviewKnown
<1>5. Reviewers(id) \in SUBSET Approvers /\ Forged(id) \in SUBSET Approvers
  BY DEF Reviewers, Forged
<1> HIDE DEF id, b
<1>6. ASSUME counted[d] \subseteq {name \in Reviewers(id) : id.sha256.deployable}
      PROVE  ReviewedAs(id, b)
  <2>1. counted[d] \in SUBSET Reviewers(id)
    BY <1>6
  <2>2. Cardinality(Reviewers(id)) >= RequiredBy(b)
    BY <1>3, <1>4, <1>5, <2>1, PeopleCount
  <2>3. RequiredBy(b) > 0 => counted[d] # {}
    <3>1. counted[d] = {} => Cardinality(counted[d]) = 0
      BY FS_EmptySet
    <3> QED
      BY <1>3, <1>4, <3>1
  <2> QED
    BY <1>6, <2>2, <2>3 DEF ReviewedAs
<1>7. ASSUME ~(counted[d] \subseteq {name \in Reviewers(id) : id.sha256.deployable})
      PROVE  ReviewedAs(id, b)
  <2>1. ~id.sha256.sign /\ Forged(id) # {}
    BY <1>4, <1>7 DEF MayCount
  <2>2. counted[d] \in SUBSET (Reviewers(id) \cup Forged(id))
    BY <1>4 DEF MayCount
  <2>3. Cardinality(Reviewers(id) \cup Forged(id)) >= RequiredBy(b)
    <3> DEFINE T == Reviewers(id) \cup Forged(id)
    <3>1. T \in SUBSET Approvers /\ counted[d] \in SUBSET T
      BY <1>5, <2>2
    <3> HIDE DEF T
    <3>2. Cardinality(T) >= RequiredBy(b)
      BY <1>3, <1>4, <3>1, PeopleCount
    <3> QED
      BY <3>2 DEF T
  <2> QED
    BY <2>1, <2>3 DEF ReviewedAs
<1>8. ReviewedAs(id, b)
  BY <1>6, <1>7
<1>9. b \in Baselines \cup {NoBaseline}
  BY <1>1 DEF b
<1> QED
  BY <1>2, <1>4, <1>8, <1>9 DEF ReviewedSomewhere, id

LEMMA DestinationStep ==
    ProtocolInv /\ DestinationInv /\ [Next]_vars /\ ProtocolInv' => DestinationInv'
<1> SUFFICES ASSUME ProtocolInv, DestinationInv, [Next]_vars, ProtocolInv' PROVE DestinationInv'
  OBVIOUS
<1>1. Grows /\ TypeOK /\ TypeOK'
  BY LogGrows DEF ProtocolInv
<1>2. CASE destination' = destination
  BY <1>1, <1>2, ReviewedStays DEF DestinationInv
<1>3. ASSUME NEW d \in Deployers, DeployStep(d), destination' # destination
      PROVE  dpc[d] \in Committed /\ destination' = Text(d)
  BY <1>3 DEF DeployStep, DeployWork, DeployLoad, DeployLoadRefused, DeployHash, Refuse,
              DeployVerify, DeployVerifyFails, DeployPublish, DeployGoes, DeployRun,
              DeployRunFails, DeployRunRaises, DeploySnapshot, DeployCopyPolicy,
              DeployCopyRaises, DeployRecord, DeployCrash, world, Committed
<1>4. CASE destination' # destination
  <2>1. PICK d \in Deployers : DeployStep(d)
    <3>1. ~UNCHANGED world
      BY <1>4 DEF world
    <3> QED
      BY <3>1, OthersLeaveDeploys
  <2>2. ReviewedSomewhere(destination')
    BY <1>3, <1>4, <2>1, CommittedIsReviewed
  <2> QED
    BY <1>1, <2>2, ReviewedStays DEF DestinationInv
<1> QED
  BY <1>2, <1>4

\* plan, approve and deploy with whatever happens to the files in between: the
\* destination only ever has a configuration that was planned, or sealed by
\* hand, and reviewed as a version of the baseline asks, with approvals written
\* by hand only where the plan asks for no signatures.
THEOREM DestinationsAreReviewed == Spec => []DestinationWasReviewed
<1>1. Init => DestinationInv
  BY DEF Init, DestinationInv
<1>2. ProtocolInv /\ ProtocolInv' /\ DestinationInv /\ [Next]_vars => DestinationInv'
  BY DestinationStep
<1>3. DestinationInv => DestinationWasReviewed
  <2> SUFFICES ASSUME DestinationInv, destination # NoFile
               PROVE  DestinationWasReviewed
    BY DEF DestinationWasReviewed
  <2>1. ReviewedSomewhere(destination)
    BY DEF DestinationInv
  <2> QED
    BY <2>1 DEF ReviewedSomewhere, Given, Planned, DestinationWasReviewed
<1> QED
  BY <1>1, <1>2, <1>3, ProtocolAlways, PTL DEF Spec

-----------------------------------------------------------------------------
(* What was deployed is on record, or somebody is about to record it.      *)

\* A deploy that has written the destination or run the command, and that
\* records this with its next steps unless it stops.
Pending(d) ==
    \/ dpc[d] \in {"applied", "snapshotted", "recorded"}
    \/ dpc[d] = "published" /\ shell[d].to

Covered(config) == OnRecord(config) \/ \E d \in Deployers : Pending(d) /\ Text(d) = config

AuditedInv == NoneStopped => \A c \in {destination, device} \ {NoFile} : Covered(c)

\* Nobody forgets that a deploy stopped half way.
LEMMA StoppedStays ==
    ASSUME NEW d, DeployStep(d)
    PROVE  NoneStopped' => NoneStopped
<1>1. incidents \subseteq incidents'
  BY DEF DeployStep, DeployWork, DeployLoad, DeployLoadRefused, DeployHash, Refuse, DeployVerify,
         DeployVerifyFails, DeployPublish, DeployRun, DeployRunFails, DeployRunRaises,
         DeploySnapshot, DeployCopyPolicy, DeployCopyRaises, DeployRecord, DeployCrash
<1> QED
  BY <1>1 DEF NoneStopped

\* What a loaded plan's event says of the configuration.
LEMMA LoadedText ==
    ASSUME ProtocolInv, NEW d \in Deployers, dpc[d] \notin Exits
    PROVE  loaded[d].plan_id.sha256.config = Text(d)
<1>1. Loadable(loaded[d])
  BY DEF ProtocolInv, BackedInv, LoadedBacked
<1> QED
  BY <1>1 DEF Loadable, PlanId, Text

LEMMA PendingGoesOn ==
    ASSUME ProtocolInv, NEW d \in Deployers, DeployStep(d), Pending(d), NoneStopped'
    PROVE  \/ Pending(d)' /\ loaded'[d] = loaded[d]
           \/ \A config : config = Text(d) => OnRecord(config)'
<1>1. dpc[d] \in {"published", "applied", "snapshotted", "recorded"}
  BY DEF Pending
<1>2. TypeOK /\ dpc[d] \in Committed /\ dpc[d] \notin Exits /\ dpc[d] # "verified"
  BY <1>1 DEF ProtocolInv, Committed, Exits
<1>3. loaded[d].plan_id.sha256.config = Text(d)
  BY <1>2, LoadedText
<1> USE DEF TypeOK, DeployTypes, memory
<1>4. CASE DeployRun(d)
  BY <1>4 DEF DeployRun, DeployGoes, Pending
<1>5. CASE DeployRunFails(d)
  <2>1. Record("deploy_failed", d, loaded[d].plan_id, {})
    BY <1>5 DEF DeployRunFails, FailureEvent
  <2> QED
    BY <1>2, <1>3, <2>1, RecordedNow
<1>6. CASE DeployRunRaises(d)
  <2>1. "error" \in incidents'
    BY <1>6 DEF DeployRunRaises, DeployGoes, Pending
  <2> QED
    BY <2>1 DEF NoneStopped
<1>7. CASE DeploySnapshot(d)
  BY <1>7 DEF DeploySnapshot, DeployGoes, Pending
<1>8. CASE DeployCopyPolicy(d)
  BY <1>8 DEF DeployCopyPolicy, DeployGoes, Pending
<1>9. CASE DeployCopyRaises(d)
  BY <1>9 DEF DeployCopyRaises, NoneStopped
<1>10. CASE DeployRecord(d)
  <2>1. Record("deploy", d, loaded[d].plan_id, counted[d])
    BY <1>10 DEF DeployRecord
  <2> QED
    BY <1>2, <1>3, <2>1, RecordedNow
<1>11. CASE DeployCrash(d)
  BY <1>2, <1>11 DEF DeployCrash, NoneStopped
<1>12. CASE (\E s \in Shells : DeployLoad(d, s)) \/ DeployLoadRefused(d)
  BY <1>2, <1>12 DEF DeployLoad, DeployLoadRefused
<1>13. CASE DeployHash(d) \/ DeployVerify(d) \/ DeployVerifyFails(d) \/ DeployPublish(d)
  BY <1>1, <1>13 DEF DeployHash, DeployVerify, DeployVerifyFails, DeployPublish, DeployGoes
<1> QED
  BY <1>4, <1>5, <1>6, <1>7, <1>8, <1>9, <1>10, <1>11, <1>12, <1>13 DEF DeployStep, DeployWork

LEMMA CoveredStays ==
    ASSUME ProtocolInv, Grows, TypeOK', NEW d \in Deployers, DeployStep(d), NoneStopped'
    PROVE  \A config : Covered(config) => Covered(config)'
<1> SUFFICES ASSUME NEW config, Covered(config) PROVE Covered(config)'
  OBVIOUS
<1>1. CASE OnRecord(config)
  BY <1>1, RecordsStay DEF Covered, ProtocolInv
<1>2. ASSUME NEW e \in Deployers, Pending(e), Text(e) = config, e # d PROVE Covered(config)'
  <2>1. dpc'[e] = dpc[e] /\ loaded'[e] = loaded[e] /\ shell'[e] = shell[e]
    BY <1>2, DeployKeepsCommitted DEF ProtocolInv
  <2>2. (Pending(e) /\ Text(e) = config)'
    BY <1>2, <2>1 DEF Pending, Text
  <2> QED
    BY <2>2 DEF Covered
<1>3. ASSUME Pending(d), Text(d) = config PROVE Covered(config)'
  <2>1. CASE Pending(d)' /\ loaded'[d] = loaded[d]
    BY <1>3, <2>1 DEF Covered, Text
  <2>2. CASE OnRecord(config)'
    BY <2>2 DEF Covered
  <2> QED
    BY <1>3, <2>1, <2>2, PendingGoesOn
<1> QED
  BY <1>1, <1>2, <1>3 DEF Covered

LEMMA AuditedStep == ProtocolInv /\ AuditedInv /\ [Next]_vars /\ ProtocolInv' => AuditedInv'
<1> SUFFICES ASSUME ProtocolInv, AuditedInv, [Next]_vars, ProtocolInv', NoneStopped',
                    NEW c \in {destination', device'} \ {NoFile}
             PROVE  Covered(c)'
  BY DEF AuditedInv
<1>1. Grows /\ TypeOK /\ TypeOK'
  BY LogGrows DEF ProtocolInv
<1>2. CASE \A d \in Deployers : ~DeployStep(d)
  <2>1. UNCHANGED <<deploying, world>>
    BY <1>2, OthersLeaveDeploys
  <2>2. Covered(c)
    BY <2>1 DEF AuditedInv, NoneStopped, deploying, world
  <2> QED
    BY <1>1, <2>1, <2>2, RecordsStay DEF Covered, Pending, Text, deploying, memory
<1>3. ASSUME NEW d \in Deployers, DeployStep(d) PROVE Covered(c)'
  <2>1. NoneStopped
    BY <1>3, StoppedStays
  <2>2. \A x \in {destination, device} \ {NoFile} : Covered(x)'
    BY <1>1, <1>3, <2>1, CoveredStays DEF AuditedInv
  <2>3. CASE DeployRun(d)
    <3>1. CASE shell[d].to
      BY <2>2, <2>3, <3>1 DEF DeployRun, ConfigPath
    <3>2. CASE ~shell[d].to
      <4>1. dpc'[d] = "applied" /\ loaded'[d] = loaded[d]
        BY <1>1, <2>3 DEF DeployRun, DeployGoes, TypeOK, DeployTypes, memory
      <4>2. Pending(d)' /\ Text(d)' = Text(d)
        BY <4>1 DEF Pending, Text
      <4>3. \A x : x = Text(d) => Covered(x)'
        BY <4>2 DEF Covered
      <4> QED
        BY <2>2, <2>3, <3>2, <4>3 DEF DeployRun, ConfigPath
    <3> QED
      BY <3>1, <3>2
  <2>4. CASE DeployRunFails(d)
    <3>1. Record("deploy_failed", d, loaded[d].plan_id, {})
      BY <2>4 DEF DeployRunFails, FailureEvent
    <3>2. dpc[d] \notin Exits
      BY <2>4 DEF DeployRunFails, DeployGoes, Exits
    <3>3. \A x : x = Text(d) => OnRecord(x)'
      BY <1>1, <3>1, <3>2, LoadedText, RecordedNow
    <3>4. c \in {destination, device, Text(d)} \ {NoFile}
      BY <2>4 DEF DeployRunFails, ConfigPath
    <3> QED
      BY <2>2, <3>3, <3>4 DEF Covered
  <2>5. CASE DeployPublish(d)
    <3>1. CASE shell[d].to
      <4>1. \A x : x = Text(d) => Covered(x)'
        <5>1. dpc'[d] \in {"published", "applied"} /\ shell'[d] = shell[d] /\ loaded'[d] = loaded[d]
          BY <1>1, <2>5 DEF DeployPublish, DeployGoes, TypeOK, DeployTypes, memory
        <5>2. Pending(d)' /\ Text(d)' = Text(d)
          BY <3>1, <5>1 DEF Pending, Text
        <5> QED
          BY <5>2 DEF Covered
      <4>2. c \in {Text(d), device} \ {NoFile}
        BY <2>5, <3>1 DEF DeployPublish
      <4> QED
        BY <2>2, <4>1, <4>2
    <3>2. CASE ~shell[d].to
      BY <2>2, <2>5, <3>2 DEF DeployPublish
    <3> QED
      BY <3>1, <3>2
  <2>6. CASE UNCHANGED <<destination, device>>
    BY <2>2, <2>6
  <2> QED
    BY <1>3, <2>3, <2>4, <2>5, <2>6
    DEF DeployStep, DeployWork, DeployLoad, DeployLoadRefused, DeployHash, Refuse, DeployVerify,
        DeployVerifyFails, DeployRunRaises, DeploySnapshot, DeployCopyPolicy, DeployCopyRaises,
        DeployRecord, DeployCrash, world
<1> QED
  BY <1>2, <1>3

\* deploy_plan with any options, commands that fail or do not start and any
\* number of deploys at a time: at rest, unless one stopped half way, what is
\* in the destination and on the device has its event.
THEOREM DeploymentsHaveTheirEvents == Spec => []DeploymentsAreAudited
<1>1. Init => AuditedInv
  BY DEF Init, AuditedInv
<1>2. ProtocolInv /\ ProtocolInv' /\ AuditedInv /\ [Next]_vars => AuditedInv'
  BY AuditedStep
<1>3. AuditedInv => DeploymentsAreAudited
  BY DEF AuditedInv, DeploymentsAreAudited, Quiet, Covered, Pending, Exits
<1> QED
  BY <1>1, <1>2, <1>3, ProtocolAlways, PTL DEF Spec

-----------------------------------------------------------------------------
(* The snapshot.                                                           *)

\* Between the snapshot and the event.
Snapshotting(d) == dpc[d] \in {"snapshotted", "recorded"}

IsLast(i) == i \in DeployEvents /\ \A j \in DeployEvents : j <= i

\* What the snapshot has to be when nobody is about to record a deployment.
SnapshotFits ==
    \/ DeployEvents = {} /\ snapshotConfig = NoFile
    \/ \E i : IsLast(i) /\ snapshotConfig = log[i].plan_id.sha256.config

SnapshotInv ==
    incidents = {} =>
        /\ \A d, e \in Deployers : Snapshotting(d) /\ Snapshotting(e) => d = e
        /\ \A d \in Deployers : Snapshotting(d) => snapshotConfig = Text(d)
        /\ (\A d \in Deployers : ~Snapshotting(d)) => SnapshotFits

LEMMA SnapshotFitsStays ==
    ASSUME TypeOK, Grows, DeployEvents' = DeployEvents, snapshotConfig' = snapshotConfig, SnapshotFits
    PROVE  SnapshotFits'
<1>1. \A i \in DeployEvents : log'[i] = log[i]
  BY DEF Grows, Lengthens, DeployEvents
<1> QED
  BY <1>1 DEF SnapshotFits, IsLast

LEMMA SnapshotStep ==
    ProtocolInv /\ SnapshotInv /\ [Next]_vars /\ ProtocolInv' => SnapshotInv'
<1> SUFFICES ASSUME ProtocolInv, SnapshotInv, [Next]_vars, ProtocolInv', incidents' = {}
             PROVE  /\ \A d, e \in Deployers : Snapshotting(d)' /\ Snapshotting(e)' => d = e
                    /\ \A d \in Deployers : Snapshotting(d)' => snapshotConfig' = Text(d)'
                    /\ (\A d \in Deployers : ~Snapshotting(d)') => SnapshotFits'
  BY DEF SnapshotInv
<1>1. Grows /\ TypeOK /\ TypeOK' /\ Len(log) \in Nat
  BY LogGrows, LenProperties DEF ProtocolInv, TypeOK, FileTypes
<1>2. CASE \A d \in Deployers : ~DeployStep(d)
  <2>1. UNCHANGED <<deploying, world>>
    BY <1>2, OthersLeaveDeploys
  <2>2. DeployEvents' = DeployEvents
    <3>1. ~\E d \in Deployers : DeployRecord(d)
      BY <1>2 DEF DeployStep, DeployWork
    <3> QED
      BY <1>1, <3>1, NewDeployments
  <2>3. UNCHANGED <<dpc, loaded, incidents, snapshotConfig>>
    BY <2>1 DEF deploying, memory, world
  <2> QED
    BY <1>1, <2>2, <2>3, SnapshotFitsStays DEF SnapshotInv, Snapshotting, Text
<1>3. ASSUME NEW d \in Deployers, DeployStep(d)
      PROVE  /\ \A x, e \in Deployers : Snapshotting(x)' /\ Snapshotting(e)' => x = e
             /\ \A x \in Deployers : Snapshotting(x)' => snapshotConfig' = Text(x)'
             /\ (\A x \in Deployers : ~Snapshotting(x)') => SnapshotFits'
  <2>1. incidents = {}
    BY <1>3 DEF DeployStep, DeployWork, DeployLoad, DeployLoadRefused, DeployHash, Refuse,
         DeployVerify, DeployVerifyFails, DeployPublish, DeployRun, DeployRunFails,
         DeployRunRaises, DeploySnapshot, DeployCopyPolicy, DeployCopyRaises, DeployRecord,
         DeployCrash
  <2>2. /\ \A x, e \in Deployers : Snapshotting(x) /\ Snapshotting(e) => x = e
        /\ \A x \in Deployers : Snapshotting(x) => snapshotConfig = Text(x)
        /\ (\A x \in Deployers : ~Snapshotting(x)) => SnapshotFits
    BY <2>1 DEF SnapshotInv
  <2>3. \A e \in Deployers \ {d} :
           /\ Snapshotting(e)' <=> Snapshotting(e)
           /\ Text(e)' = Text(e)
    BY <1>1, <1>3, DeployKeepsCommitted DEF Snapshotting, Text
  <2>4. CASE DeploySnapshot(d)
    <3>1. ~Overlaps(d)
      BY <2>4 DEF DeploySnapshot
    <3>2. \A e \in Deployers \ {d} : ~Snapshotting(e)
      BY <3>1 DEF Overlaps, Snapshotting
    <3>3. dpc'[d] = "snapshotted" /\ loaded'[d] = loaded[d] /\ snapshotConfig' = Text(d)
      BY <1>1, <2>4 DEF DeploySnapshot, DeployGoes, TypeOK, DeployTypes, memory
    <3> QED
      BY <2>3, <3>2, <3>3 DEF Snapshotting, Text
  <2>5. CASE DeployCopyPolicy(d)
    <3>1. /\ dpc[d] = "snapshotted" /\ dpc'[d] = "recorded"
          /\ loaded'[d] = loaded[d] /\ snapshotConfig' = snapshotConfig
      BY <1>1, <2>5 DEF DeployCopyPolicy, DeployGoes, TypeOK, DeployTypes, memory
    <3> QED
      BY <2>2, <2>3, <3>1 DEF Snapshotting, Text
  <2>6. CASE DeployRecord(d)
    <3>1. /\ dpc[d] = "recorded" /\ dpc'[d] = "deployed" /\ snapshotConfig' = snapshotConfig
      BY <1>1, <2>6 DEF DeployRecord, DeployGoes, TypeOK, DeployTypes, world
    <3>2. Snapshotting(d) /\ ~Snapshotting(d)' /\ dpc[d] \notin Exits
      BY <3>1 DEF Snapshotting, Exits
    <3>3. Record("deploy", d, loaded[d].plan_id, counted[d])
      BY <2>6 DEF DeployRecord
    <3>4. /\ Len(log') = Len(log) + 1
          /\ log'[Len(log) + 1] = Entry("deploy", d, loaded[d].plan_id, counted[d])
      BY <1>1, <3>3, RecordAppends DEF Record
    <3>5. /\ log'[Len(log) + 1].event = "deploy"
          /\ log'[Len(log) + 1].plan_id.sha256.config = Text(d)
      BY <3>2, <3>4, LoadedText DEF Entry
    <3>6. DeployEvents' \subseteq 1..(Len(log) + 1) /\ Len(log) + 1 \in DeployEvents'
      BY <1>1, <3>4, <3>5 DEF DeployEvents
    <3>7. \A i : i = Len(log) + 1 => IsLast(i)'
      BY <1>1, <3>6 DEF IsLast
    <3>8. snapshotConfig = Text(d)
      BY <2>2, <3>2
    <3>9. SnapshotFits'
      BY <3>1, <3>5, <3>7, <3>8 DEF SnapshotFits
    <3> QED
      BY <2>2, <2>3, <3>2, <3>9
  <2>7. CASE UNCHANGED snapshotConfig /\ DeployEvents' = DeployEvents
              /\ ~Snapshotting(d) /\ ~Snapshotting(d)'
    <3>1. ASSUME \A x \in Deployers : ~Snapshotting(x)' PROVE SnapshotFits'
      <4>1. \A x \in Deployers : ~Snapshotting(x)
        BY <2>3, <2>7, <3>1
      <4> QED
        BY <1>1, <2>2, <2>7, <4>1, SnapshotFitsStays
    <3>2. ASSUME NEW x \in Deployers, Snapshotting(x)'
          PROVE  Snapshotting(x) /\ snapshotConfig' = Text(x)'
      <4>1. x \in Deployers \ {d}
        BY <2>7, <3>2
      <4>2. Snapshotting(x) /\ Text(x)' = Text(x)
        BY <2>3, <3>2, <4>1
      <4> QED
        BY <2>2, <2>7, <4>2
    <3> QED
      BY <2>2, <3>1, <3>2
  <2>8. CASE ~DeploySnapshot(d) /\ ~DeployCopyPolicy(d) /\ ~DeployRecord(d)
    <3>1. DeployEvents' = DeployEvents
      <4>1. ~\E e \in Deployers : e # d /\ DeployRecord(e)
        <5>1. ASSUME NEW e \in Deployers, e # d, DeployRecord(e) PROVE FALSE
          BY <1>1, <1>3, <5>1, DeployKeepsCommitted
          DEF DeployRecord, DeployGoes, TypeOK, DeployTypes
        <5> QED
          BY <5>1
      <4> QED
        BY <1>1, <2>8, <4>1, NewDeployments
    <3>2. CASE DeployCrash(d)
      <4>1. dpc[d] \notin Committed \ {"verified"}
        BY <3>2 DEF DeployCrash
      <4>2. dpc'[d] = "crashed" /\ snapshotConfig' = snapshotConfig
        BY <1>1, <3>2, <4>1 DEF DeployCrash, TypeOK, DeployTypes, Committed
      <4> QED
        BY <2>7, <3>1, <4>1, <4>2 DEF Snapshotting, Committed
    <3>3. ~DeployCopyRaises(d)
      BY DEF DeployCopyRaises
    <3>4. CASE \/ DeployPublish(d) \/ DeployRun(d) \/ DeployRunFails(d) \/ DeployRunRaises(d)
               \/ DeployVerifyFails(d)
      BY <1>1, <2>7, <3>1, <3>4
      DEF DeployPublish, DeployRun, DeployRunFails, DeployRunRaises, DeployVerifyFails, DeployGoes,
          Snapshotting, TypeOK, DeployTypes, world
    <3>5. CASE DeployHash(d) \/ DeployVerify(d)
      BY <1>1, <2>7, <3>1, <3>5
      DEF DeployHash, DeployVerify, Refuse, Snapshotting, TypeOK, DeployTypes, world
    <3>6. CASE (\E s \in Shells : DeployLoad(d, s)) \/ DeployLoadRefused(d)
      BY <1>1, <2>7, <3>1, <3>6
      DEF DeployLoad, DeployLoadRefused, Snapshotting, Exits, TypeOK, DeployTypes, world
    <3> QED
      BY <1>3, <2>8, <3>2, <3>3, <3>4, <3>5, <3>6 DEF DeployStep, DeployWork
  <2> QED
    BY <2>4, <2>5, <2>6, <2>8
<1> QED
  BY <1>2, <1>3

\* deploy_plan: whatever fails, as long as no deploy stops between its snapshot
\* and its event and no two are there at a time, the snapshot that the next
\* plan is compared with is the configuration of the last deployment on record.
THEOREM SnapshotsAreLastDeploys == Spec => []SnapshotIsLastDeploy
<1>1. Init => SnapshotInv
  BY DEF Init, SnapshotInv, Snapshotting, SnapshotFits, DeployEvents
<1>2. ProtocolInv /\ ProtocolInv' /\ SnapshotInv /\ [Next]_vars => SnapshotInv'
  BY SnapshotStep
<1>3. ProtocolInv /\ SnapshotInv => SnapshotIsLastDeploy
  <2> SUFFICES ASSUME ProtocolInv, SnapshotInv, Quiet, incidents = {}
               PROVE  IF DeployEvents = {} THEN snapshotConfig = NoFile
                      ELSE snapshotConfig = log[LastDeploy].plan_id.sha256.config
    BY DEF SnapshotIsLastDeploy
  <2>1. SnapshotFits
    BY DEF SnapshotInv, Snapshotting, Quiet, Exits
  <2>2. ASSUME NEW i, IsLast(i) PROVE i = LastDeploy
    <3>1. IsLast(LastDeploy)
      BY <2>2 DEF IsLast, LastDeploy
    <3>2. \A j \in DeployEvents : j \in Int
      BY DEF DeployEvents
    <3> QED
      BY <2>2, <3>1, <3>2 DEF IsLast
  <2> QED
    BY <2>1, <2>2 DEF SnapshotFits, IsLast
<1> QED
  BY <1>1, <1>2, <1>3, ProtocolAlways, PTL DEF Spec

=============================================================================
