------------------------ MODULE KycOrchestratorProofs ------------------------
(***************************************************************************)
(* Proofs of the properties of KycOrchestrator for every set of users,     *)
(* every finite set of workflows, every table of tiers and every limit.    *)
(*                                                                         *)
(* The conjunction KInv is inductive.  Only ActiveLimit needs the          *)
(* cardinality of a set of workflows: a step changes at most one workflow, *)
(* except the sweep, which only takes workflows away, and only the step    *)
(* that has just counted adds one.                                         *)
(***************************************************************************)
EXTENDS KycOrchestrator, FiniteSetTheorems, TLAPS

Local == ApprovalExamined /\ CompletedAtAgrees /\ StepsStamped

KInv == TypeOK /\ Local /\ ActiveLimit

(* Every row of the table leads from active statuses to a status.          *)
LEMMA RowsOfTable ==
    ASSUME NEW tr \in TRANSITIONS
    PROVE  /\ tr.from \subseteq Active
           /\ tr.to \in WorkflowStatus
           /\ tr.to = "verifying" <=> tr.event = "verify"
           /\ tr.to = "approved" => tr.from = {"verifying"}
  BY DEF TRANSITIONS, Active, WorkflowStatus, Decided

(* What marks that there is no step is none of the declared statuses.      *)
LEMMA NoneIsNoStatus == None \notin {"pending", "in_progress", "completed", "failed"}
  BY KycAssumption DEF StepStatus

(* createWorkflow() preserves the type invariant: the new workflow has     *)
(* exactly the steps its tier requires.                                    *)
LEMMA TypeCreate ==
    ASSUME TypeOK, NEW w \in Ids, NEW u \in Users, NEW t \in Tiers, CreateWorkflow(w, u, t)
    PROVE  TypeOK'
<1>1. RequiredSteps(t) \in [Verifications -> Step]
  BY KycAssumption DEF RequiredSteps, NoStep, Step, StepStatus, Stamp
<1>2. {v \in Verifications : RequiredSteps(t)[v] # NoStep} = requiredVerifications[t]
  BY NoneIsNoStatus, KycAssumption DEF RequiredSteps, NoStep
<1>3. /\ userId' \in [Ids -> Users \cup {None}]
      /\ tier' \in [Ids -> Tiers \cup {None}]
      /\ status' \in [Ids -> WorkflowStatus \cup {"none"}]
      /\ expiresAt' \in [Ids -> {"none", "ahead", "passed"}]
      /\ completedAt' \in [Ids -> Stamp]
      /\ examined' \subseteq Ids
  BY DEF TypeOK, CreateWorkflow, WorkflowStatus, Active
<1>4. steps' \in [Ids -> [Verifications -> Step]]
  BY <1>1 DEF TypeOK, CreateWorkflow
<1>5. ASSUME NEW x \in Ids
      PROVE  /\ Exists(x)' <=> tier'[x] # None
             /\ Exists(x)' => StepsOf(x)' = requiredVerifications[tier'[x]]
  <2>1. CASE x = w
    <3>1. status'[w] = "created" /\ tier'[w] = t /\ steps'[w] = RequiredSteps(t)
      BY DEF TypeOK, CreateWorkflow
    <3>2. StepsOf(w)' = requiredVerifications[t]
      BY <3>1, <1>2 DEF StepsOf
    <3> QED BY <2>1, <3>1, <3>2, KycAssumption DEF Exists
  <2>2. CASE x # w
    <3>1. status'[x] = status[x] /\ tier'[x] = tier[x] /\ steps'[x] = steps[x]
      BY <2>2 DEF TypeOK, CreateWorkflow
    <3>2. StepsOf(x)' = StepsOf(x) /\ Exists(x)' = Exists(x)
      BY <3>1 DEF StepsOf, Exists
    <3> QED BY <3>1, <3>2 DEF TypeOK
  <2> QED BY <2>1, <2>2
<1> QED BY <1>3, <1>4, <1>5 DEF TypeOK

(* A step that leaves tiers, steps and the existence of workflows alone    *)
(* keeps the part of TypeOK that relates them.                             *)
LEMMA SameWorkflows ==
    ASSUME TypeOK, UNCHANGED <<tier, steps>>, \A x \in Ids : Exists(x)' <=> Exists(x)
    PROVE  \A x \in Ids : /\ Exists(x)' <=> tier'[x] # None
                          /\ Exists(x)' => StepsOf(x)' = requiredVerifications[tier'[x]]
<1>1. \A x \in Ids : StepsOf(x)' = StepsOf(x)
  BY DEF StepsOf
<1> QED BY <1>1 DEF TypeOK

(* transitionWorkflow() preserves the type invariant.                      *)
LEMMA TypeTransition ==
    ASSUME TypeOK, NEW w \in Ids, NEW tr \in TRANSITIONS, TransitionWorkflow(w, tr)
    PROVE  TypeOK'
<1>1. tr.to \in WorkflowStatus
  BY RowsOfTable
<1>2. "none" \notin WorkflowStatus
  BY DEF WorkflowStatus, Active, Decided
<1>3. \A x \in Ids : Exists(x)' <=> Exists(x)
  BY <1>1, <1>2 DEF TypeOK, TransitionWorkflow, Exists
<1>4. \A x \in Ids : /\ Exists(x)' <=> tier'[x] # None
                     /\ Exists(x)' => StepsOf(x)' = requiredVerifications[tier'[x]]
  BY <1>3, SameWorkflows DEF TransitionWorkflow
<1>5. /\ userId' \in [Ids -> Users \cup {None}]
      /\ tier' \in [Ids -> Tiers \cup {None}]
      /\ status' \in [Ids -> WorkflowStatus \cup {"none"}]
      /\ expiresAt' \in [Ids -> {"none", "ahead", "passed"}]
      /\ completedAt' \in [Ids -> Stamp]
      /\ steps' \in [Ids -> [Verifications -> Step]]
      /\ examined' \subseteq Ids
  BY <1>1 DEF TypeOK, TransitionWorkflow, Stamp
<1> QED BY <1>4, <1>5 DEF TypeOK

(* updateStep() preserves the type invariant: it neither adds nor removes  *)
(* a step.                                                                 *)
LEMMA TypeUpdateStep ==
    ASSUME TypeOK, NEW w \in Ids, NEW v \in Verifications, NEW to \in StepUpdates,
           UpdateStep(w, v, to)
    PROVE  TypeOK'
<1>1. steps[w][v] \in Step
  BY DEF TypeOK
<1>2. Stamped(steps[w][v], to) \in Step /\ Stamped(steps[w][v], to) # NoStep
  BY <1>1, KycAssumption DEF Stamped, Step, Stamp, NoStep
<1>3. steps' = [steps EXCEPT ![w][v] = Stamped(steps[w][v], to)]
  BY DEF UpdateStep
<1>4. steps' \in [Ids -> [Verifications -> Step]]
  BY <1>2, <1>3 DEF TypeOK
<1>5. \A x \in Ids : StepsOf(x)' = StepsOf(x)
  BY <1>2, <1>3 DEF TypeOK, StepsOf, UpdateStep
<1>6. UNCHANGED <<userId, tier, status, expiresAt, completedAt, examined>>
  BY DEF UpdateStep
<1> QED BY <1>4, <1>5, <1>6 DEF TypeOK, Exists

(* The sweep preserves the type invariant.                                 *)
LEMMA TypeCheckExpired ==
    ASSUME TypeOK, CheckExpired
    PROVE  TypeOK'
<1>1. "none" \notin Active
  BY DEF Active
<1>2. \A x \in Ids : Exists(x)' <=> Exists(x)
  BY <1>1 DEF TypeOK, CheckExpired, Overdue, Exists
<1>3. \A x \in Ids : /\ Exists(x)' <=> tier'[x] # None
                     /\ Exists(x)' => StepsOf(x)' = requiredVerifications[tier'[x]]
  BY <1>2, SameWorkflows DEF CheckExpired
<1>4. status' \in [Ids -> WorkflowStatus \cup {"none"}]
  BY DEF TypeOK, CheckExpired, WorkflowStatus
<1> QED BY <1>3, <1>4 DEF TypeOK, CheckExpired

(* A process that has just started satisfies the invariant.                *)
LEMMA FreshProcess ==
    ASSUME Init
    PROVE  KInv
<1>1. TypeOK
  BY KycAssumption DEF Init, TypeOK, Exists, StepsOf, Step, Stamp, NoStep
<1>2. Local
  BY NoneIsNoStatus DEF Init, Local, ApprovalExamined, CompletedAtAgrees, StepsStamped, Decided, NoStep
<1>3. ASSUME NEW u \in Users PROVE ActiveWorkflows(u) = {}
  BY DEF Init, ActiveWorkflows, Active
<1>4. ActiveLimit
  BY <1>3, FS_EmptySet, KycAssumption DEF ActiveLimit
<1> QED BY <1>1, <1>2, <1>4 DEF KInv

(* The same of the state after a restart.                                  *)
LEMMA FreshAgain ==
    ASSUME Init'
    PROVE  KInv'
<1>1. TypeOK'
  BY KycAssumption DEF Init, TypeOK, Exists, StepsOf, Step, Stamp, NoStep
<1>2. Local'
  BY NoneIsNoStatus DEF Init, Local, ApprovalExamined, CompletedAtAgrees, StepsStamped, Decided, NoStep
<1>3. ASSUME NEW u \in Users PROVE ActiveWorkflows(u)' = {}
  BY DEF Init, ActiveWorkflows, Active
<1>4. ActiveLimit'
  BY <1>3, FS_EmptySet, KycAssumption DEF ActiveLimit
<1> QED BY <1>1, <1>2, <1>4 DEF KInv

(* A transition keeps the statuses, the stamps and the examination of what *)
(* was submitted in agreement.                                             *)
LEMMA LocalTransition ==
    ASSUME TypeOK, Local, NEW w \in Ids, NEW tr \in TRANSITIONS, TransitionWorkflow(w, tr)
    PROVE  Local'
<1>1. /\ tr.from \subseteq Active
      /\ tr.to \in WorkflowStatus
      /\ tr.to = "verifying" <=> tr.event = "verify"
      /\ tr.to = "approved" => tr.from = {"verifying"}
  BY RowsOfTable
<1>2. /\ status' = [status EXCEPT ![w] = tr.to]
      /\ status[w] \in tr.from
      /\ steps' = steps
  BY DEF TransitionWorkflow
<1>3. ApprovalExamined'
  <2>1. \A x \in Ids \ {w} : status'[x] = status[x] /\ (x \in examined => x \in examined')
    BY <1>2 DEF TypeOK, TransitionWorkflow
  <2>2. status'[w] = tr.to
    BY <1>2 DEF TypeOK
  <2>3. tr.to = "verifying" => w \in examined'
    BY <1>1 DEF TransitionWorkflow
  <2>4. tr.to = "approved" => w \in examined'
    <3>1. SUFFICES ASSUME tr.to = "approved" PROVE w \in examined'
      OBVIOUS
    <3>2. w \in examined
      BY <3>1, <1>1, <1>2 DEF Local, ApprovalExamined
    <3> QED BY <3>1, <3>2 DEF TransitionWorkflow
  <2> QED BY <2>1, <2>2, <2>3, <2>4 DEF Local, ApprovalExamined
<1>4. CompletedAtAgrees'
  <2>1. completedAt[w] = "none"
    BY <1>1, <1>2 DEF Local, CompletedAtAgrees, TypeOK, Stamp, Active, Decided
  <2>2. \A x \in Ids \ {w} : status'[x] = status[x] /\ completedAt'[x] = completedAt[x]
    BY <1>2 DEF TypeOK, TransitionWorkflow
  <2>3. status'[w] = tr.to
    BY <1>2 DEF TypeOK
  <2>4. completedAt'[w] = "set" <=> tr.to \in Decided
    BY <2>1 DEF TypeOK, TransitionWorkflow, Completes
  <2> QED BY <2>2, <2>3, <2>4 DEF Local, CompletedAtAgrees
<1>5. StepsStamped'
  BY <1>2 DEF Local, StepsStamped
<1> QED BY <1>3, <1>4, <1>5 DEF Local

(* A new workflow is neither examined nor completed, and its steps are     *)
(* pending.                                                                *)
LEMMA LocalCreate ==
    ASSUME TypeOK, Local, NEW w \in Ids, NEW u \in Users, NEW t \in Tiers, CreateWorkflow(w, u, t)
    PROVE  Local'
<1>1. /\ status' = [status EXCEPT ![w] = "created"]
      /\ UNCHANGED <<completedAt, examined>>
      /\ status[w] = "none"
  BY DEF CreateWorkflow, Exists
<1>2. ApprovalExamined'
  BY <1>1 DEF Local, ApprovalExamined, TypeOK
<1>3. CompletedAtAgrees'
  BY <1>1 DEF Local, CompletedAtAgrees, TypeOK, Decided
<1>4. StepsStamped'
  <2>1. steps' = [steps EXCEPT ![w] = RequiredSteps(t)]
    BY DEF CreateWorkflow
  <2>2. \A v \in Verifications : RequiredSteps(t)[v].status \in {None, "pending"}
    BY DEF RequiredSteps, NoStep
  <2> QED BY <2>1, <2>2, NoneIsNoStatus DEF Local, StepsStamped, TypeOK
<1> QED BY <1>2, <1>3, <1>4 DEF Local

(* An update stamps the step it moves; no other step and no workflow       *)
(* changes.                                                                *)
LEMMA LocalUpdateStep ==
    ASSUME TypeOK, Local, NEW w \in Ids, NEW v \in Verifications, NEW to \in StepUpdates,
           UpdateStep(w, v, to)
    PROVE  Local'
<1>1. /\ steps' = [steps EXCEPT ![w][v] = Stamped(steps[w][v], to)]
      /\ UNCHANGED <<status, completedAt, examined>>
  BY DEF UpdateStep
<1>2. StepsStamped'
  <2>1. SUFFICES ASSUME NEW x \in Ids, NEW y \in Verifications
        PROVE  /\ steps'[x][y].status = "in_progress" => steps'[x][y].startedAt = "set"
               /\ steps'[x][y].status \in {"completed", "failed"} => steps'[x][y].completedAt = "set"
    BY DEF StepsStamped
  <2>2. CASE x = w /\ y = v
    <3>1. steps'[x][y] = Stamped(steps[w][v], to)
      BY <1>1, <2>2 DEF TypeOK
    <3> QED BY <3>1 DEF Stamped
  <2>3. CASE ~(x = w /\ y = v)
    <3>1. steps'[x][y] = steps[x][y]
      BY <1>1, <2>3 DEF TypeOK
    <3> QED BY <3>1 DEF Local, StepsStamped
  <2> QED BY <2>2, <2>3
<1>3. ApprovalExamined' /\ CompletedAtAgrees'
  BY <1>1 DEF Local, ApprovalExamined, CompletedAtAgrees
<1> QED BY <1>2, <1>3 DEF Local

(* The sweep ends active workflows only, and expired is not a decision.    *)
LEMMA LocalCheckExpired ==
    ASSUME TypeOK, Local, CheckExpired
    PROVE  Local'
<1>1. /\ status' = [x \in Ids |-> IF x \in Overdue THEN "expired" ELSE status[x]]
      /\ UNCHANGED <<completedAt, examined, steps>>
  BY DEF CheckExpired
<1>2. ApprovalExamined'
  BY <1>1 DEF Local, ApprovalExamined
<1>3. CompletedAtAgrees'
  BY <1>1 DEF Local, CompletedAtAgrees, Overdue, Active, Decided
<1>4. StepsStamped'
  BY <1>1 DEF Local, StepsStamped
<1> QED BY <1>2, <1>3, <1>4 DEF Local

(* The count of a user does not grow with a set of fewer workflows.        *)
LEMMA CountShrinks ==
    ASSUME NEW S \in SUBSET Ids, NEW T \in SUBSET S
    PROVE  Cardinality(T) <= Cardinality(S)
  BY KycAssumption, FS_Subset

(* A step in which no workflow becomes active, or changes hands, keeps the *)
(* limit.                                                                  *)
LEMMA LimitKept ==
    ASSUME ActiveLimit, userId' = userId,
           \A x \in Ids : status'[x] \in Active => status[x] \in Active
    PROVE  ActiveLimit'
<1>1. SUFFICES ASSUME NEW u \in Users
      PROVE  Cardinality(ActiveWorkflows(u)') <= maxActiveWorkflowsPerUser
  BY DEF ActiveLimit
<1>2. ActiveWorkflows(u) \in SUBSET Ids /\ ActiveWorkflows(u)' \in SUBSET ActiveWorkflows(u)
  BY DEF ActiveWorkflows
<1>3. Cardinality(ActiveWorkflows(u)') <= Cardinality(ActiveWorkflows(u))
  BY <1>2, CountShrinks
<1>4. IsFiniteSet(ActiveWorkflows(u)) /\ IsFiniteSet(ActiveWorkflows(u)')
  BY <1>2, KycAssumption, FS_Subset
<1>5. Cardinality(ActiveWorkflows(u)) \in Nat /\ Cardinality(ActiveWorkflows(u)') \in Nat
  BY <1>4, FS_CardinalityType
<1>6. Cardinality(ActiveWorkflows(u)) <= maxActiveWorkflowsPerUser
  BY DEF ActiveLimit
<1> QED BY <1>3, <1>5, <1>6, KycAssumption

(* createWorkflow() adds one workflow to the count of one user, which it   *)
(* has just found below the limit.                                         *)
LEMMA LimitCreate ==
    ASSUME TypeOK, ActiveLimit, NEW w \in Ids, NEW u \in Users, NEW t \in Tiers,
           CreateWorkflow(w, u, t)
    PROVE  ActiveLimit'
<1>1. SUFFICES ASSUME NEW x \in Users
      PROVE  Cardinality(ActiveWorkflows(x)') <= maxActiveWorkflowsPerUser
  BY DEF ActiveLimit
<1>2. status[w] = "none" /\ "none" \notin Active /\ "created" \in Active
  BY DEF CreateWorkflow, Exists, Active
<1>3. \A y \in Ids : /\ userId'[y] = IF y = w THEN u ELSE userId[y]
                     /\ status'[y] = IF y = w THEN "created" ELSE status[y]
  BY DEF TypeOK, CreateWorkflow
<1>4. CASE x # u
  <2>1. ActiveWorkflows(x)' = ActiveWorkflows(x)
    BY <1>2, <1>3, <1>4 DEF ActiveWorkflows
  <2> QED BY <2>1 DEF ActiveLimit
<1>5. CASE x = u
  <2>1. ActiveWorkflows(u)' = ActiveWorkflows(u) \cup {w} /\ w \notin ActiveWorkflows(u)
    BY <1>2, <1>3 DEF ActiveWorkflows
  <2>2. IsFiniteSet(ActiveWorkflows(u))
    BY KycAssumption, FS_Subset DEF ActiveWorkflows
  <2>3. Cardinality(ActiveWorkflows(u)') = Cardinality(ActiveWorkflows(u)) + 1
    BY <2>1, <2>2, FS_AddElement
  <2>4. Cardinality(ActiveWorkflows(u)) \in Nat
    BY <2>2, FS_CardinalityType
  <2>5. Cardinality(ActiveWorkflows(u)) < maxActiveWorkflowsPerUser
    BY DEF CreateWorkflow
  <2> QED BY <1>5, <2>3, <2>4, <2>5, KycAssumption
<1> QED BY <1>4, <1>5

(* Every step preserves the invariant.                                     *)
LEMMA KInvStep ==
    ASSUME KInv, [Next]_vars
    PROVE  KInv'
<1> USE DEF KInv
<1>1. ASSUME NEW w \in Ids, NEW u \in Users, NEW t \in Tiers, CreateWorkflow(w, u, t)
      PROVE  KInv'
  BY <1>1, TypeCreate, LocalCreate, LimitCreate
<1>2. ASSUME NEW w \in Ids, NEW tr \in TRANSITIONS, TransitionWorkflow(w, tr)
      PROVE  KInv'
  <2>1. status[w] \in Active
    BY <1>2, RowsOfTable DEF TransitionWorkflow
  <2>2. \A x \in Ids : status'[x] \in Active => status[x] \in Active
    BY <1>2, <2>1 DEF TransitionWorkflow, TypeOK
  <2>3. ActiveLimit'
    BY <1>2, <2>2, LimitKept DEF TransitionWorkflow
  <2> QED BY <1>2, <2>3, TypeTransition, LocalTransition
<1>3. ASSUME NEW w \in Ids, NEW v \in Verifications, NEW to \in StepUpdates, UpdateStep(w, v, to)
      PROVE  KInv'
  <2>1. ActiveLimit'
    BY <1>3, LimitKept DEF UpdateStep
  <2> QED BY <1>3, <2>1, TypeUpdateStep, LocalUpdateStep
<1>4. ASSUME NEW w \in Ids, ExpiryPasses(w)
      PROVE  KInv'
  <2>1. UNCHANGED <<userId, tier, status, completedAt, steps, examined>>
    BY <1>4 DEF ExpiryPasses
  <2>2. TypeOK'
    BY <1>4, <2>1 DEF ExpiryPasses, TypeOK, Exists, StepsOf
  <2>3. Local'
    BY <2>1 DEF Local, ApprovalExamined, CompletedAtAgrees, StepsStamped
  <2>4. ActiveLimit'
    BY <2>1, LimitKept
  <2> QED BY <2>2, <2>3, <2>4
<1>5. ASSUME CheckExpired PROVE KInv'
  <2>1. \A x \in Ids : status'[x] \in Active => status[x] \in Active
    BY <1>5 DEF CheckExpired, Active
  <2>2. ActiveLimit'
    BY <1>5, <2>1, LimitKept DEF CheckExpired
  <2> QED BY <1>5, <2>2, TypeCheckExpired, LocalCheckExpired
<1>6. ASSUME Restart PROVE KInv'
  <2>1. Init'
    BY <1>6 DEF Restart, Init, NoStep
  <2> QED BY <2>1, FreshAgain
<1>7. ASSUME UNCHANGED vars PROVE KInv'
  <2>1. UNCHANGED <<userId, tier, status, expiresAt, completedAt, steps, examined>>
    BY <1>7 DEF vars
  <2>2. TypeOK' /\ Local'
    BY <2>1 DEF TypeOK, Exists, StepsOf, Local, ApprovalExamined, CompletedAtAgrees, StepsStamped
  <2>3. ActiveLimit'
    BY <2>1, LimitKept
  <2> QED BY <2>2, <2>3
<1> QED BY <1>1, <1>2, <1>3, <1>4, <1>5, <1>6, <1>7 DEF Next

(* The types, the agreement of tiers and steps, and every invariant that   *)
(* the run checks hold in every reachable state.                           *)
THEOREM KycInvariant == Spec => []KInv
<1>1. Init => KInv
  BY FreshProcess
<1>2. KInv /\ [Next]_vars => KInv'
  BY KInvStep
<1> QED BY <1>1, <1>2, PTL DEF Spec

(* A user never has more active workflows than the limit.                  *)
THEOREM KycActiveLimit == Spec => []ActiveLimit
  BY KycInvariant, PTL DEF KInv

(* Nothing is approved that was not verified since it was last submitted.  *)
THEOREM KycApprovalExamined == Spec => []ApprovalExamined
  BY KycInvariant, PTL DEF KInv, Local

(* completedAt is set exactly on the workflows a decision ended.           *)
THEOREM KycCompletedAtAgrees == Spec => []CompletedAtAgrees
  BY KycInvariant, PTL DEF KInv, Local

(* Through any requests, whatever status they send for a step, and any     *)
(* restarts: a workflow's own status is one of the eight declared, and it  *)
(* has exactly the steps its tier requires (orchestrator.ts:68-133).  Of a *)
(* step's status no more is said than that it was sent or is its first:    *)
(* nothing holds it to the four that KycStep declares (handler.ts:69).     *)
THEOREM KycTypes == Spec => []TypeOK
  BY KycInvariant, PTL DEF KInv

(* A step that began or ended carries the time of it.                      *)
THEOREM KycStepsStamped == Spec => []StepsStamped
  BY KycInvariant, PTL DEF KInv, Local

(* A workflow that has ended never moves again in the life of the process. *)
THEOREM KycEndIsFinal == Spec => EndIsFinal
<1> DEFINE Final == \A w \in Ids : status[w] \in WorkflowStatus \ Active =>
                       status'[w] = status[w] \/ status'[w] = "none"
<1>1. TypeOK /\ [Next]_vars => Final
  <2>1. SUFFICES ASSUME TypeOK, [Next]_vars, NEW x \in Ids, status[x] \in WorkflowStatus \ Active
        PROVE  status'[x] = status[x] \/ status'[x] = "none"
    OBVIOUS
  <2>2. "none" \notin WorkflowStatus
    BY DEF WorkflowStatus, Active, Decided
  <2>3. ASSUME NEW w \in Ids, NEW u \in Users, NEW t \in Tiers, CreateWorkflow(w, u, t)
        PROVE  status'[x] = status[x]
    BY <2>1, <2>2, <2>3 DEF CreateWorkflow, Exists, TypeOK
  <2>4. ASSUME NEW w \in Ids, NEW tr \in TRANSITIONS, TransitionWorkflow(w, tr)
        PROVE  status'[x] = status[x]
    BY <2>1, <2>4, RowsOfTable DEF TransitionWorkflow, TypeOK
  <2>5. ASSUME NEW w \in Ids, NEW v \in Verifications, NEW to \in StepUpdates, UpdateStep(w, v, to)
        PROVE  status'[x] = status[x]
    BY <2>5 DEF UpdateStep
  <2>6. ASSUME NEW w \in Ids, ExpiryPasses(w)
        PROVE  status'[x] = status[x]
    BY <2>6 DEF ExpiryPasses
  <2>7. CheckExpired => status'[x] = status[x]
    BY <2>1 DEF CheckExpired, Overdue, TypeOK
  <2>8. Restart => status'[x] = "none"
    BY DEF Restart
  <2>9. UNCHANGED vars => status'[x] = status[x]
    BY DEF vars
  <2> QED BY <2>1, <2>3, <2>4, <2>5, <2>6, <2>7, <2>8, <2>9 DEF Next
<1>2. TypeOK /\ [Next]_vars => [Final]_vars
  BY <1>1
<1>3. Spec => []TypeOK
  BY KycInvariant, PTL DEF KInv
<1>4. Spec => [][Final]_vars
  BY <1>2, <1>3, PTL DEF Spec
<1> QED BY <1>4 DEF EndIsFinal
=============================================================================
