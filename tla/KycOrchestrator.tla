--------------------------- MODULE KycOrchestrator ---------------------------
(***************************************************************************)
(* The workflows of services/kyc-orchestrator/src/orchestrator.ts, as the  *)
(* requests of handler.ts drive them.  A handler runs without awaiting, so *)
(* one request is one action.  Workflows live in the memory of the         *)
(* process.                                                                *)
(*                                                                         *)
(* A time stamp is abstracted to whether it is set, expiresAt to whether   *)
(* it has passed; updatedAt, metadata, results and errors are left out.  A *)
(* step is known by its workflow and the name of its verification.         *)
(***************************************************************************)
EXTENDS Integers, FiniteSets

CONSTANTS
    Users, Ids,
    Tiers, Verifications,
    requiredVerifications,      \* of each tier
    maxActiveWorkflowsPerUser,
    StepUpdates,    \* what a body may have for the status of a step: any value of
                    \* JSON, or undefined
    None

\* The statuses that KycStep declares
StepStatus == {"pending", "in_progress", "completed", "failed"}

ASSUME KycAssumption ==
    /\ IsFiniteSet(Ids)
    /\ requiredVerifications \in [Tiers -> SUBSET Verifications]
    /\ maxActiveWorkflowsPerUser \in Nat
    /\ StepStatus \subseteq StepUpdates
    /\ None \notin Users \cup Tiers \cup StepUpdates

Active == {"created", "pending_submission", "submitted", "verifying"}
Decided == {"approved", "rejected", "cancelled"}
WorkflowStatus == Active \cup Decided \cup {"expired"}

VARIABLES
    userId, tier,   \* of a workflow, None while there is no workflow
    status,
    expiresAt,      \* "none", "ahead" or "passed"
    completedAt,    \* "none" or "set"
    steps,          \* status and time stamps of each step
    examined        \* history: workflows under verification, or decided after
                    \* it, with what was submitted last

vars == <<userId, tier, status, expiresAt, completedAt, steps, examined>>

NoStep == [status |-> None, startedAt |-> "none", completedAt |-> "none"]

Init ==
    /\ userId = [w \in Ids |-> None]
    /\ tier = [w \in Ids |-> None]
    /\ status = [w \in Ids |-> "none"]
    /\ expiresAt = [w \in Ids |-> "none"]
    /\ completedAt = [w \in Ids |-> "none"]
    /\ steps = [w \in Ids |-> [v \in Verifications |-> NoStep]]
    /\ examined = {}

Exists(w) == status[w] # "none"

StepsOf(w) == {v \in Verifications : steps[w][v] # NoStep}
-----------------------------------------------------------------------------
\* Mutant: a workflow sent back for information is not counted.
ActiveWorkflowsSent(u) == {w \in Ids : userId[w] = u /\ status[w] \in Active \ {"pending_submission"}}

ActiveWorkflows(u) == {w \in Ids : userId[w] = u /\ status[w] \in Active}

RequiredSteps(t) ==
    [v \in Verifications |->
        IF v \in requiredVerifications[t] THEN [NoStep EXCEPT !.status = "pending"] ELSE NoStep]

CreateWorkflow(w, u, t) ==
    /\ ~Exists(w)       \* randomUUID
    /\ Cardinality(ActiveWorkflows(u)) < maxActiveWorkflowsPerUser
    /\ userId' = [userId EXCEPT ![w] = u]
    /\ tier' = [tier EXCEPT ![w] = t]
    /\ status' = [status EXCEPT ![w] = "created"]
    /\ expiresAt' = [expiresAt EXCEPT ![w] = "ahead"]
    /\ steps' = [steps EXCEPT ![w] = RequiredSteps(t)]
    /\ UNCHANGED <<completedAt, examined>>

\* Mutant: a workflow that is only submitted can be approved.
TransitionsShortcut == {
    [event |-> "submit", from |-> {"created", "pending_submission"}, to |-> "submitted"],
    [event |-> "verify", from |-> {"submitted"}, to |-> "verifying"],
    [event |-> "approve", from |-> {"verifying", "submitted"}, to |-> "approved"]}

TRANSITIONS == {
    [event |-> "submit", from |-> {"created", "pending_submission"}, to |-> "submitted"],
    [event |-> "verify", from |-> {"submitted"}, to |-> "verifying"],
    [event |-> "approve", from |-> {"verifying"}, to |-> "approved"],
    [event |-> "reject", from |-> {"verifying", "submitted"}, to |-> "rejected"],
    [event |-> "expire", from |-> Active, to |-> "expired"],
    [event |-> "cancel", from |-> Active, to |-> "cancelled"],
    [event |-> "request_info", from |-> {"submitted", "verifying"}, to |-> "pending_submission"],
    [event |-> "provide_info", from |-> {"pending_submission"}, to |-> "submitted"]}

Completes(to) == to \in Decided

TransitionWorkflow(w, tr) ==
    /\ Exists(w)
    /\ status[w] \in tr.from
    /\ status' = [status EXCEPT ![w] = tr.to]
    /\ completedAt' = IF Completes(tr.to) THEN [completedAt EXCEPT ![w] = "set"] ELSE completedAt
    /\ examined' = IF tr.event = "verify" THEN examined \cup {w}
                   ELSE IF tr.to \in {"submitted", "pending_submission"} THEN examined \ {w}
                   ELSE examined
    /\ UNCHANGED <<userId, tier, expiresAt, steps>>

(* updateStep() as PATCH calls it: nothing examines the status of a body,  *)
(* and Object.assign copies it, undefined included, over the step's.       *)

Stamped(s, to) ==
    [status      |-> to,
     startedAt   |-> IF to = "in_progress" THEN "set" ELSE s.startedAt,
     completedAt |-> IF to \in {"completed", "failed"} THEN "set" ELSE s.completedAt]

UpdateStep(w, v, to) ==
    /\ v \in StepsOf(w)
    /\ steps' = [steps EXCEPT ![w][v] = Stamped(@, to)]
    /\ UNCHANGED <<userId, tier, status, expiresAt, completedAt, examined>>

Overdue == {w \in Ids : status[w] \in Active /\ expiresAt[w] = "passed"}

CheckExpired ==
    /\ Overdue # {}
    /\ status' = [w \in Ids |-> IF w \in Overdue THEN "expired" ELSE status[w]]
    /\ UNCHANGED <<userId, tier, expiresAt, completedAt, steps, examined>>

ExpiryPasses(w) ==
    /\ expiresAt[w] = "ahead"
    /\ expiresAt' = [expiresAt EXCEPT ![w] = "passed"]
    /\ UNCHANGED <<userId, tier, status, completedAt, steps, examined>>

Restart ==
    /\ userId' = [w \in Ids |-> None]
    /\ tier' = [w \in Ids |-> None]
    /\ status' = [w \in Ids |-> "none"]
    /\ expiresAt' = [w \in Ids |-> "none"]
    /\ completedAt' = [w \in Ids |-> "none"]
    /\ steps' = [w \in Ids |-> [v \in Verifications |-> NoStep]]
    /\ examined' = {}

Next ==
    \/ \E w \in Ids :
          \/ \E u \in Users, t \in Tiers : CreateWorkflow(w, u, t)
          \/ \E tr \in TRANSITIONS : TransitionWorkflow(w, tr)
          \/ \E v \in Verifications, to \in StepUpdates : UpdateStep(w, v, to)
          \/ ExpiryPasses(w)
    \/ CheckExpired
    \/ Restart

Spec == Init /\ [][Next]_vars
-----------------------------------------------------------------------------
Stamp == {"none", "set"}
Step == [status : StepUpdates \cup {None}, startedAt : Stamp, completedAt : Stamp]

TypeOK ==
    /\ userId \in [Ids -> Users \cup {None}]
    /\ tier \in [Ids -> Tiers \cup {None}]
    /\ status \in [Ids -> WorkflowStatus \cup {"none"}]
    /\ expiresAt \in [Ids -> {"none", "ahead", "passed"}]
    /\ completedAt \in [Ids -> Stamp]
    /\ steps \in [Ids -> [Verifications -> Step]]
    /\ examined \subseteq Ids
    /\ \A w \in Ids :
          /\ Exists(w) <=> tier[w] # None
          /\ Exists(w) => StepsOf(w) = requiredVerifications[tier[w]]

(* orchestrator.ts:68-76: however workflows are sent back, resubmitted,    *)
(* expired and created, a user never has more than the allowed number      *)
(* active.                                                                 *)
ActiveLimit == \A u \in Users : Cardinality(ActiveWorkflows(u)) <= maxActiveWorkflowsPerUser

(* orchestrator.ts:53-62: approval and the verification that precedes it   *)
(* are about what was submitted last: information requested and provided   *)
(* in between has to be verified again.                                    *)
ApprovalExamined == \A w \in Ids : status[w] \in {"verifying", "approved"} => w \in examined

(* orchestrator.ts:128-130 and 185-201: the list of statuses that stamp    *)
(* completedAt, the table and the sweep agree: it is set exactly on the    *)
(* workflows a decision ended, never on those that expired.                *)
CompletedAtAgrees == \A w \in Ids : completedAt[w] = "set" <=> status[w] \in Decided

(* orchestrator.ts:172-177: whatever order the updates of a step come in,  *)
(* one that is in progress has a start and one that ended has an end.      *)
StepsStamped ==
    \A w \in Ids, v \in Verifications :
        /\ steps[w][v].status = "in_progress" => steps[w][v].startedAt = "set"
        /\ steps[w][v].status \in {"completed", "failed"} => steps[w][v].completedAt = "set"

(* No request and no sweep moves a workflow that has ended: it keeps its   *)
(* status until the process restarts.                                      *)
EndIsFinal ==
    [][\A w \in Ids : status[w] \in WorkflowStatus \ Active =>
          status'[w] = status[w] \/ status'[w] = "none"]_vars

=============================================================================
