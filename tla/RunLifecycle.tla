---------------------------- MODULE RunLifecycle ----------------------------
(***************************************************************************)
(* A training or batch run from "recorded in the database" to "finished".  *)
(*                                                                         *)
(* Three kinds of actor meet here and share nothing but the database and   *)
(* the workflow system:                                                    *)
(*   - the API (RunService), which records a run and a wish to cancel it;  *)
(*   - the reconciler (RunReconciler, WorkflowRetentionReconciler), which  *)
(*     loads a row, talks to the workflow system with no transaction open, *)
(*     and writes the row back with a compare-and-swap on its status only; *)
(*   - the workflow system (Argo), which moves on by itself.               *)
(*                                                                         *)
(* The write is UPDATE ... WHERE id = .. AND status = expected, and it     *)
(* stores every mutable column from the row read earlier. That is why the  *)
(* reconciler keeps the row it loaded in its local state.                  *)
(***************************************************************************)
EXTENDS FiniteSets

CONSTANTS
  Runs,         \* the identifiers runs may be created under
  Publishing,   \* runs of a batch or monitoring job: success publishes a result
  Vanishing,    \* runs whose workload may be deleted behind the platform's back
  Reconcilers,  \* reconciler processes; one, unless two leaders overlap
  Cancellers,   \* API requests that cancel a run
  Retention     \* is workflow retention configured (keep_seconds > 0)?

ASSUME RunAssumption ==
  /\ Publishing \subseteq Runs
  /\ Vanishing \subseteq Runs
  /\ Retention \in BOOLEAN

VARIABLES
  row,        \* the runs table
  workflow,   \* the Workflow resources, one name per run
  published,  \* runs whose dataset or drift report has been stored
  rec,        \* what each reconciler process holds in memory
  canc,       \* what each cancel request holds in memory
  asked,      \* history: runs whose cancellation the API has accepted
  created,    \* history: runs a workload has been created for
  repeated,   \* history: runs a workload has been created for twice
  succeeded   \* history: runs whose workload has reached Succeeded

vars == <<row, workflow, published, rec, canc, asked, created, repeated, succeeded>>

dbVars  == <<row, published>>
history == <<asked, created, repeated, succeeded>>

-----------------------------------------------------------------------------
(* The state machine of a run, domain/states.py. *)

RunStatus == {"PENDING", "SUBMITTED", "RUNNING", "SUCCEEDED", "FAILED", "CANCELLED"}

RunEdges ==
  { <<"PENDING", "SUBMITTED">>, <<"PENDING", "FAILED">>, <<"PENDING", "CANCELLED">>,
    <<"SUBMITTED", "RUNNING">>, <<"SUBMITTED", "FAILED">>, <<"SUBMITTED", "CANCELLED">>,
    <<"RUNNING", "SUCCEEDED">>, <<"RUNNING", "FAILED">>, <<"RUNNING", "CANCELLED">> }

IsTerminal(status) == status \in {"SUCCEEDED", "FAILED", "CANCELLED"}

(* A row: external_ref is a fixed function of the run, so it is present or not. *)
Row == [status : RunStatus, ref : BOOLEAN, cancel : BOOLEAN, cleaned : BOOLEAN]

Absent == [status |-> "ABSENT", ref |-> FALSE, cancel |-> FALSE, cleaned |-> FALSE]

(* A row as RunService inserts it. *)
Fresh == [status |-> "PENDING", ref |-> FALSE, cancel |-> FALSE, cleaned |-> FALSE]

Exists(r) == row[r] # Absent

(* A Workflow resource. Stuck is phase Running with a pod that can never start. *)
Phase     == {"Pending", "Running", "Stuck", "Succeeded", "Failed"}
Workflow  == [phase : Phase, shutdown : BOOLEAN]
Submitted == [phase |-> "Pending", shutdown |-> FALSE]
Terminated(w) == [phase |-> w.phase, shutdown |-> TRUE]
Gone      == [phase |-> "Gone", shutdown |-> FALSE]
Ended     == {"Succeeded", "Failed", "Gone"}

Idle == [pc |-> "idle"]

(* The reconciler's memory: the step it is at, the row it loaded, and the   *)
(* status it means to record.                                              *)
Pass == [pc : {"submit", "cancel", "observe", "write", "delete", "mark"},
         id : Runs, row : Row, goal : RunStatus]

(* The same pass one step further on. *)
At(q, pc, stored, goal) == [pc |-> pc, id |-> q.id, row |-> stored, goal |-> goal]

Request == [pc : {"decided"}, id : Runs, row : Row]

TypeOK ==
  /\ row \in [Runs -> Row \cup {Absent}]
  /\ workflow \in [Runs -> Workflow \cup {Gone}]
  /\ published \subseteq Runs
  /\ rec \in [Reconcilers -> Pass \cup {Idle}]
  /\ canc \in [Cancellers -> Request \cup {Idle}]
  /\ asked \subseteq Runs /\ created \subseteq Runs
  /\ repeated \subseteq Runs /\ succeeded \subseteq Runs

Init ==
  /\ row = [r \in Runs |-> Absent]
  /\ workflow = [r \in Runs |-> Gone]
  /\ published = {}
  /\ rec = [p \in Reconcilers |-> Idle]
  /\ canc = [c \in Cancellers |-> Idle]
  /\ asked = {} /\ created = {} /\ repeated = {} /\ succeeded = {}

-----------------------------------------------------------------------------
(* The API. *)

(* RunService.create: one insert. *)
Create(r) ==
  /\ ~ Exists(r)
  /\ row' = [row EXCEPT ![r] = Fresh]
  /\ UNCHANGED <<workflow, published, rec, canc, history>>

(* request_cancel reads the row; a finished or already flagged run is returned as is. *)
CancelRead(c, r) ==
  /\ canc[c] = Idle
  /\ Exists(r)
  /\ ~ IsTerminal(row[r].status)
  /\ ~ row[r].cancel
  /\ canc' = [canc EXCEPT ![c] = [pc |-> "decided", id |-> r, row |-> row[r]]]
  /\ UNCHANGED <<dbVars, workflow, rec, history>>

(* The compare-and-swap of SqlRuns.update: only the status is compared. *)
Unmoved_NoExpectedStatus(q) == TRUE
Unmoved(q) == row[q.id].status = q.row.status

(* What request_cancel stores: PENDING ends at once, a later status is only flagged. *)
CancelledRow(old) ==
  IF old.status = "PENDING" THEN [old EXCEPT !.status = "CANCELLED"]
                            ELSE [old EXCEPT !.cancel = TRUE]

(* ... and writes it, if the status is still the one it read. *)
CancelWrite(c) ==
  /\ canc[c] # Idle
  /\ LET q == canc[c] IN
       /\ Unmoved(q)
       /\ row' = [row EXCEPT ![q.id] = CancelledRow(q.row)]
       /\ asked' = asked \cup {q.id}
  /\ canc' = [canc EXCEPT ![c] = Idle]
  /\ UNCHANGED <<workflow, published, rec, created, repeated, succeeded>>

(* The request ends without a write: Conflict, or the API process is gone. *)
CancelGiveUp(c) ==
  /\ canc[c] # Idle
  /\ canc' = [canc EXCEPT ![c] = Idle]
  /\ UNCHANGED <<dbVars, workflow, rec, history>>

-----------------------------------------------------------------------------
(* The reconciler. *)

(* RunReconciler.reconcile loads a run that list_active returned. *)
Load(p, r) ==
  /\ rec[p] = Idle
  /\ Exists(r)
  /\ ~ IsTerminal(row[r].status)
  /\ rec' = [rec EXCEPT ![p] =
       [pc   |-> IF row[r].status = "PENDING" THEN "submit" ELSE "cancel",
        id   |-> r, row |-> row[r], goal |-> row[r].status]]
  /\ UNCHANGED <<dbVars, workflow, canc, history>>

(* What creating the named resource does: a second create meets 409 and the  *)
(* workflow that is there is adopted.                                      *)
CreateWorkflow_FreshName(r) ==
  /\ workflow' = [workflow EXCEPT ![r] = Submitted]
  /\ created' = created \cup {r}
  /\ repeated' = IF r \in created THEN repeated \cup {r} ELSE repeated
CreateWorkflow(r) ==
  IF workflow[r] = Gone
    THEN /\ workflow' = [workflow EXCEPT ![r] = Submitted]
         /\ created' = created \cup {r}
         /\ repeated' = IF r \in created THEN repeated \cup {r} ELSE repeated
    ELSE UNCHANGED <<workflow, created, repeated>>

(* _submit. The provider may answer, refuse (or the job or the project is   *)
(* gone), or do the work and lose the answer: the last two are one          *)
(* exception to the reconciler. A row already flagged is not submitted.     *)
Submit(p) ==
  /\ rec[p].pc = "submit"
  /\ LET q == rec[p] IN
       \E answer \in {"SUBMITTED", "FAILED"} :
         /\ \/ ~ q.row.cancel /\ CreateWorkflow(q.id)
            \/ (answer = "FAILED" \/ q.row.cancel)
               /\ UNCHANGED <<workflow, created, repeated>>
         /\ rec' = [rec EXCEPT ![p] =
                      At(q, "write", q.row, IF q.row.cancel THEN "CANCELLED" ELSE answer)]
  /\ UNCHANGED <<dbVars, canc, asked, succeeded>>

(* _sync first passes a cancel request on. The Argo adapter patches the       *)
(* resource; with no resource to patch the call raises and the pass is over.  *)
PassCancel(p) ==
  /\ rec[p].pc = "cancel"
  /\ LET q == rec[p] IN
       IF q.row.cancel /\ workflow[q.id] = Gone
         THEN /\ rec' = [rec EXCEPT ![p] = Idle]
              /\ UNCHANGED workflow
         ELSE /\ rec' = [rec EXCEPT ![p] = At(q, "observe", q.row, q.goal)]
              /\ workflow' = IF q.row.cancel
                               THEN [workflow EXCEPT ![q.id] = Terminated(@)]
                               ELSE workflow
  /\ UNCHANGED <<dbVars, canc, history>>

(* get_status and _PLATFORM_STATE: the status a workflow stands for. A       *)
(* workflow that has not begun stands for none: nothing is recorded.         *)
PlatformState_GoneMeansDone(r) ==
  LET w == workflow[r] IN
  IF w = Gone \/ w.phase \in Ended THEN {"SUCCEEDED"}
  ELSE IF w.phase = "Pending" THEN {} ELSE {"RUNNING"}
PlatformState(r) ==
  LET w == workflow[r] IN
  { s \in RunStatus :
      \/ s = "RUNNING"   /\ w.phase = "Running"
      \/ s = "SUCCEEDED" /\ w.phase = "Succeeded"
      \/ s = "CANCELLED" /\ w.phase = "Failed" /\ w.shutdown
      \/ s = "FAILED"    /\ \/ w.phase = "Failed" /\ ~ w.shutdown
                            \/ w.phase \in {"Stuck", "Gone"} }

(* _sync then asks for the status; an unstartable pod is shut down on the way. *)
Observe(p) ==
  /\ rec[p].pc = "observe"
  /\ LET q == rec[p]
         news == PlatformState(q.id) \ {q.row.status}
     IN /\ workflow' = IF workflow[q.id].phase = "Stuck"
                         THEN [workflow EXCEPT ![q.id] = Terminated(@)]
                         ELSE workflow
        /\ \/ /\ news = {}
              /\ rec' = [rec EXCEPT ![p] = Idle]
           \/ \E status \in news :
                rec' = [rec EXCEPT ![p] = At(q, "write", q.row, status)]
  /\ UNCHANGED <<dbVars, canc, history>>

(* The status _move records on the way to the goal: a fast job passes through RUNNING. *)
Target_NoPassThrough(q) == q.goal
Target(q) ==
  IF q.row.status = "SUBMITTED" /\ q.goal = "SUCCEEDED" THEN "RUNNING" ELSE q.goal

(* transition_to: the new row, built from the row that was loaded. *)
Moved_RefDropped(q, status) == [q.row EXCEPT !.status = status]
Moved(q, status) ==
  [status |-> status, ref |-> q.row.ref \/ status = "SUBMITTED",
   cancel |-> q.row.cancel, cleaned |-> q.row.cleaned]

(* What the reconciler does after a committed _move. *)
AfterWrite(q, status) ==
  IF status = "SUBMITTED" THEN At(q, "cancel", Moved(q, status), q.goal)
  ELSE IF status = "RUNNING" /\ q.goal = "SUCCEEDED"
    THEN At(q, "write", Moved(q, status), q.goal)
  ELSE Idle

(* publish_output / publish_report, in the transaction of the status change. *)
Publication_OnTheWay(q, status) ==
  IF q.goal = "SUCCEEDED" THEN {q.id} \cap Publishing ELSE {}
Publication(q, status) ==
  IF status = "SUCCEEDED" THEN {q.id} \cap Publishing ELSE {}

(* _move: publication, the compare-and-swap and the audit event commit       *)
(* together. A result the platform cannot accept turns success into FAILED.  *)
Write(p) ==
  /\ rec[p].pc = "write"
  /\ LET q == rec[p] IN
       \E status \in {Target(q)} \cup
           (IF Target(q) = "SUCCEEDED" /\ q.id \in Publishing THEN {"FAILED"} ELSE {}) :
         /\ <<q.row.status, Target(q)>> \in RunEdges
         /\ <<q.row.status, status>> \in RunEdges
         /\ Unmoved(q)
         /\ row' = [row EXCEPT ![q.id] = Moved(q, status)]
         /\ published' = published \cup Publication(q, status)
         /\ rec' = [rec EXCEPT ![p] = AfterWrite(q, status)]
  /\ UNCHANGED <<workflow, canc, history>>

(* The pass ends without its next write: Conflict, a provider or database    *)
(* error, or a crash of the process. All that is lost is what it remembered. *)
Abandon(p) ==
  /\ rec[p] # Idle
  /\ rec' = [rec EXCEPT ![p] = Idle]
  /\ UNCHANGED <<dbVars, workflow, canc, history>>

-----------------------------------------------------------------------------
(* Retention: WorkflowRetentionReconciler._clean. *)

CleanLoad_AnyStatus(p, r) ==
  /\ Retention
  /\ rec[p] = Idle
  /\ Exists(r)
  /\ row[r].ref /\ ~ row[r].cleaned
  /\ rec' = [rec EXCEPT ![p] =
       [pc |-> "delete", id |-> r, row |-> row[r], goal |-> row[r].status]]
  /\ UNCHANGED <<dbVars, workflow, canc, history>>
CleanLoad_OnlySucceeded(p, r) ==
  /\ Retention
  /\ rec[p] = Idle
  /\ row[r].status = "SUCCEEDED"
  /\ row[r].ref /\ ~ row[r].cleaned
  /\ rec' = [rec EXCEPT ![p] =
       [pc |-> "delete", id |-> r, row |-> row[r], goal |-> row[r].status]]
  /\ UNCHANGED <<dbVars, workflow, canc, history>>
CleanLoad(p, r) ==
  /\ Retention
  /\ rec[p] = Idle
  /\ Exists(r)
  /\ IsTerminal(row[r].status)
  /\ row[r].ref /\ ~ row[r].cleaned
  /\ rec' = [rec EXCEPT ![p] =
       [pc |-> "delete", id |-> r, row |-> row[r], goal |-> row[r].status]]
  /\ UNCHANGED <<dbVars, workflow, canc, history>>

(* Deleting a workflow that is not there succeeds. *)
CleanDelete_ErrorsIgnored(p) ==
  /\ rec[p].pc = "delete"
  /\ workflow' \in {workflow, [workflow EXCEPT ![rec[p].id] = Gone]}
  /\ rec' = [rec EXCEPT ![p] = At(rec[p], "mark", rec[p].row, rec[p].goal)]
  /\ UNCHANGED <<dbVars, canc, history>>
CleanDelete(p) ==
  /\ rec[p].pc = "delete"
  /\ workflow' = [workflow EXCEPT ![rec[p].id] = Gone]
  /\ rec' = [rec EXCEPT ![p] = At(rec[p], "mark", rec[p].row, rec[p].goal)]
  /\ UNCHANGED <<dbVars, canc, history>>

(* The row is read again before it is marked. *)
CleanMark(p) ==
  /\ rec[p].pc = "mark"
  /\ LET q == rec[p] IN
       /\ Unmoved(q)
       /\ row' = [row EXCEPT ![q.id].cleaned = TRUE]
  /\ rec' = [rec EXCEPT ![p] = Idle]
  /\ UNCHANGED <<published, workflow, canc, history>>

-----------------------------------------------------------------------------
(* The workflow system, by what the adapter relies on. *)

Advance(r, phase) ==
  /\ workflow' = [workflow EXCEPT ![r].phase = phase]
  /\ succeeded' = IF phase = "Succeeded" THEN succeeded \cup {r} ELSE succeeded
  /\ UNCHANGED <<dbVars, rec, canc, asked, created, repeated>>

(* Pods are scheduled, or turn out to be unstartable. *)
WorkflowStart(r) ==
  /\ workflow[r].phase = "Pending"
  /\ ~ workflow[r].shutdown
  /\ \E phase \in {"Running", "Stuck"} : Advance(r, phase)

(* The job ends by itself; activeDeadlineSeconds ends it as Failed at the latest. *)
WorkflowEnd(r) ==
  \/ workflow[r].phase = "Running" /\ \E phase \in {"Succeeded", "Failed"} : Advance(r, phase)
  \/ workflow[r].phase \in {"Pending", "Stuck"} /\ Advance(r, "Failed")

(* A workflow with spec.shutdown set is brought to Failed. *)
WorkflowShutdown(r) ==
  /\ workflow[r].shutdown
  /\ workflow[r].phase \notin Ended
  /\ Advance(r, "Failed")

(* Somebody deletes the resource, or its namespace. *)
WorkflowVanish(r) ==
  /\ r \in Vanishing
  /\ workflow[r] # Gone
  /\ workflow' = [workflow EXCEPT ![r] = Gone]
  /\ UNCHANGED <<dbVars, rec, canc, history>>

-----------------------------------------------------------------------------
CancelStep(c) == (\E r \in Runs : CancelRead(c, r)) \/ CancelWrite(c) \/ CancelGiveUp(c)

ReconcilerStep(p) ==
  \/ \E r \in Runs : Load(p, r) \/ CleanLoad(p, r)
  \/ Submit(p) \/ PassCancel(p) \/ Observe(p) \/ Write(p)
  \/ CleanDelete(p) \/ CleanMark(p)
  \/ Abandon(p)

WorkflowStep(r) ==
  WorkflowStart(r) \/ WorkflowEnd(r) \/ WorkflowShutdown(r) \/ WorkflowVanish(r)

Next ==
  \/ \E r \in Runs : Create(r) \/ WorkflowStep(r)
  \/ \E c \in Cancellers : CancelStep(c)
  \/ \E p \in Reconcilers : ReconcilerStep(p)

Spec == Init /\ [][Next]_vars

(* The loop of reconciler_main visits every active run again and again, and  *)
(* a step it retries for ever is not refused for ever: strong fairness,      *)
(* because a crash or an error may end any single pass.                      *)
ReconcilerFairness ==
  \A p \in Reconcilers :
    /\ \A r \in Runs : SF_vars(Load(p, r)) /\ SF_vars(CleanLoad(p, r))
    /\ SF_vars(Submit(p)) /\ SF_vars(PassCancel(p)) /\ SF_vars(Observe(p)) /\ SF_vars(Write(p))
    /\ SF_vars(CleanDelete(p)) /\ SF_vars(CleanMark(p))

(* Argo acts on a shutdown request ... *)
ShutdownFairness == \A r \in Runs : WF_vars(WorkflowShutdown(r))

(* ... and ends every workflow by its deadline. *)
DeadlineFairness == \A r \in Runs : WF_vars(WorkflowEnd(r))

FairSpec == Spec /\ ReconcilerFairness /\ ShutdownFairness /\ DeadlineFairness

(* The same without the deadline: only a cancellation is sure to end a job.  *)
NoDeadlineSpec == Spec /\ ReconcilerFairness /\ ShutdownFairness

-----------------------------------------------------------------------------
(* Safety. *)

(* Every run the reconciler will mirror has the handle of its workload: the  *)
(* assertion at the head of RunReconciler._sync can never fail, whatever     *)
(* stale row a cancel request or another reconciler wrote last.              *)
HandleRecorded ==
  \A r \in Runs : row[r].status \in {"SUBMITTED", "RUNNING", "SUCCEEDED"} => row[r].ref

(* A result is stored if and only if its run is recorded as SUCCEEDED, which *)
(* is what _move's single transaction is for.                               *)
PublishedWithSuccess ==
  published = {r \in Publishing : row[r].status = "SUCCEEDED"}

(* A run is SUCCEEDED only if its workload really reached Succeeded.         *)
SuccessIsReal ==
  \A r \in Runs : row[r].status = "SUCCEEDED" => r \in succeeded

(* "still one workflow": no run ever has its workload created a second time, *)
(* through crashes between submit and write, adoption, and retention.        *)
OneWorkload == repeated = {}

(* A run marked workflow_cleaned_at has no workflow left in the cluster, so  *)
(* a crash between the delete and the mark loses nothing.                    *)
CleanedLeavesNothing ==
  \A r \in Runs : row[r].cleaned => workflow[r] = Gone

(* Retention removes a workflow only after its run has a final status, and    *)
(* marks the run only when nothing is left, whatever passes crash.           *)
Retains ==
  /\ CleanedLeavesNothing'
  /\ \A r \in Runs \ Vanishing :
       workflow[r] # Gone /\ workflow'[r] = Gone => IsTerminal(row[r].status)
RetentionIsSafe == [][Retains]_vars

(* What a run promises its owner, see RunPromise.                            *)
Promise == INSTANCE RunPromise WITH status <- [r \in Runs |-> row[r].status]
KeepsPromise == Promise!Spec

-----------------------------------------------------------------------------
(* Liveness. *)

(* Every run that was accepted reaches a final status.                       *)
EveryRunEnds == \A r \in Runs : Exists(r) ~> IsTerminal(row[r].status)

(* With retention on, every finished workflow the platform knows is removed. *)
EveryWorkflowCleaned ==
  \A r \in Runs : (Exists(r) /\ IsTerminal(row[r].status) /\ row[r].ref) ~> row[r].cleaned

-----------------------------------------------------------------------------
(* What the code's own words say, and its interleavings refute.              *)

(* request_cancel: "a submitted run is flagged and the reconciler cancels    *)
(* the workload". An accepted cancellation ends the run.                     *)
CancelEndsRun == \A r \in Runs : r \in asked ~> IsTerminal(row[r].status)

(* request_cancel: "A PENDING run has no workload yet and is cancelled at    *)
(* once". A run that was cancelled before submission has no workload.        *)
CancelledAtOnceHasNoWorkload ==
  \A r \in Runs : row[r].status = "CANCELLED" /\ ~ row[r].ref => workflow[r] = Gone

(* _sync: "workload disappeared from the cluster" ends the run as FAILED.    *)
DisappearedRunEnds ==
  \A r \in Runs : (row[r].status = "RUNNING" /\ workflow[r] = Gone)
                     ~> IsTerminal(row[r].status)

=============================================================================
