---------------------------- MODULE PipelineRun ----------------------------
(***************************************************************************)
(* One pipeline run: a row for the run, a row for each step of its DAG, and *)
(* one Argo workflow that executes the DAG.                                *)
(*                                                                         *)
(* The reconciler reads the state of the workflow once and then brings the *)
(* rows after it, every row in a transaction of its own: the steps, then   *)
(* the run, then whatever step is still open. It may be interrupted after  *)
(* any of them, by a crash, by an error or by another writer (Conflict),   *)
(* and a second reconciler may be at work at the same time. Pipeline runs  *)
(* do not touch each other, so one is modelled.                            *)
(***************************************************************************)
EXTENDS FiniteSets

CONSTANTS
  Steps,        \* the steps of the pipeline
  Needs,        \* Needs[s]: the steps s depends on; acyclic, validate_dag
  Publishing,   \* steps of a batch or monitoring job: success publishes a result
  Vanishing,    \* may the workflow be deleted behind the platform's back?
  Reconcilers   \* reconciler processes; one, unless two leaders overlap

ASSUME PipelineAssumption ==
  /\ Needs \in [Steps -> SUBSET Steps]
  /\ Publishing \subseteq Steps
  /\ Vanishing \in BOOLEAN

VARIABLES
  run,          \* the pipeline_runs row
  step,         \* the status column of the step_runs rows
  published,    \* steps whose dataset or drift report has been stored
  phase,        \* of the Workflow resource; Gone when there is none
  shutdown,     \* its spec.shutdown
  node,         \* its nodes, one for each step
  rec,          \* what each reconciler holds in memory
  canc,         \* what a cancel request holds in memory
  interrupted,  \* history: has any pass been abandoned half-way?
  done          \* history: steps whose container has succeeded

rows     == <<run, step, published>>
workflow == <<phase, shutdown, node>>
history  == <<interrupted, done>>
vars     == <<rows, workflow, rec, canc, history>>

-----------------------------------------------------------------------------
(* domain/states.py *)
RunEdges ==
  { <<"PENDING", "SUBMITTED">>, <<"PENDING", "FAILED">>, <<"PENDING", "CANCELLED">>,
    <<"SUBMITTED", "RUNNING">>, <<"SUBMITTED", "FAILED">>, <<"SUBMITTED", "CANCELLED">>,
    <<"RUNNING", "SUCCEEDED">>, <<"RUNNING", "FAILED">>, <<"RUNNING", "CANCELLED">> }
StepEdges ==
  { <<"PENDING", "RUNNING">>, <<"PENDING", "SKIPPED">>, <<"PENDING", "CANCELLED">>,
    <<"RUNNING", "SUCCEEDED">>, <<"RUNNING", "FAILED">>, <<"RUNNING", "CANCELLED">> }

RunStatus  == {"PENDING", "SUBMITTED", "RUNNING", "SUCCEEDED", "FAILED", "CANCELLED"}
StepStatus == {"PENDING", "RUNNING", "SUCCEEDED", "FAILED", "CANCELLED", "SKIPPED"}
RunEnded(status)  == status \in {"SUCCEEDED", "FAILED", "CANCELLED"}
StepEnded(status) == status \in {"SUCCEEDED", "FAILED", "CANCELLED", "SKIPPED"}

RunRow    == [status : RunStatus, ref : BOOLEAN, cancel : BOOLEAN]
Phase     == {"Gone", "Pending", "Running", "Succeeded", "Failed"}
NodePhase == {"Pending", "Running", "Stuck", "Succeeded", "Failed", "Skipped"}
NoNodes   == [s \in Steps |-> "Pending"]
Blank     == [s \in Steps |-> "PENDING"]

Idle == [pc |-> "idle"]

(* A pass: the row it loaded, the outcome it means to record for the run,    *)
(* what the workflow says of each step (NoNews: nothing to record), and the  *)
(* step rows as it read them.                                              *)
NoNews == "PENDING"
Pass == [pc : {"submit", "cancel", "observe", "stop", "list", "steps", "verdict",
               "write", "closing", "close"},
         run : RunRow, goal : RunStatus,
         news : [Steps -> StepStatus], seen : [Steps -> StepStatus]]

TypeOK ==
  /\ run \in RunRow
  /\ step \in [Steps -> StepStatus]
  /\ published \subseteq Publishing
  /\ phase \in Phase /\ shutdown \in BOOLEAN /\ node \in [Steps -> NodePhase]
  /\ rec \in [Reconcilers -> Pass \cup {Idle}]
  /\ canc \in {"idle"} \cup RunStatus
  /\ interrupted \in BOOLEAN
  /\ done \subseteq Steps

(* PipelineRunService.create: the run and all its steps in one transaction. *)
Init ==
  /\ run = [status |-> "PENDING", ref |-> FALSE, cancel |-> FALSE]
  /\ step = Blank
  /\ published = {}
  /\ phase = "Gone" /\ shutdown = FALSE /\ node = NoNodes
  /\ rec = [p \in Reconcilers |-> Idle]
  /\ canc = "idle"
  /\ interrupted = FALSE
  /\ done = {}

-----------------------------------------------------------------------------
(* PipelineRunService.request_cancel. *)

CancelRead ==
  /\ canc = "idle"
  /\ ~ RunEnded(run.status) /\ ~ run.cancel
  /\ canc' = run.status
  /\ UNCHANGED <<rows, workflow, rec, history>>

(* A PENDING run ends at once with all its steps; a later one is flagged. The *)
(* row written is the one read: for a SUBMITTED or RUNNING run, with its ref. *)
CancelledSteps_RunOnly == step
CancelledSteps == [s \in Steps |-> "CANCELLED"]

CancelWrite ==
  /\ canc # "idle"
  /\ run.status = canc
  /\ IF canc = "PENDING"
       THEN /\ run' = [status |-> "CANCELLED", ref |-> FALSE, cancel |-> FALSE]
            /\ step' = CancelledSteps
       ELSE /\ run' = [status |-> canc, ref |-> TRUE, cancel |-> TRUE]
            /\ UNCHANGED step
  /\ canc' = "idle"
  /\ UNCHANGED <<published, workflow, rec, history>>

CancelGiveUp ==
  /\ canc # "idle"
  /\ canc' = "idle"
  /\ UNCHANGED <<rows, workflow, rec, history>>

-----------------------------------------------------------------------------
(* The reconciler. *)

(* The pass q one step further on; what it no longer needs is forgotten. *)
At(q, pc)         == [q EXCEPT !.pc = pc]
Reading(q, pc)    == [q EXCEPT !.pc = pc, !.seen = step]
Deciding(q, goal) == [pc |-> "write", run |-> q.run, goal |-> goal, news |-> Blank, seen |-> Blank]

Load(p) ==
  /\ rec[p] = Idle
  /\ ~ RunEnded(run.status)
  /\ rec' = [rec EXCEPT ![p] =
       [pc |-> IF run.status = "PENDING" THEN "submit" ELSE "cancel",
        run |-> run, goal |-> run.status, news |-> Blank, seen |-> Blank]]
  /\ UNCHANGED <<rows, workflow, canc, history>>

(* _submit: see RunLifecycle. A refusal, and an answer that was lost, end in FAILED. *)
Submit(p) ==
  /\ rec[p].pc = "submit"
  /\ LET q == rec[p] IN
       \E answer \in {"SUBMITTED", "FAILED"} :
         /\ \/ ~ q.run.cancel /\ phase' = IF phase = "Gone" THEN "Pending" ELSE phase
            \/ (answer = "FAILED" \/ q.run.cancel) /\ UNCHANGED phase
         /\ rec' = [rec EXCEPT ![p] =
                      Deciding(q, IF q.run.cancel THEN "CANCELLED" ELSE answer)]
  /\ UNCHANGED <<rows, shutdown, node, canc, history>>

(* A cancel request is passed on; without a resource to patch the call raises. *)
PassCancel(p) ==
  /\ rec[p].pc = "cancel"
  /\ rec[p].run.cancel => phase # "Gone"
  /\ shutdown' = (shutdown \/ rec[p].run.cancel)
  /\ rec' = [rec EXCEPT ![p] = At(rec[p], "observe")]
  /\ UNCHANGED <<rows, phase, node, canc, history>>

(* get_status: what one answer of the workflow system says of a step ... *)
StepNews_OmittedIsFine(s) ==
  CASE node[s] = "Running"                  -> "RUNNING"
    [] node[s] \in {"Succeeded", "Skipped"} -> "SUCCEEDED"
    [] node[s] = "Failed"                   -> "FAILED"
    [] OTHER                                -> NoNews
StepNews(s) ==
  CASE node[s] = "Running"   -> "RUNNING"
    [] node[s] = "Succeeded" -> "SUCCEEDED"
    [] node[s] = "Failed"    -> "FAILED"
    [] node[s] = "Skipped"   -> "SKIPPED"
    [] OTHER                 -> NoNews

(* ... and of the run; an unstartable pod makes it FAILED. *)
Unstartable == phase = "Running" /\ \E s \in Steps : node[s] = "Stuck"
RunNews ==
  CASE Unstartable                  -> "FAILED"
    [] phase = "Running"            -> "RUNNING"
    [] phase = "Succeeded"          -> "SUCCEEDED"
    [] phase = "Failed" /\ shutdown -> "CANCELLED"
    [] phase = "Failed"             -> "FAILED"
    [] OTHER                        -> NoNews

Observe(p) ==
  /\ rec[p].pc = "observe"
  /\ LET q == rec[p] IN
       rec' = [rec EXCEPT ![p] =
         IF phase = "Gone" THEN Deciding(q, "FAILED")
         ELSE [q EXCEPT !.pc = IF Unstartable THEN "stop" ELSE "list",
                        !.goal = RunNews,
                        !.news = [s \in Steps |-> StepNews(s)]]]
  /\ UNCHANGED <<rows, workflow, canc, history>>

(* An unstartable workflow is shut down before get_status returns. *)
Stop(p) ==
  /\ rec[p].pc = "stop"
  /\ phase # "Gone"
  /\ shutdown' = TRUE
  /\ rec' = [rec EXCEPT ![p] = At(rec[p], "list")]
  /\ UNCHANGED <<rows, phase, node, canc, history>>

(* _sync_steps reads the step rows ... *)
ListSteps(p) ==
  /\ rec[p].pc = "list"
  /\ rec' = [rec EXCEPT ![p] = Reading(@, "steps")]
  /\ UNCHANGED <<rows, workflow, canc, history>>

(* ... and records what is new for an open step, which passes through RUNNING. *)
Behind(q) == {s \in Steps : ~ StepEnded(q.seen[s]) /\ q.news[s] \notin {NoNews, q.seen[s]}}

StepTarget(q, s) ==
  IF q.seen[s] = "PENDING" /\ q.news[s] \in {"SUCCEEDED", "FAILED"} THEN "RUNNING" ELSE q.news[s]

(* The compare-and-swap of SqlStepRuns.update. *)
StepUnmoved_NoExpectedStatus(q, s) == TRUE
StepUnmoved(q, s) == step[s] = q.seen[s]

(* _move_step: a result the platform cannot accept turns success into FAILED; *)
(* the publication commits with the status.                                *)
StepResult_PublishedAnyway(s, status) == IF s \in Publishing THEN {s} ELSE {}
StepResult(s, status) == IF status = "SUCCEEDED" THEN {s} \cap Publishing ELSE {}

MoveStep(p, s, target) ==
  LET q == rec[p] IN
  \E status \in {target} \cup
      (IF target = "SUCCEEDED" /\ s \in Publishing THEN {"FAILED"} ELSE {}) :
    /\ {<<q.seen[s], target>>, <<q.seen[s], status>>} \subseteq StepEdges
    /\ StepUnmoved(q, s)
    /\ step' = [step EXCEPT ![s] = status]
    /\ published' = published \cup StepResult(s, status)
    /\ rec' = [rec EXCEPT ![p] = [q EXCEPT !.seen[s] = status]]

SyncStep(p, s) ==
  /\ rec[p].pc = "steps"
  /\ s \in Behind(rec[p])
  /\ MoveStep(p, s, StepTarget(rec[p], s))
  /\ UNCHANGED <<run, workflow, canc, history>>

(* When all are recorded the outcome of the run is decided, against the rows: *)
(* a workflow that succeeded with a step that did not is a failed run.       *)
Outcome_TrustWorkflow(q) == q.goal
Outcome(q) ==
  IF q.goal = "SUCCEEDED" /\ \E s \in Steps : step[s] = "FAILED" THEN "FAILED" ELSE q.goal

Judge(p) ==
  /\ rec[p].pc = "steps"
  /\ Behind(rec[p]) = {}
  /\ LET q == rec[p] IN
       rec' = [rec EXCEPT ![p] =
         IF Outcome(q) \in {NoNews, q.run.status} THEN Idle ELSE Deciding(q, Outcome(q))]
  /\ UNCHANGED <<rows, workflow, canc, history>>

(* _move_run, with the compare-and-swap of SqlPipelineRuns.update. *)
RunTarget(q) ==
  IF q.run.status = "SUBMITTED" /\ q.goal = "SUCCEEDED" THEN "RUNNING" ELSE q.goal

AfterWrite(q, stored) ==
  IF RunEnded(stored.status) THEN [q EXCEPT !.pc = "closing", !.run = stored, !.goal = "PENDING"]
  ELSE IF stored.status = "SUBMITTED" THEN [q EXCEPT !.pc = "cancel", !.run = stored]
  ELSE IF q.goal = "SUCCEEDED" THEN [q EXCEPT !.run = stored]
  ELSE Idle

Write(p) ==
  /\ rec[p].pc = "write"
  /\ LET q == rec[p]
         stored == [status |-> RunTarget(q), cancel |-> q.run.cancel,
                    ref |-> q.run.ref \/ RunTarget(q) = "SUBMITTED"]
     IN /\ <<q.run.status, stored.status>> \in RunEdges
        /\ run.status = q.run.status
        /\ run' = stored
        /\ rec' = [rec EXCEPT ![p] = AfterWrite(q, stored)]
  /\ UNCHANGED <<step, published, workflow, canc, history>>

(* _close_open_steps, after the run is finished: reads the steps ... *)
ListOpen(p) ==
  /\ rec[p].pc = "closing"
  /\ rec' = [rec EXCEPT ![p] = Reading(@, "close")]
  /\ UNCHANGED <<rows, workflow, canc, history>>

(* ... and closes each: CANCELLED if it runs or the run is, SKIPPED otherwise. *)
Closing_AlwaysSkipped(q, s) == "SKIPPED"
Closing(q, s) ==
  IF q.seen[s] = "RUNNING" \/ q.run.status = "CANCELLED" THEN "CANCELLED" ELSE "SKIPPED"

CloseStep(p, s) ==
  /\ rec[p].pc = "close"
  /\ ~ StepEnded(rec[p].seen[s])
  /\ MoveStep(p, s, Closing(rec[p], s))
  /\ UNCHANGED <<run, workflow, canc, history>>

Finished(p) ==
  /\ rec[p].pc = "close"
  /\ \A s \in Steps : StepEnded(rec[p].seen[s])
  /\ rec' = [rec EXCEPT ![p] = Idle]
  /\ UNCHANGED <<rows, workflow, canc, history>>

(* The pass is lost: a crash, an error of a provider, or a Conflict. *)
Abandon(p) ==
  /\ rec[p] # Idle
  /\ rec' = [rec EXCEPT ![p] = Idle]
  /\ interrupted' = TRUE
  /\ UNCHANGED <<rows, workflow, canc, done>>

-----------------------------------------------------------------------------
(* Argo, by what the adapter relies on. *)

WorkflowBegin ==
  /\ phase = "Pending" /\ ~ shutdown
  /\ phase' = "Running"
  /\ UNCHANGED <<rows, shutdown, node, rec, canc, history>>

(* A step is scheduled once its dependencies have succeeded. *)
NodeStart(s) ==
  /\ phase = "Running" /\ ~ shutdown
  /\ node[s] = "Pending" /\ \A d \in Needs[s] : node[d] = "Succeeded"
  /\ \E start \in {"Running", "Stuck"} : node' = [node EXCEPT ![s] = start]
  /\ UNCHANGED <<rows, phase, shutdown, rec, canc, history>>

NodeEnd(s) ==
  /\ phase = "Running" /\ node[s] = "Running"
  /\ \/ node' = [node EXCEPT ![s] = "Succeeded"] /\ done' = done \cup {s}
     \/ node' = [node EXCEPT ![s] = "Failed"] /\ UNCHANGED done
  /\ UNCHANGED <<rows, phase, shutdown, rec, canc, interrupted>>

(* A step is omitted when a dependency did not succeed. *)
NodeSkip(s) ==
  /\ phase = "Running"
  /\ node[s] = "Pending" /\ \E d \in Needs[s] : node[d] \in {"Failed", "Skipped"}
  /\ node' = [node EXCEPT ![s] = "Skipped"]
  /\ UNCHANGED <<rows, phase, shutdown, rec, canc, history>>

(* Nothing runs any more: all succeeded, or something failed. *)
WorkflowEnd ==
  /\ phase = "Running"
  /\ \A s \in Steps : node[s] \notin {"Running", "Stuck"}
  /\ \/ phase' = "Succeeded" /\ \A s \in Steps : node[s] = "Succeeded"
     \/ phase' = "Failed" /\ \E s \in Steps : node[s] = "Failed"
  /\ UNCHANGED <<rows, shutdown, node, rec, canc, history>>

(* Ended from outside, by spec.shutdown or by the deadline: running pods are *)
(* killed and end as Failed, steps that were not scheduled never appear.     *)
WorkflowKilled ==
  /\ phase \in {"Pending", "Running"}
  /\ phase' = "Failed"
  /\ node' = [s \in Steps |-> IF node[s] \in {"Running", "Stuck"} THEN "Failed" ELSE node[s]]
  /\ UNCHANGED <<rows, shutdown, rec, canc, history>>

(* Deleted behind the platform's back, once it is known to it; a submission   *)
(* still under way would create it again, which RunLifecycle covers.         *)
WorkflowVanish ==
  /\ Vanishing
  /\ phase # "Gone"
  /\ run.ref /\ \A p \in Reconcilers : rec[p].pc # "submit"
  /\ phase' = "Gone" /\ shutdown' = FALSE /\ node' = NoNodes
  /\ UNCHANGED <<rows, rec, canc, history>>

-----------------------------------------------------------------------------
CancelStep == CancelRead \/ CancelWrite \/ CancelGiveUp

ReconcilerStep(p) ==
  \/ Load(p) \/ Submit(p) \/ PassCancel(p) \/ Observe(p) \/ Stop(p)
  \/ ListSteps(p) \/ Judge(p) \/ Write(p) \/ ListOpen(p) \/ Finished(p)
  \/ \E s \in Steps : SyncStep(p, s) \/ CloseStep(p, s)
  \/ Abandon(p)

WorkflowStep ==
  \/ WorkflowBegin \/ WorkflowEnd \/ WorkflowKilled \/ WorkflowVanish
  \/ \E s \in Steps : NodeStart(s) \/ NodeEnd(s) \/ NodeSkip(s)

Next == CancelStep \/ WorkflowStep \/ \E p \in Reconcilers : ReconcilerStep(p)

Spec == Init /\ [][Next]_vars

(* As in RunLifecycle: the loop comes back to every active run and a single  *)
(* pass may be lost, but no step of it is refused for ever.                  *)
ReconcilerFairness ==
  \A p \in Reconcilers :
    /\ SF_vars(Load(p)) /\ SF_vars(Submit(p)) /\ SF_vars(PassCancel(p))
    /\ SF_vars(Observe(p)) /\ SF_vars(Stop(p)) /\ SF_vars(ListSteps(p))
    /\ \A s \in Steps : SF_vars(SyncStep(p, s)) /\ SF_vars(CloseStep(p, s))
    /\ SF_vars(Judge(p)) /\ SF_vars(Write(p)) /\ SF_vars(ListOpen(p)) /\ SF_vars(Finished(p))

(* activeDeadlineSeconds ends every workflow. *)
FairSpec == Spec /\ ReconcilerFairness /\ WF_vars(WorkflowKilled)

-----------------------------------------------------------------------------
(* Safety. *)

(* A run is SUCCEEDED only when every step is, although the steps, the check *)
(* for a failed one and the run are four transactions.                       *)
SuccessIsComplete == run.status = "SUCCEEDED" => \A s \in Steps : step[s] = "SUCCEEDED"

(* A result is stored exactly when its step is recorded as SUCCEEDED.        *)
PublishedWithStep == published = {s \in Publishing : step[s] = "SUCCEEDED"}

(* A step is SUCCEEDED only if its container ended well.                     *)
StepSuccessIsReal == \A s \in Steps : step[s] = "SUCCEEDED" => s \in done

(* Rows of the run and of its steps, results and what really happened agree:  *)
(* a successful run has all its steps, a successful step its result and a     *)
(* container that ended well, through overlapping passes and lost ones.       *)
OutcomesAreReal == SuccessIsComplete /\ PublishedWithStep /\ StepSuccessIsReal

(* A recorded step outcome is final, whichever reconciler comes later with   *)
(* an older picture, and a step moves only along the declared edges, or ends *)
(* with its PENDING run.                                                     *)
StepsMoveForward ==
  [][\A s \in Steps : step'[s] # step[s] => <<step[s], step'[s]>> \in StepEdges]_vars

(* "A finished run leaves no step PENDING or RUNNING", if no pass was lost.  *)
ClosedUnlessInterrupted ==
  RunEnded(run.status) /\ ~ interrupted /\ (\A p \in Reconcilers : rec[p] = Idle)
    => \A s \in Steps : StepEnded(step[s])

(* "cancel mid-run -> pending steps CANCELLED, run CANCELLED": a cancelled   *)
(* run skips nothing, except what its workflow had already omitted.          *)
CancelledNotSkipped ==
  run.status = "CANCELLED" =>
    \A s \in Steps : step[s] = "SKIPPED" => \E d \in Needs[s] : step[d] # "SUCCEEDED"

(* Each step left when its run ends is closed, and closed the right way.      *)
StepsAreClosed == ClosedUnlessInterrupted /\ CancelledNotSkipped

-----------------------------------------------------------------------------
(* What the code's own words say, and its interleavings refute.              *)

(* "A finished run leaves no step PENDING or RUNNING."                       *)
NoOpenStepUnderFinishedRun ==
  RunEnded(run.status) ~> \A s \in Steps : StepEnded(step[s])

=============================================================================
