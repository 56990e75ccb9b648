------------------------------- MODULE Entities -------------------------------
(* The entities of the domain as the stores see them: their columns, their state    *)
(* machines, and what each of their methods changes.  A column holds the time at    *)
(* which its value was set, and 0 stands for None, False and the default; columns   *)
(* that are given once and never compared go with `created`.  What one entity       *)
(* refers to another by, or is found by, is a small number.                         *)
EXTENDS Naturals

Final == {}

ProjectMoves ==
  [PENDING |-> {"PROVISIONING", "DELETING"}, PROVISIONING |-> {"READY", "FAILED", "DELETING"},
   READY |-> {"DRIFTED", "DELETING"}, DRIFTED |-> {"PROVISIONING", "DELETING"},
   FAILED |-> {"PROVISIONING", "DELETING"}, DELETING |-> {"DELETED", "FAILED"}, DELETED |-> Final]

RunMoves ==
  [PENDING |-> {"SUBMITTED", "FAILED", "CANCELLED"}, SUBMITTED |-> {"RUNNING", "FAILED", "CANCELLED"},
   RUNNING |-> {"SUCCEEDED", "FAILED", "CANCELLED"},
   SUCCEEDED |-> Final, FAILED |-> Final, CANCELLED |-> Final]

StepMoves ==
  [PENDING |-> {"RUNNING", "SKIPPED", "CANCELLED"}, RUNNING |-> {"SUCCEEDED", "FAILED", "CANCELLED"},
   SUCCEEDED |-> Final, FAILED |-> Final, CANCELLED |-> Final, SKIPPED |-> Final]

VersionMoves ==
  [REGISTERED |-> {"EVALUATING"}, EVALUATING |-> {"REJECTED", "CANDIDATE"}, REJECTED |-> Final,
   CANDIDATE |-> {"CHAMPION", "ARCHIVED", "REJECTED"}, CHAMPION |-> {"ARCHIVED"}, ARCHIVED |-> {"CHAMPION"}]

EvaluationMoves ==
  [PENDING |-> {"RUNNING"}, RUNNING |-> {"PASSED", "FAILED"}, PASSED |-> Final, FAILED |-> Final]

DeploymentMoves ==
  [PENDING |-> {"DEPLOYING", "DELETING"}, DEPLOYING |-> {"READY", "FAILED", "DELETING"},
   READY |-> {"DELETING", "DEGRADED", "FAILED", "DEPLOYING"},
   DEGRADED |-> {"DELETING", "READY", "FAILED", "DEPLOYING"},
   FAILED |-> {"DEPLOYING", "DELETING"}, DELETING |-> {"DELETED"}, DELETED |-> Final]

EndpointMoves ==
  [PENDING |-> {"READY", "UNAVAILABLE"}, READY |-> {"UNAVAILABLE"}, UNAVAILABLE |-> {"READY"}]

RolloutMoves ==
  [PENDING |-> {"PROGRESSING", "ROLLED_BACK"}, PROGRESSING |-> {"SUCCEEDED", "ROLLED_BACK"},
   SUCCEEDED |-> Final, ROLLED_BACK |-> Final]

IsTerminal(moves, status) == moves[status] = Final

-----------------------------------------------------------------------------
(* New entities. `k` is what their creator chooses.                              *)

Project(i, k, now) ==
  [id |-> i, name |-> k.name, status |-> "PENDING", reason |-> 0, quota |-> 0, created |-> now, updated |-> now]

JobDefinition(i, k, now) == [id |-> i, project |-> k.project, name |-> k.name, created |-> now]

Run(i, k, now) ==
  [id |-> i, project |-> k.project, job |-> k.job, key |-> k.key, status |-> "PENDING", reason |-> 0,
   exit |-> 0, ref |-> 0, cancel |-> 0, created |-> now, updated |-> now, started |-> 0, finished |-> 0,
   cleaned |-> 0]

PipelineDefinition(i, k, now) ==
  [id |-> i, project |-> k.project, name |-> k.name, version |-> k.version, created |-> now]

PipelineRun(i, k, now) ==
  [id |-> i, project |-> k.project, definition |-> k.definition, key |-> k.key, status |-> "PENDING",
   reason |-> 0, ref |-> 0, cancel |-> 0, created |-> now, updated |-> now, started |-> 0, finished |-> 0,
   cleaned |-> 0, discovered |-> 0, checked |-> 0]

StepRun(i, k, now) ==
  [id |-> i, run |-> k.run, step |-> k.step, status |-> "PENDING", reason |-> 0, exit |-> 0,
   created |-> now, updated |-> now, started |-> 0, finished |-> 0]

Model(i, k, now) ==
  [id |-> i, project |-> k.project, name |-> k.name, thresholds |-> 0, drift |-> 0, created |-> now]

ModelVersion(i, k, now) ==
  [id |-> i, model |-> k.model, version |-> k.version, ref |-> k.ref, status |-> "REGISTERED",
   created |-> now, updated |-> now]

Evaluation(i, k, now) ==
  [id |-> i, version |-> k.version, status |-> "PENDING", metrics |-> 0, checks |-> 0,
   created |-> now, updated |-> now]

Promotion(i, k, now) == [id |-> i, version |-> k.version, status |-> "APPLIED", created |-> now, updated |-> now]

Deployment(i, k, now) ==
  [id |-> i, project |-> k.project, name |-> k.name, status |-> "PENDING", reason |-> 0, desired |-> 0,
   active |-> 0, trace |-> 0, created |-> now, updated |-> now]

DeploymentRevision(i, k, now) ==
  [id |-> i, deployment |-> k.deployment, revision |-> k.revision, created |-> now]

Endpoint(i, k, now) ==
  [id |-> i, project |-> k.project, deployment |-> k.deployment, name |-> k.name, status |-> "PENDING",
   url |-> 0, kind |-> 0, protocol |-> 0, exposure |-> 0, limits |-> 0, created |-> now, updated |-> now]

Rollout(i, k, now) ==
  [id |-> i, deployment |-> k.deployment, version |-> k.version, status |-> "PENDING", reason |-> 0,
   step |-> 0, since |-> 0, abort |-> 0, created |-> now, updated |-> now, finished |-> 0]

Membership(i, k, now) ==
  [id |-> i, project |-> k.project, subject |-> k.subject, role |-> now, created |-> now, updated |-> now]

ApiKey(i, k, now) ==
  [id |-> i, project |-> k.project, name |-> k.name, endpoints |-> now, units |-> now, expires |-> now,
   revoked |-> 0, used |-> 0, created |-> now]

AuditEvent(i, k, now) ==
  [id |-> i, project |-> k.project, entity |-> k.entity, action |-> k.action, created |-> now]

-----------------------------------------------------------------------------
(* What one call of a method makes of an entity. A method that takes optional    *)
(* values is called with all of them or with none.                               *)

Moved(e, s, now) == [e EXCEPT !.status = s, !.updated = now]

ProjectChanges(e, now) ==
  {[Moved(e, s, now) EXCEPT !.reason = r] : s \in ProjectMoves[e.status], r \in {0, now}}
    \union {[e EXCEPT !.quota = now, !.updated = now], [e EXCEPT !.reason = now, !.updated = now]}

\* `transition_to` of runs, pipeline runs and steps, without the optional values.
Timed(e, moves, s, now) ==
  [e EXCEPT !.status = s, !.updated = now,
            !.started = IF s = "RUNNING" THEN now ELSE @,
            !.finished = IF IsTerminal(moves, s) THEN now ELSE @]

\* A request to cancel, which is refused once the run is over or asked twice.
AskedToStop(e, moves, now) ==
  IF IsTerminal(moves, e.status) \/ e.cancel # 0 THEN {} ELSE {[e EXCEPT !.cancel = 1, !.updated = now]}

DetailedRun(m, now) == [m EXCEPT !.reason = now, !.exit = now, !.ref = now]
RunChanges(e, now) ==
  LET moved == {Timed(e, RunMoves, s, now) : s \in RunMoves[e.status]}
  IN  moved \union {DetailedRun(m, now) : m \in moved}
            \union AskedToStop(e, RunMoves, now)

\* What the retention pass makes of a run whose workflow it has deleted.
Cleaned(e, now) ==
  IF IsTerminal(RunMoves, e.status) /\ e.ref # 0 /\ e.cleaned = 0
  THEN {[e EXCEPT !.cleaned = now, !.updated = now]} ELSE {}

DetailedPipelineRun(m, now) == [m EXCEPT !.reason = now, !.ref = now]
PipelineRunChanges(e, now) ==
  LET moved == {Timed(e, RunMoves, s, now) : s \in RunMoves[e.status]}
  IN  moved \union {DetailedPipelineRun(m, now) : m \in moved}
            \union AskedToStop(e, RunMoves, now)

DetailedStepRun(m, now) == [m EXCEPT !.reason = now, !.exit = now]
StepRunChanges(e, now) ==
  LET moved == {Timed(e, StepMoves, s, now) : s \in StepMoves[e.status]}
  IN  moved \union {DetailedStepRun(m, now) : m \in moved}

ModelVersionChanges(e, now) == {Moved(e, s, now) : s \in VersionMoves[e.status]}

EvaluationChanges(e, now) ==
  {Moved(e, s, now) : s \in EvaluationMoves[e.status]}
    \union {[e EXCEPT !.metrics = now, !.checks = now, !.updated = now]}

DeploymentChanges(e, now) ==
  {[Moved(e, s, now) EXCEPT !.reason = r] : s \in DeploymentMoves[e.status] \ {"DELETED"}, r \in {0, now}}
    \union (IF e.status \in {"DELETING", "DELETED"} THEN {}
            ELSE {[e EXCEPT !.desired = now, !.updated = now], [e EXCEPT !.desired = now, !.trace = now, !.updated = now],
                  [e EXCEPT !.active = now, !.updated = now]})

EndpointChanges(e, now) ==
  {[Moved(e, s, now) EXCEPT !.url = u] : s \in EndpointMoves[e.status], u \in {e.url, now}}

\* A deployment that is gone, and the endpoint of one that goes.
Deleted(e, now) ==
  IF e.status # "DELETING" THEN {}
  ELSE {[e EXCEPT !.status = "DELETED", !.reason = 0, !.active = 0, !.desired = 0, !.updated = now]}

TakenDown(e, now) == [e EXCEPT !.status = "UNAVAILABLE", !.updated = now]

\* The endpoint of a deployment whose first model is of another kind than the default.
OfKind(e, now) == [e EXCEPT !.kind = now, !.protocol = now, !.limits = now, !.updated = now]

Exposed(e, now) == [e EXCEPT !.exposure = now, !.limits = now, !.updated = now]

RolloutChanges(e, now) ==
  LET moved == {[Moved(e, s, now) EXCEPT !.finished = IF IsTerminal(RolloutMoves, s) THEN now ELSE @]
                  : s \in RolloutMoves[e.status]}
      steps == {[e EXCEPT !.step = now, !.since = 0, !.updated = now],
                [e EXCEPT !.since = now, !.updated = now], [e EXCEPT !.abort = 1, !.updated = now]}
  IN  moved \union {[m EXCEPT !.reason = now] : m \in moved}
            \union (IF IsTerminal(RolloutMoves, e.status) THEN {} ELSE steps)

ModelWithThresholds(e, now) == [e EXCEPT !.thresholds = now]
ModelWithAliasDrift(e, now) == [e EXCEPT !.drift = now]
MembershipWithRole(e, now)  == [e EXCEPT !.role = now, !.updated = now]
ApiKeyRevoked(e, now)       == IF e.revoked # 0 THEN e ELSE [e EXCEPT !.revoked = now]
ApiKeyUsed(e, now)          == [e EXCEPT !.used = now]

\* The outcome of a look for the models of a pipeline run that awaits one: some, or none yet.
Discovered(e, now) ==
  IF e.status # "SUCCEEDED" \/ e.discovered # 0 THEN {}
  ELSE {[e EXCEPT !.checked = now], [e EXCEPT !.checked = now, !.discovered = now]}

-----------------------------------------------------------------------------
(* What the application calls the stores with: the entities it adds to each table, and *)
(* the writers it gives changed entities to.                                         *)

N == {1, 2}
Keys(k) ==
  CASE k = "projects"       -> [name : N]
    [] k \in {"jobs", "models", "deployments", "api_keys"} -> [project : {1}, name : N]
    [] k = "runs"           -> [project : {1}, job : N, key : {0, 1}]
    [] k = "pipelines"      -> [project : {1}, name : N, version : N]
    [] k = "pipeline_runs"  -> [project : {1}, definition : N, key : {0, 1}]
    [] k = "step_runs"      -> [run : {1}, step : N]
    [] k = "model_versions" -> [model : {1}, version : N, ref : {0, 1}]
    [] k \in {"evaluations", "promotions"} -> [version : N]
    [] k = "revisions"      -> [deployment : {1}, revision : N]
    [] k = "endpoints"      -> [project : {1}, deployment : {1}, name : N]
    [] k = "rollouts"       -> [deployment : N, version : N]
    [] k = "audit"          -> [project : {1}, entity : N, action : {1}]
    [] k = "memberships"    -> [project : {1}, subject : N]

New(k, i, key, t) ==
  CASE k = "projects"       -> Project(i, key, t)        [] k = "jobs"       -> JobDefinition(i, key, t)
    [] k = "runs"           -> Run(i, key, t)            [] k = "pipelines"  -> PipelineDefinition(i, key, t)
    [] k = "pipeline_runs"  -> PipelineRun(i, key, t)    [] k = "step_runs"  -> StepRun(i, key, t)
    [] k = "models"         -> Model(i, key, t)          [] k = "model_versions" -> ModelVersion(i, key, t)
    [] k = "evaluations"    -> Evaluation(i, key, t)     [] k = "promotions" -> Promotion(i, key, t)
    [] k = "deployments"    -> Deployment(i, key, t)     [] k = "revisions"  -> DeploymentRevision(i, key, t)
    [] k = "endpoints"      -> Endpoint(i, key, t)       [] k = "rollouts"   -> Rollout(i, key, t)
    [] k = "audit"          -> AuditEvent(i, key, t)     [] k = "memberships" -> Membership(i, key, t)
    [] k = "api_keys"       -> ApiKey(i, key, t)

\* The writes a caller that holds `e` may make: the writer, and the entity it is given.
By(writer, entities) == {[writer |-> writer, entity |-> x] : x \in entities}
Writes(k, e, t) ==
  CASE k = "projects"       -> By("update", ProjectChanges(e, t))
    [] k = "runs"           -> By("update", RunChanges(e, t) \union Cleaned(e, t))
    [] k = "pipeline_runs"  -> By("update", PipelineRunChanges(e, t) \union Cleaned(e, t))
                                 \union By("mark_model_discovery", Discovered(e, t))
    [] k = "step_runs"      -> By("update", StepRunChanges(e, t))
    [] k = "models"         -> By("update_thresholds", {ModelWithThresholds(e, t)})
                                 \union By("update_alias_drift", {ModelWithAliasDrift(e, t)})
    [] k = "model_versions" -> By("update", ModelVersionChanges(e, t))
    [] k = "evaluations"    -> By("update", EvaluationChanges(e, t))
    [] k = "deployments"    -> By("update", DeploymentChanges(e, t) \union Deleted(e, t))
    [] k = "endpoints"      -> By("update_lifecycle", EndpointChanges(e, t) \union {TakenDown(e, t), OfKind(e, t)})
                                 \union By("initialize_limits", {OfKind(e, t)})
                                 \union By("update_access", {Exposed(e, t)})
    [] k = "rollouts"       -> By("update", RolloutChanges(e, t))
    [] k = "memberships"    -> By("update", {MembershipWithRole(e, t)})
    [] k = "api_keys"       -> By("update", {ApiKeyRevoked(e, t)}) \union By("touch", {ApiKeyUsed(e, t)})
    [] OTHER                -> {}

\* A first row, created at time 1, those that one write at time 2 makes of some, and what
\* the first may have become.
FirstRow(k) == New(k, 2, CHOOSE x \in Keys(k) : \A c \in DOMAIN x : x[c] = 1, 1)
Became(k, some) == some \union UNION {{w.entity : w \in Writes(k, e, 2)} : e \in some}
Histories(k, MaxChanges) ==
  LET after[n \in 0..MaxChanges] == IF n = 0 THEN {FirstRow(k)} ELSE Became(k, after[n - 1])
  IN  after[MaxChanges]

=============================================================================
