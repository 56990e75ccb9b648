----------------------------- MODULE Migrations -----------------------------
(* The schema of PostgreSQL and who may do what with it: the 30 revisions of           *)
(* persistence/migrations, each an upgrade and a downgrade, run one migration at a     *)
(* time in one transaction (persistence/migrate.py), and the grants of the runtime     *)
(* roles, which some revisions extend and persistence/security.py sets anew.  A table  *)
(* is the set of the names of its columns, unique and check constraints and indexes;   *)
(* types and defaults are left out.                                                    *)
EXTENDS Naturals, Sequences, FiniteSets, SequencesExt

CONSTANTS
  Migrators,   \* processes that migrate
  Targets,     \* the revisions migrated to, and that an installation starts at: 0 to 30
  MaxSteps     \* bound: migrations, manifests and other people's changes

VARIABLES
  db,        \* the committed database, see Empty
  lock,      \* per migrator, what it was asked for: the revision, or Nothing; one at a time
  dba,       \* whether the one who sets the grants has seen the database at the head
  applied,   \* the manifest is in force: no migration since (history)
  strange,   \* grants given by others since the manifest (history)
  steps

vars == <<db, lock, dba, applied, strange, steps>>

Head0030 == 30
Nothing == 31
Components == {"api", "reconciler", "gateway"}

\* `refs` are foreign keys: the table, a name, the table and the key referred to. `grants` are
\* <<role, privilege, table>>; `stray` are rows that a constraint of a later revision refuses.
Empty == [revision |-> 0, tables |-> [t \in {} |-> {}], refs |-> {}, roles |-> FALSE, grants |-> {}, stray |-> {},
          ok |-> TRUE]

-----------------------------------------------------------------------------
(* What one statement makes of the database; PostgreSQL refuses what does not fit.     *)

Op(do, table, items, refs) == [do |-> do, table |-> table, items |-> items, refs |-> refs]
Create(t, items, refs) == Op("create", t, items, refs)
Drop(t)                == Op("drop", t, {}, {})
Add(t, items)          == Op("add", t, items, {})
TakeAway(t, items)     == Op("remove", t, items, {})
Refer(t, refs)         == Op("refer", t, {}, refs)
Unrefer(t, refs)       == Op("unrefer", t, {}, refs)
\* A constraint that rows named `stray` do not meet.
Validate(stray)        == Op("validate", stray, {}, {})
\* GRANT `privileges` to a role, if the role exists.
Grant(role, privileges, t) == Op("grant", t, {<<role, p>> : p \in privileges}, {})

Full(t, refs) == {<<t, r[1], r[2], r[3]>> : r \in refs}
Has(d, t) == t \in DOMAIN d.tables
With(d, t, items) == [d EXCEPT !.tables = [u \in DOMAIN @ \cup {t} |-> IF u = t THEN items ELSE @[u]]]
Resolved(d, refs) == \A r \in refs : Has(d, r[3]) /\ r[4] \in d.tables[r[3]]
StrayIn == [rollouts |-> "rollouts", reports |-> "monitoring_reports", producers |-> "dataset_versions"]

Fits(d, o) ==
  CASE o.do = "create"   -> ~ Has(d, o.table) /\ Resolved(With(d, o.table, o.items), Full(o.table, o.refs))
    [] o.do = "drop"     -> Has(d, o.table) /\ \A r \in d.refs : r[3] = o.table => r[1] = o.table
    [] o.do = "add"      -> Has(d, o.table) /\ o.items \cap d.tables[o.table] = {}
    [] o.do = "remove"   -> Has(d, o.table) /\ o.items \subseteq d.tables[o.table]
                              /\ \A r \in d.refs : r[3] = o.table => r[4] \notin o.items
    [] o.do = "refer"    -> Has(d, o.table) /\ Resolved(d, Full(o.table, o.refs)) /\ Full(o.table, o.refs) \cap d.refs = {}
    [] o.do = "unrefer"  -> Full(o.table, o.refs) \subseteq d.refs
    [] o.do = "validate" -> o.table \notin d.stray
    [] o.do = "grant"    -> d.roles => Has(d, o.table)

Done(d, o) ==
  CASE o.do = "create"   -> [With(d, o.table, o.items) EXCEPT !.refs = @ \cup Full(o.table, o.refs)]
    [] o.do = "drop"     -> [d EXCEPT !.tables = [u \in DOMAIN @ \ {o.table} |-> @[u]],
                                      !.refs = {r \in @ : r[1] # o.table},
                                      !.grants = {g \in @ : g[3] # o.table},
                                      !.stray = {s \in @ : StrayIn[s] # o.table}]
    [] o.do = "add"      -> [d EXCEPT !.tables[o.table] = @ \cup o.items]
    [] o.do = "remove"   -> [d EXCEPT !.tables[o.table] = @ \ o.items]
    [] o.do = "refer"    -> [d EXCEPT !.refs = @ \cup Full(o.table, o.refs)]
    [] o.do = "unrefer"  -> [d EXCEPT !.refs = @ \ Full(o.table, o.refs)]
    [] o.do = "validate" -> d
    [] o.do = "grant"    -> [d EXCEPT !.grants = @ \cup (IF d.roles THEN {<<x[1], x[2], o.table>> : x \in o.items} ELSE {})]

Executed(d, o) == IF d.ok /\ Fits(d, o) THEN Done(d, o) ELSE [d EXCEPT !.ok = FALSE]

-----------------------------------------------------------------------------
(* The revisions.                                                                      *)

Revision(up, down) == [up |-> up, down |-> down]
ToEach(F(_), tables) == [n \in DOMAIN tables |-> F(tables[n])]

OfProject == <<"project_id", "projects", "id">>
Ref(column, table) == <<column, table, "id">>
Times == {"created_at", "updated_at"}
Owned(index) == {"id", "project_id", "name", "created_at", index}

InitialParents == <<
  Create("audit_events", {"id", "occurred_at", "actor", "action", "entity_type", "entity_id", "project_id", "payload",
                          "ix_audit_events_entity", "ix_audit_events_project_id"}, {}),
  Create("projects", {"id", "name", "display_name", "description", "status", "uq_projects_name"} \cup Times, {}),
  Create("deployments", Owned("ix_deployments_project_id") \cup {"status", "updated_at", "uq_deployments_name"},
         {OfProject}),
  Create("job_definitions", Owned("ix_job_definitions_project_id")
                              \cup {"image", "command", "resources", "env", "uq_job_definitions_name"}, {OfProject}),
  Create("models", Owned("ix_models_project_id") \cup {"uq_models_name"}, {OfProject}),
  Create("pipeline_definitions", Owned("ix_pipeline_definitions_project_id")
                              \cup {"version", "steps", "uq_pipeline_definitions_version"}, {OfProject})>>

InitialChildren == <<
  Create("endpoints", Owned("ix_endpoints_project_id")
                        \cup {"deployment_id", "uq_endpoints_name", "ix_endpoints_deployment_id"},
         {OfProject, Ref("deployment_id", "deployments")}),
  Create("model_versions", {"id", "model_id", "version", "status", "external_ref", "uq_model_versions_version",
                            "ix_model_versions_model_id"} \cup Times, {Ref("model_id", "models")}),
  Create("pipeline_runs", {"id", "project_id", "pipeline_definition_id", "status", "external_ref",
                           "ix_pipeline_runs_pipeline_definition_id", "ix_pipeline_runs_project_id"} \cup Times,
         {OfProject, Ref("pipeline_definition_id", "pipeline_definitions")}),
  Create("deployment_revisions", {"id", "deployment_id", "revision", "model_version_id", "created_at",
                                  "uq_deployment_revisions_revision", "ix_deployment_revisions_deployment_id",
                                  "ix_deployment_revisions_model_version_id"},
         {Ref("deployment_id", "deployments"), Ref("model_version_id", "model_versions")}),
  Create("evaluations", {"id", "model_version_id", "baseline_version_id", "metrics", "status",
                         "ix_evaluations_baseline_version_id", "ix_evaluations_model_version_id"} \cup Times,
         {Ref("model_version_id", "model_versions"), Ref("baseline_version_id", "model_versions")}),
  Create("promotions", {"id", "model_version_id", "previous_champion_id", "status",
                        "ix_promotions_model_version_id", "ix_promotions_previous_champion_id"} \cup Times,
         {Ref("model_version_id", "model_versions"), Ref("previous_champion_id", "model_versions")}),
  Create("step_runs", {"id", "pipeline_run_id", "step_name", "status", "uq_step_runs_step",
                       "ix_step_runs_pipeline_run_id"} \cup Times, {Ref("pipeline_run_id", "pipeline_runs")})>>

InitialDropped == ToEach(Drop, <<
  "step_runs", "promotions", "evaluations", "deployment_revisions", "pipeline_runs", "model_versions", "endpoints",
  "pipeline_definitions", "models", "job_definitions", "deployments", "projects", "audit_events">>)

InitialSchema == Revision(InitialParents \o InitialChildren, InitialDropped)

\* A revision that only adds, and takes away the same in the opposite order.
Additions(tables, items) ==
  Revision([n \in DOMAIN tables |-> Add(tables[n], items[n])],
           Reverse([n \in DOMAIN tables |-> TakeAway(tables[n], items[n])]))

ProjectStatusReason == Additions(<<"projects">>, <<{"status_reason"}>>)

Runs ==
  Revision(<<Create("runs", {"id", "project_id", "job_definition_id", "status", "status_reason", "exit_code",
                             "external_ref", "cancel_requested", "retry_of", "idempotency_key", "started_at",
                             "finished_at", "uq_runs_idempotency_key", "ix_runs_project_id",
                             "ix_runs_job_definition_id", "ix_runs_retry_of", "ix_runs_status"} \cup Times,
                    {OfProject, Ref("job_definition_id", "job_definitions"), Ref("retry_of", "runs")})>>,
           <<Drop("runs")>>)

PipelineRuns == Additions(<<"pipeline_runs", "step_runs">>,
  <<{"status_reason", "cancel_requested", "commit_sha", "idempotency_key", "started_at", "finished_at",
     "uq_pipeline_runs_idempotency_key", "ix_pipeline_runs_status"},
    {"status_reason", "exit_code", "started_at", "finished_at"}>>)

Models == Additions(<<"models", "model_versions", "evaluations">>,
  <<{"thresholds", "alias_drift"},
    {"source_pipeline_run_id", "uq_model_versions_external_ref", "uq_model_versions_one_champion"}, {"checks"}>>)

Deployments == Additions(<<"deployments", "deployment_revisions", "endpoints">>,
  <<{"status_reason", "desired_revision", "active_revision"}, {"model_uri"}, {"status", "url", "updated_at"}>>)

Rollouts ==
  Revision(<<Create("rollouts", {"id", "deployment_id", "from_revision", "to_revision", "model_version_id", "status",
                                 "status_reason", "steps", "current_step", "gate", "step_started_at",
                                 "abort_requested", "finished_at", "ix_rollouts_deployment_id",
                                 "ix_rollouts_model_version_id", "uq_rollouts_one_active"} \cup Times,
                    {Ref("deployment_id", "deployments"), Ref("model_version_id", "model_versions")})>>,
           <<Drop("rollouts")>>)

TraceContext == Additions(<<"projects", "runs", "pipeline_runs", "deployments", "rollouts", "audit_events">>,
  <<{"traceparent"}, {"traceparent"}, {"traceparent"}, {"traceparent"}, {"traceparent"},
    {"trace_id", "ix_audit_events_trace_id"}>>)

Memberships ==
  Revision(<<Create("memberships", {"id", "project_id", "subject", "role", "uq_memberships_subject",
                                    "ix_memberships_project_id", "ix_memberships_subject"} \cup Times, {OfProject})>>,
           <<Drop("memberships")>>)

EndpointColumns == {"kind", "protocol", "exposure", "limit_units_per_minute", "limit_max_body_kb", "limit_timeout_seconds"}
PublicEndpoints ==
  Revision(<<Add("endpoints", EndpointColumns),
             Create("api_keys", Owned("ix_api_keys_project_id")
                                  \cup {"key_id", "endpoints", "units_per_minute", "secret_hash", "created_by",
                                        "expires_at", "revoked_at", "last_used_at", "unique key_id", "uq_api_keys_name"},
                    {OfProject})>>,
           <<Drop("api_keys"), TakeAway("endpoints", EndpointColumns)>>)

Llms == Additions(<<"projects", "models", "model_versions", "deployment_revisions">>,
  <<{"gpu_quota"}, {"kind", "llm_gpus", "llm_context_length"}, {"source_uri", "metrics"},
    {"runtime", "gpus", "context_length"}>>)

FunctionSettings == Additions(<<"models", "deployment_revisions">>, <<{"function_settings"}, {"function_settings"}>>)

NotificationReads ==
  Revision(<<Create("notification_reads", {"username", "notification_id", "read_at"}, {})>>,
           <<Drop("notification_reads")>>)

RunDeadlines == Additions(<<"job_definitions", "runs", "pipeline_runs">>,
  <<{"timeout_seconds"}, {"timeout_seconds"}, {"timeout_seconds"}>>)

WorkflowRetention == Additions(<<"runs", "pipeline_runs">>,
  <<{"workflow_cleaned_at", "ix_runs_retention"}, {"workflow_cleaned_at", "ix_pipeline_runs_retention"}>>)

WorkloadSecretRefs == Additions(<<"job_definitions", "models", "deployment_revisions">>,
  <<{"secret_refs"}, {"secret_refs"}, {"secret_refs"}>>)

SharedLimits ==
  Revision(<<Create("gateway_rate_buckets", {"name", "tokens", "updated_at"}, {})>>, <<Drop("gateway_rate_buckets")>>)

ReplicaReservations == Additions(<<"models", "deployment_revisions">>,
  <<{"llm_min_scale", "llm_max_scale"}, {"min_scale", "max_scale"}>>)

PipelineDiscovery == Additions(<<"pipeline_runs">>,
  <<{"models_discovered_at", "model_discovery_checked_at", "ix_pipeline_runs_discovery"}>>)

AppendOnly == "mlp_audit_append_only"
AuditAppendOnly == Additions(<<"audit_events">>, <<{AppendOnly}>>)

ActiveRolloutVersion ==
  Revision(<<Validate("rollouts"), Add("rollouts", {"uq_rollouts_one_active_version"})>>,
           <<TakeAway("rollouts", {"uq_rollouts_one_active_version"})>>)

Schedules ==
  Revision(<<Create("schedules", Owned("ix_schedules_project_id")
                                   \cup {"spec", "paused", "revision", "next_run_at", "updated_at", "uq_schedules_name",
                                         "ix_schedules_due"}, {OfProject}),
             Create("schedule_executions",
                    {"id", "schedule_id", "project_id", "scheduled_for_utc", "resolved_definition_id", "spec", "status",
                     "pipeline_run_id", "job_run_id", "reason", "expires_at", "uq_schedule_occurrence",
                     "uq_schedule_pipeline_run", "uq_schedule_job_run", "ck_schedule_execution_status",
                     "ck_schedule_execution_run", "ix_schedule_executions_schedule_id",
                     "ix_schedule_executions_project_id", "ix_schedule_executions_pipeline_run_id",
                     "ix_schedule_executions_job_run_id", "ix_schedule_executions_queue"} \cup Times,
                    {OfProject, Ref("schedule_id", "schedules"), Ref("pipeline_run_id", "pipeline_runs"),
                     Ref("job_run_id", "runs")}),
             Grant("api", {"SELECT", "INSERT", "UPDATE"}, "schedules"),
             Grant("api", {"SELECT", "INSERT"}, "schedule_executions"),
             Grant("reconciler", {"SELECT", "INSERT", "UPDATE"}, "schedules"),
             Grant("reconciler", {"SELECT", "INSERT", "UPDATE"}, "schedule_executions")>>,
           <<Drop("schedule_executions"), Drop("schedules")>>)

RunParameters == Additions(<<"job_definitions", "pipeline_definitions", "runs", "pipeline_runs">>,
  <<{"parameter_schema"}, {"parameter_schema"}, {"parameters"}, {"parameters"}>>)

DataCatalog ==
  Revision(<<Create("data_connections", Owned("ix_data_connections_project_id")
                      \cup {"spec", "uq_data_connection_name", "uq_data_connection_project_identity"}, {OfProject}),
             Create("dataset_versions", Owned("ix_dataset_versions_project_id")
                      \cup {"connection_id", "version", "spec", "producer_run_id", "producer_pipeline_run_id",
                            "uq_dataset_version", "ck_dataset_version_positive", "ck_dataset_one_producer",
                            "ix_dataset_versions_connection_id"},
                    {OfProject, Ref("producer_run_id", "runs"), Ref("producer_pipeline_run_id", "pipeline_runs"),
                     <<"connection_id", "data_connections", "uq_data_connection_project_identity">>})>>
             \o ToEach(LAMBDA x : Grant(x[1], {"SELECT", "INSERT"}, x[2]),
                       <<<<"api", "data_connections">>, <<"api", "dataset_versions">>,
                         <<"reconciler", "data_connections">>, <<"reconciler", "dataset_versions">>>>),
           <<Drop("dataset_versions"), Drop("data_connections")>>)

BatchInference == Additions(<<"job_definitions">>, <<{"batch_spec"}>>)

ModelMonitoring ==
  Revision(<<Add("job_definitions", {"monitoring_spec"}),
             Create("monitoring_reports",
                    {"id", "project_id", "job_definition_id", "model_version_id", "reference_dataset_id",
                     "observed_dataset_id", "feedback_dataset_id", "job_run_id", "pipeline_run_id", "model_name",
                     "model_version", "check_name", "step", "status", "result", "created_at",
                     "uq_monitoring_job_occurrence", "uq_monitoring_pipeline_occurrence", "ck_monitoring_one_producer",
                     "ix_monitoring_reports_project_id", "ix_monitoring_reports_job_definition_id",
                     "ix_monitoring_reports_model_version_id", "ix_monitoring_reports_reference_dataset_id",
                     "ix_monitoring_reports_observed_dataset_id", "ix_monitoring_project_created",
                     "ix_monitoring_model_version"},
                    {OfProject, Ref("job_definition_id", "job_definitions"), Ref("model_version_id", "model_versions"),
                     Ref("reference_dataset_id", "dataset_versions"), Ref("observed_dataset_id", "dataset_versions"),
                     Ref("feedback_dataset_id", "dataset_versions"), Ref("job_run_id", "runs"),
                     Ref("pipeline_run_id", "pipeline_runs")}),
             Grant("api", {"SELECT"}, "monitoring_reports"),
             Grant("reconciler", {"SELECT", "INSERT"}, "monitoring_reports")>>,
           <<Drop("monitoring_reports"), TakeAway("job_definitions", {"monitoring_spec"})>>)

\* The key (id, project_id) that ties a row to its project.
ProjectKey == [job_definitions |-> "uq_job_definitions_id_project", dataset_versions |-> "uq_dataset_versions_id_project",
               runs |-> "uq_runs_id_project", pipeline_runs |-> "uq_pipeline_runs_id_project",
               models |-> "uq_models_id_project"]
InProject(name, table) == <<name, table, ProjectKey[table]>>
ReportRefs ==
  {InProject("fk_monitoring_job_definition_id_project", "job_definitions"),
   InProject("fk_monitoring_reference_dataset_id_project", "dataset_versions"),
   InProject("fk_monitoring_observed_dataset_id_project", "dataset_versions"),
   InProject("fk_monitoring_feedback_dataset_id_project", "dataset_versions"),
   InProject("fk_monitoring_job_run_id_project", "runs"), InProject("fk_monitoring_pipeline_run_id_project", "pipeline_runs"),
   InProject("fk_monitoring_model_id_project", "models"),
   <<"fk_monitoring_version_model", "model_versions", "uq_model_versions_id_model">>}
ProjectParents == <<"job_definitions", "dataset_versions", "runs", "pipeline_runs", "models">>
\* The downgrade that leaves the keys of the parents.
MonitoringProjectIntegrity_Keyed ==
  Revision(ToEach(LAMBDA t : Add(t, {ProjectKey[t]}), ProjectParents)
             \o <<Add("model_versions", {"uq_model_versions_id_model"}), Add("monitoring_reports", {"model_id"}),
                  Validate("reports"), Refer("monitoring_reports", ReportRefs)>>,
           <<Unrefer("monitoring_reports", ReportRefs), TakeAway("monitoring_reports", {"model_id"}),
             TakeAway("model_versions", {"uq_model_versions_id_model"})>>)

MonitoringProjectIntegrity ==
  Revision(ToEach(LAMBDA t : Add(t, {ProjectKey[t]}), ProjectParents)
             \o <<Add("model_versions", {"uq_model_versions_id_model"}), Add("monitoring_reports", {"model_id"}),
                  Validate("reports"), Refer("monitoring_reports", ReportRefs)>>,
           <<Unrefer("monitoring_reports", ReportRefs), TakeAway("monitoring_reports", {"model_id"}),
             TakeAway("model_versions", {"uq_model_versions_id_model"})>>
             \o ToEach(LAMBDA t : TakeAway(t, {ProjectKey[t]}), ProjectParents))

BatchExecutionSnapshots == Additions(<<"runs", "pipeline_runs", "dataset_versions">>,
  <<{"batch_snapshot"}, {"batch_snapshots"}, {"ix_dataset_processing_date"}>>)

Producers == {InProject("fk_dataset_producer_run_project", "runs"),
              InProject("fk_dataset_producer_pipeline_project", "pipeline_runs")}
DatasetProducerIntegrity ==
  Revision(<<Validate("producers"), Refer("dataset_versions", Producers)>>, <<Unrefer("dataset_versions", Producers)>>)

PublicationEvents ==
  Create("dataset_publication_events",
         {"id", "project_id", "dataset_id", "created_at", "processed_at", "unique dataset_id",
          "uq_dataset_event_id_project", "ix_dataset_events_pending", "ix_dataset_publication_events_project_id"},
         {OfProject, InProject("fk_dataset_event_project", "dataset_versions")})

MonitoringRules ==
  Create("monitoring_rules", Owned("ix_monitoring_rules_project_id") \cup
         {"model_id", "model_version_id", "reference_dataset_id", "observed_dataset_name", "feedback_dataset_name",
          "options", "image", "feedback_deadline_seconds", "enabled", "revision", "updated_at",
          "ck_monitoring_feedback_deadline", "ck_monitoring_rule_revision", "uq_monitoring_rule_id_project",
          "uq_monitoring_rule_name"},
         {OfProject, InProject("fk_monitoring_rule_model_project", "models"),
          <<"fk_monitoring_rule_version", "model_versions", "uq_model_versions_id_model">>,
          InProject("fk_monitoring_rule_reference", "dataset_versions")})

MonitoringExecutions ==
  Create("monitoring_executions",
         {"id", "project_id", "rule_id", "event_id", "observed_dataset_id", "snapshot", "status", "reason",
          "job_definition_id", "job_run_id", "deadline_at", "next_attempt_at", "ck_monitoring_execution_dispatched",
          "ck_monitoring_execution_status", "uq_monitoring_execution_run", "uq_monitoring_rule_occurrence",
          "ix_monitoring_execution_pending", "ix_monitoring_execution_rule_created",
          "ix_monitoring_executions_project_id"} \cup Times,
         {OfProject, <<"fk_monitoring_execution_event", "dataset_publication_events", "uq_dataset_event_id_project">>,
          InProject("fk_monitoring_execution_job", "job_definitions"), InProject("fk_monitoring_execution_run", "runs"),
          InProject("fk_monitoring_execution_observed", "dataset_versions"),
          <<"fk_monitoring_execution_rule", "monitoring_rules", "uq_monitoring_rule_id_project">>})

MonitoringAutomation ==
  Revision(<<PublicationEvents, MonitoringRules, MonitoringExecutions,
             Grant("api", {"SELECT", "INSERT", "UPDATE"}, "monitoring_rules"),
             Grant("api", {"SELECT", "INSERT"}, "dataset_publication_events"),
             Grant("api", {"SELECT"}, "monitoring_executions"), Grant("reconciler", {"SELECT"}, "monitoring_rules"),
             Grant("reconciler", {"INSERT"}, "job_definitions"),
             Grant("reconciler", {"SELECT", "INSERT", "UPDATE"}, "dataset_publication_events"),
             Grant("reconciler", {"SELECT", "INSERT", "UPDATE"}, "monitoring_executions")>>,
           ToEach(Drop, <<"monitoring_executions", "monitoring_rules", "dataset_publication_events">>))

Revisions == <<
  InitialSchema, ProjectStatusReason, Runs, PipelineRuns, Models, Deployments, Rollouts, TraceContext, Memberships,
  PublicEndpoints, Llms, FunctionSettings, NotificationReads, RunDeadlines, WorkflowRetention, WorkloadSecretRefs,
  SharedLimits, ReplicaReservations, PipelineDiscovery, AuditAppendOnly, ActiveRolloutVersion, Schedules, RunParameters,
  DataCatalog, BatchInference, ModelMonitoring, MonitoringProjectIntegrity, BatchExecutionSnapshots,
  DatasetProducerIntegrity, MonitoringAutomation>>

\* alembic's way from the revision the database is at: revision by revision, up or down.
Migrated(d, to) ==
  LET ups   == [n \in 1..(to - d.revision) |-> Revisions[d.revision + n].up]
      downs == [n \in 1..(d.revision - to) |-> Revisions[d.revision - n + 1].down]
      path  == IF to > d.revision THEN ups ELSE downs
      at[n \in 0..Len(path)] ==
        IF n = 0 THEN d ELSE CHOOSE z \in {FoldLeft(Executed, y, path[n]) : y \in {at[n - 1]}} : TRUE
  IN  [at[Len(path)] EXCEPT !.revision = to]

\* The database that an upgrade of an empty one to each revision makes.
Fresh(n) == Migrated(Empty, n)

-----------------------------------------------------------------------------
(* The grants of persistence/security.py.                                              *)

API_TABLES ==
  {"schedules", "schedule_executions", "data_connections", "dataset_versions", "monitoring_reports",
   "dataset_publication_events", "monitoring_rules", "monitoring_executions", "projects", "job_definitions", "runs",
   "pipeline_definitions", "pipeline_runs", "step_runs", "models", "model_versions", "evaluations", "promotions",
   "deployments", "deployment_revisions", "rollouts", "endpoints", "api_keys", "memberships", "notification_reads"}
RECONCILER_TABLES ==
  {"schedules", "schedule_executions", "dataset_publication_events", "monitoring_executions", "projects", "runs",
   "pipeline_runs", "step_runs", "models", "model_versions", "evaluations", "promotions", "deployments",
   "deployment_revisions", "rollouts", "endpoints"}
GATEWAY_TABLES ==
  {"projects", "endpoints", "deployments", "deployment_revisions", "rollouts", "models", "model_versions", "api_keys",
   "memberships"}

Reported == {"monitoring_reports", "monitoring_executions"}
Immutable ==
  {"job_definitions", "pipeline_definitions", "data_connections", "dataset_versions", "monitoring_reports",
   "monitoring_executions", "dataset_publication_events", "deployment_revisions", "promotions", "notification_reads"}

Manifest ==
  ({"api"} \X {"SELECT", "INSERT"} \X ((API_TABLES \ Reported) \cup {"audit_events"}))
    \cup ({"api"} \X {"SELECT"} \X Reported)
    \cup ({"api"} \X {"UPDATE"} \X (API_TABLES \ Immutable))
    \cup {<<"api", "DELETE", "memberships">>}
    \cup ({"reconciler"} \X {"SELECT"} \X
            ((API_TABLES \ {"api_keys", "memberships", "notification_reads"}) \cup {"audit_events"}))
    \cup ({"reconciler"} \X {"INSERT", "UPDATE"} \X RECONCILER_TABLES)
    \cup ({"reconciler"} \X {"INSERT"} \X
            {"job_definitions", "data_connections", "dataset_versions", "monitoring_reports", "audit_events"})
    \cup ({"gateway"} \X {"SELECT"} \X GATEWAY_TABLES)
    \cup ({"gateway"} \X {"SELECT", "INSERT", "UPDATE"} \X {"gateway_rate_buckets"})
    \cup {<<"gateway", "UPDATE of last_used_at", "api_keys">>}

\* What remains of the grants there are: REVOKE ALL, from the roles and from their users.
Remaining_All(grants) == grants
Remaining(grants) == {}

Configured(d) ==
  [d EXCEPT !.roles = TRUE, !.grants = Remaining(d.grants) \cup Manifest,
            !.ok = \A g \in Manifest : Has(d, g[3])]

\* What a component requires of its role when it starts, and its readiness probe later.
RuntimeRole(d, component) ==
  LET may(privilege, table) == <<component, privilege, table>> \in d.grants
  IN  /\ d.roles
      /\ \A p \in {"UPDATE", "DELETE", "TRUNCATE"} : ~ may(p, "audit_events")
      /\ component = "gateway" =>
           /\ ~ may("SELECT", "audit_events") /\ ~ may("SELECT", "job_definitions")
           /\ \A p \in {"INSERT", "UPDATE", "DELETE"} : ~ may(p, "memberships")
           /\ ~ may("UPDATE", "api_keys")

\* The tables that came after the roles, and what is done with them: by the repositories of
\* schedules, of the data catalog, and of monitoring, on behalf of each component. FOR UPDATE
\* takes UPDATE.
ScheduleCalls ==
  ({"api", "reconciler"} \X {"SELECT", "UPDATE"} \X {"schedules"})
    \cup {<<"api", "INSERT", "schedules">>, <<"api", "SELECT", "schedule_executions">>}
    \cup ({"reconciler"} \X {"SELECT", "INSERT", "UPDATE"} \X {"schedule_executions"})
CatalogCalls ==
  ({"api"} \X {"SELECT", "INSERT"} \X {"data_connections"})
    \cup ({"api", "reconciler"} \X {"SELECT", "INSERT"} \X {"dataset_versions"})
    \cup ({"api", "reconciler"} \X {"INSERT"} \X {"dataset_publication_events"})
MonitoringCalls ==
  ({"api"} \X {"SELECT", "INSERT", "UPDATE"} \X {"monitoring_rules"})
    \cup ({"api"} \X {"SELECT"} \X Reported)
    \cup ({"reconciler"} \X {"SELECT"} \X {"monitoring_rules"})
    \cup ({"reconciler"} \X {"SELECT", "UPDATE"} \X {"dataset_publication_events"})
    \cup ({"reconciler"} \X {"SELECT", "INSERT", "UPDATE"} \X {"monitoring_executions"})
    \cup ({"reconciler"} \X {"INSERT"} \X {"monitoring_reports", "job_definitions"})
LaterCalls == ScheduleCalls \cup CatalogCalls \cup MonitoringCalls

-----------------------------------------------------------------------------
Init ==
  /\ db \in {Fresh(n) : n \in Targets}
  /\ lock = [m \in Migrators |-> Nothing]
  /\ dba = FALSE /\ applied = FALSE /\ strange = {} /\ steps = 0

Acts == steps < MaxSteps /\ steps' = steps + 1
Free == \A m \in Migrators : lock[m] = Nothing

\* One transaction: the advisory lock first, or an error when another has it.
Begin(m, to) ==
  /\ lock[m] = Nothing /\ Acts
  /\ lock' = IF Free THEN [lock EXCEPT ![m] = to] ELSE lock
  /\ UNCHANGED <<db, dba, applied, strange>>

\* All revisions on the way, and the commit; or the first error, and nothing.
Finish(m) ==
  /\ lock[m] # Nothing
  /\ LET d == Migrated(db, lock[m]) IN
       /\ db' = IF d.ok THEN d ELSE db
       /\ applied' = (applied /\ db' = db)
       /\ strange' = IF d.ok THEN strange \cap d.grants ELSE strange
  /\ lock' = [lock EXCEPT ![m] = Nothing]
  /\ UNCHANGED <<dba, steps>>

Crash(m) ==
  /\ lock[m] # Nothing
  /\ lock' = [lock EXCEPT ![m] = Nothing]
  /\ UNCHANGED <<db, dba, applied, strange, steps>>

\* configure_roles: the readiness check, and then the grants in a transaction of their own,
\* which waits for a migration under way.
CheckHead ==
  /\ ~ dba /\ Acts
  /\ dba' = (db.revision = Head0030)
  /\ UNCHANGED <<db, lock, applied, strange>>

Configure ==
  /\ dba /\ Free
  /\ dba' = FALSE
  /\ IF Configured(db).ok
     THEN db' = Configured(db) /\ applied' = TRUE /\ strange' = {}
     ELSE UNCHANGED <<db, applied, strange>>
  /\ UNCHANGED <<lock, steps>>

\* Other people's grants, and rows that no constraint refuses yet.
GrantMore(g) ==
  /\ db.roles /\ Has(db, g[3]) /\ g \notin db.grants /\ Acts
  /\ db' = [db EXCEPT !.grants = @ \cup {g}]
  /\ strange' = strange \cup {g}
  /\ UNCHANGED <<lock, dba, applied>>

RefusedFrom == [rollouts |-> 21, reports |-> 27, producers |-> 29]
WriteStray(s) ==
  /\ Has(db, StrayIn[s]) /\ db.revision < RefusedFrom[s] /\ Acts
  /\ db' = [db EXCEPT !.stray = @ \cup {s}]
  /\ UNCHANGED <<lock, dba, applied, strange>>
MendStray(s) ==
  /\ s \in db.stray
  /\ db' = [db EXCEPT !.stray = @ \ {s}]
  /\ UNCHANGED <<lock, dba, applied, strange, steps>>

Excess == {<<"api", "DELETE", "audit_events">>, <<"gateway", "SELECT", "job_definitions">>, <<"gateway", "UPDATE", "api_keys">>}

Next ==
  \/ \E m \in Migrators : (\E to \in Targets : Begin(m, to)) \/ Finish(m) \/ Crash(m)
  \/ CheckHead \/ Configure
  \/ \E g \in Excess : GrantMore(g)
  \/ \E s \in DOMAIN StrayIn : WriteStray(s) \/ MendStray(s)
Spec == Init /\ [][Next]_vars

-----------------------------------------------------------------------------
\* Whatever way an installation went up and down, its schema is the one that an upgrade of an
\* empty database to its revision makes, or it could not go up again.
SchemaIsKept ==
  LET fresh == Fresh(db.revision) IN db.tables = fresh.tables /\ db.refs = fresh.refs

\* At the head each component may do what its calls on the later tables need, also when the
\* revisions alone granted it, and apart from what others granted nobody may do more than the
\* manifest says; once the manifest is applied, all of it and nothing else.
GrantsAreKept ==
  db.revision = Head0030 /\ db.roles =>
    /\ LaterCalls \subseteq db.grants
    /\ db.grants \subseteq Manifest \cup strange
    /\ applied => Manifest \subseteq db.grants
    /\ applied /\ strange = {} => \A c \in Components : RuntimeRole(db, c)

DatabaseIsKept == SchemaIsKept /\ GrantsAreKept
=============================================================================
