------------------------------- MODULE SqlTables -------------------------------
(* The PostgreSQL store: for each table its columns and unique constraints (the      *)
(* *Row definitions), what its repository writes (the Sql* definitions), and what it *)
(* answers to a select.  A table is a set of rows.  The answer to a select is the    *)
(* set of the sequences the database may return: rows that the ORDER BY does not     *)
(* tell apart come in any order.                                                     *)
EXTENDS Entities, Sequences, FiniteSets, SequencesExt

\* No two rows agree on all of `on`, none of them NULL, among those with a status in `when`.
Unique(on, when) == [on |-> on, when |-> when]
Always == {}
Table(columns, unique) == [columns |-> columns \union {"id", "created"}, unique |-> unique]

ProjectRow  == Table({"name", "status", "reason", "quota", "updated"}, {Unique({"name"}, Always)})
JobDefinitionRow == Table({"project", "name"}, {Unique({"project", "name"}, Always)})
RunRow      == Table({"project", "job", "key", "status", "reason", "exit", "ref", "cancel", "updated",
                      "started", "finished", "cleaned"}, {Unique({"project", "key"}, Always)})
PipelineDefinitionRow ==
  Table({"project", "name", "version"}, {Unique({"project", "name", "version"}, Always)})
PipelineRunRow ==
  Table({"project", "definition", "key", "status", "reason", "ref", "cancel", "updated", "started", "finished",
         "cleaned", "discovered", "checked"}, {Unique({"project", "key"}, Always)})
StepRunRow  == Table({"run", "step", "status", "reason", "exit", "updated", "started", "finished"},
                     {Unique({"run", "step"}, Always)})
ModelRow    == Table({"project", "name", "thresholds", "drift"}, {Unique({"project", "name"}, Always)})
ModelVersionRow ==
  Table({"model", "version", "ref", "status", "updated"},
        {Unique({"model", "version"}, Always), Unique({"model", "ref"}, Always), Unique({"model"}, {"CHAMPION"})})
EvaluationRow == Table({"version", "status", "metrics", "checks", "updated"}, {})
PromotionRow  == Table({"version", "status", "updated"}, {})
DeploymentRow ==
  Table({"project", "name", "status", "reason", "desired", "active", "trace", "updated"},
        {Unique({"project", "name"}, Always)})
DeploymentRevisionRow == Table({"deployment", "revision"}, {Unique({"deployment", "revision"}, Always)})
RolloutRow  ==
  Table({"deployment", "version", "status", "reason", "step", "since", "abort", "updated", "finished"},
        {Unique({"deployment"}, {"PENDING", "PROGRESSING"}), Unique({"version"}, {"PENDING", "PROGRESSING"})})
EndpointRow ==
  Table({"project", "deployment", "name", "status", "url", "kind", "protocol", "exposure", "limits", "updated"},
        {Unique({"project", "name"}, Always)})
ApiKeyRow   == Table({"project", "name", "endpoints", "units", "expires", "revoked", "used"},
                     {Unique({"project", "name"}, Always)})
MembershipRow == Table({"project", "subject", "role", "updated"}, {Unique({"project", "subject"}, Always)})
AuditEventRow == Table({"project", "entity", "action"}, {})

-----------------------------------------------------------------------------
(* Writes.                                                                       *)

Covers(u, r) == (\A c \in u.on : r[c] # 0) /\ (u.when = Always \/ r.status \in u.when)

Violates(table, rows, e) ==
  \E u \in table.unique : Covers(u, e) /\ \E r \in rows :
    r.id # e.id /\ Covers(u, r) /\ \A c \in u.on : r[c] = e[c]

\* What is kept of the columns in `some`.
Only(some, e) == [c \in DOMAIN e |-> IF c \in some THEN e[c] ELSE 0]

\* UPDATE ... SET `sets` WHERE id = ... AND `where`.
Update(sets, where) == [sets |-> sets, where |-> where, quiet |-> FALSE]
\* One whose callers do not mind that no row meets its condition.
Quietly(sets, where) == [sets |-> sets, where |-> where, quiet |-> TRUE]

\* A write by id alone.
Meets_Unguarded(where, r, seen) ==
  CASE where \in {"id", "status"} -> TRUE
    [] where = "undiscovered" -> r.status = "SUCCEEDED" /\ r.discovered = 0
    [] where = "unlimited"    -> r.limits = 0 /\ r.updated = seen.updated

\* Whether the row `r` meets the condition, `seen` being what the caller read.
Meets(where, r, seen) ==
  CASE where = "id"           -> TRUE
    [] where = "status"       -> r.status = seen.status
    [] where = "undiscovered" -> r.status = "SUCCEEDED" /\ r.discovered = 0
    [] where = "unlimited"    -> r.limits = 0 /\ r.updated = seen.updated

Assigned(w, r, e) == [c \in DOMAIN r |-> IF c \in w.sets THEN e[c] ELSE r[c]]

\* What a repository does with its table, besides selecting from it.
Repository(table, writes) == [table |-> table, add |-> table.columns, read |-> table.columns, writes |-> writes]
None == [none |-> Update({}, "id")]

SqlProjects == Repository(ProjectRow, [update |-> Update({"status", "reason", "quota", "updated"}, "status")])
SqlJobs == Repository(JobDefinitionRow, None)
SqlRuns == Repository(RunRow,
  [update |-> Update({"status", "reason", "exit", "ref", "cancel", "updated", "started", "finished", "cleaned"},
                     "status")])
SqlPipelines == Repository(PipelineDefinitionRow, None)
SqlPipelineRuns == Repository(PipelineRunRow,
  [update |-> Update({"status", "reason", "ref", "cancel", "updated", "started", "finished", "cleaned"}, "status"),
   mark_model_discovery |-> Quietly({"checked", "discovered"}, "undiscovered")])
SqlStepRuns == Repository(StepRunRow,
  [update |-> Update({"status", "reason", "exit", "updated", "started", "finished"}, "status")])
SqlModels == Repository(ModelRow,
  [update_thresholds |-> Update({"thresholds"}, "id"), update_alias_drift |-> Update({"drift"}, "id")])
SqlModelVersions == Repository(ModelVersionRow, [update |-> Update({"status", "updated"}, "status")])
SqlEvaluations == Repository(EvaluationRow, [update |-> Update({"status", "metrics", "checks", "updated"}, "status")])
SqlPromotions == Repository(PromotionRow, None)
SqlDeployments == Repository(DeploymentRow,
  [update |-> Update({"status", "reason", "desired", "trace", "active", "updated"}, "status")])
SqlRevisions == Repository(DeploymentRevisionRow, None)

EndpointValues == {"status", "url", "kind", "protocol", "exposure", "limits", "updated"}
\* The life cycle written with all of the endpoint.
SqlEndpoints_AllOfIt == Repository(EndpointRow,
  [update_lifecycle  |-> Update(EndpointValues, "status"),
   initialize_limits |-> Quietly({"limits"}, "unlimited"),
   update_access     |-> Update({"exposure", "limits", "updated"}, "id")])

SqlEndpoints == Repository(EndpointRow,
  [update_lifecycle  |-> Update(EndpointValues \ {"exposure", "limits"}, "status"),
   initialize_limits |-> Quietly({"limits"}, "unlimited"),
   update_access     |-> Update({"exposure", "limits", "updated"}, "id")])

SqlRollouts == Repository(RolloutRow,
  [update |-> Update({"status", "reason", "step", "since", "abort", "updated", "finished"}, "status")])
SqlAudit == Repository(AuditEventRow, None)
SqlMemberships == Repository(MembershipRow, [update |-> Update({"role", "updated"}, "id")])
SqlApiKeys == Repository(ApiKeyRow,
  [update |-> Update({"endpoints", "units", "expires", "revoked", "used"}, "id"), touch |-> Quietly({"used"}, "id")])

\* The repositories of a unit of work.
Sql ==
  [projects |-> SqlProjects, jobs |-> SqlJobs, runs |-> SqlRuns, pipelines |-> SqlPipelines,
   pipeline_runs |-> SqlPipelineRuns, step_runs |-> SqlStepRuns, models |-> SqlModels,
   model_versions |-> SqlModelVersions, evaluations |-> SqlEvaluations, promotions |-> SqlPromotions,
   deployments |-> SqlDeployments, revisions |-> SqlRevisions, endpoints |-> SqlEndpoints,
   rollouts |-> SqlRollouts, audit |-> SqlAudit, memberships |-> SqlMemberships, api_keys |-> SqlApiKeys]

-----------------------------------------------------------------------------
(* Selects.                                                                      *)

\* The lexicographic order of sequences of numbers.
Before(a, b) == \E n \in DOMAIN a : a[n] < b[n] /\ \A m \in 1..(n - 1) : a[m] = b[m]

\* ORDER BY: the sequences of `rows` in which none comes after one with a smaller key.
OrderBy(rows, key) ==
  {s \in SetToSeqs(rows) : \A i, j \in DOMAIN s : i < j => ~ Before(key[s[j]], key[s[i]])}

\* A bound on all times and numbers, to sort by descending ones.
Most == 99
Oldest(rows) == OrderBy(rows, [r \in rows |-> <<r.created, r.id>>])
Newest(rows) == OrderBy(rows, [r \in rows |-> <<Most - r.created, Most - r.id>>])
Coalesce(a, b) == IF a # 0 THEN a ELSE b

Upto(s, n) == IF n < Len(s) THEN n ELSE Len(s)
Page(lists, q) == {SubSeq(s, q.offset + 1, Upto(s, q.offset + q.limit)) : s \in lists}
Limited(lists, q) == {SubSeq(s, 1, Upto(s, q.limit)) : s \in lists}
\* .first()
First(lists) == {IF s = <<>> THEN <<>> ELSE <<Head(s)>> : s \in lists}
AnyOrder(rows) == SetToSeqs(rows)
Largest(S) == {<<IF S = {} THEN 1 ELSE 1 + CHOOSE n \in S : \A m \in S : m <= n>>}

Ended == {"SUCCEEDED", "FAILED", "CANCELLED"}
Active == {"PENDING", "PROGRESSING"}
Of(rows, column, n) == {r \in rows : r[column] = n}
Named(rows, q) == {r \in rows : r.project = q.project /\ r.name = q.name}

\* `q` holds the arguments of a select.
ProjectSelects(rows, q) ==
  LET live == Oldest({r \in rows : r.status # "DELETED"})
  IN  [get_by_name |-> First(AnyOrder(Of(rows, "name", q.name))), list |-> Page(live, q), list_reconcilable |-> live]

JobSelects(rows, q) ==
  [get_by_name |-> First(AnyOrder(Named(rows, q))), list |-> Oldest(Of(rows, "project", q.project))]

\* What `list` of runs and of pipeline runs has in common.
Recent(rows, q) ==
  {r \in Of(rows, "project", q.project) :
     (q.since # 0 => Coalesce(r.finished, r.updated) >= q.since) /\ (q.statuses # {} => r.status \in q.statuses)}

RunSelects(rows, q) ==
  LET cleanup == {r \in rows : r.status \in Ended /\ r.finished # 0 /\ r.finished < q.before
                                /\ r.ref # 0 /\ r.cleaned = 0}
  IN  [get_by_idempotency_key |-> First(AnyOrder({r \in Of(rows, "project", q.project) : r.key # 0 /\ r.key = q.name})),
       list |-> Page(Newest({r \in Recent(rows, q) : q.parent # 0 => r.job = q.parent}), q),
       count |-> {<<Cardinality(Of(rows, "project", q.project))>>},
       list_active |-> Oldest({r \in rows : r.status \notin Ended}),
       list_cleanup_candidates |-> Limited(OrderBy(cleanup, [r \in cleanup |-> <<r.finished, r.id>>]), q)]

PipelineSelects(rows, q) ==
  LET named == {r \in Named(rows, q) : q.version # 0 => r.version = q.version}
      mine  == Of(rows, "project", q.project)
      names == {r.name : r \in mine}
      latest(n) == CHOOSE r \in mine : r.name = n /\ \A s \in mine : s.name = n => s.version <= r.version
      newest == {latest(n) : n \in names}
  IN  [get_version |-> First(OrderBy(named, [r \in named |-> <<Most - r.version>>])),
       list_latest |-> OrderBy(newest, [r \in newest |-> <<r.name>>])]

PipelineRunSelects(rows, q) ==
  LET cleanup == {r \in rows : r.status \in Ended /\ r.finished # 0 /\ r.finished < q.before
                                /\ r.ref # 0 /\ r.cleaned = 0}
      due == {r \in rows : /\ r.status = "SUCCEEDED" /\ r.discovered = 0 /\ r.finished # 0 /\ r.finished <= q.before
                           /\ r.checked = 0 \/ r.checked <= q.before}
  IN  [get_by_idempotency_key |-> First(AnyOrder({r \in Of(rows, "project", q.project) : r.key # 0 /\ r.key = q.name})),
       list |-> Page(Newest({r \in Recent(rows, q) : q.parent # 0 => r.definition = q.parent}), q),
       count |-> {<<Cardinality(Of(rows, "project", q.project))>>},
       list_discovery_candidates |-> Limited(OrderBy(due, [r \in due |-> <<Coalesce(r.checked, r.finished), r.id>>]), q),
       list_active |-> Oldest({r \in rows : r.status \notin Ended}),
       list_cleanup_candidates |-> Limited(OrderBy(cleanup, [r \in cleanup |-> <<r.finished, r.id>>]), q)]

StepRunSelects(rows, q) ==
  LET mine == Of(rows, "run", q.parent)
  IN  [list |-> OrderBy(mine, [r \in mine |-> <<r.created, r.step>>])]

ModelSelects(rows, q) ==
  [get_by_name |-> First(AnyOrder(Named(rows, q))), list |-> Oldest(Of(rows, "project", q.project)),
   list_all |-> Oldest(rows)]

ModelVersionSelects(rows, q) ==
  LET mine == Of(rows, "model", q.parent)
  IN  [get_by_ref |-> First(AnyOrder({r \in mine : r.ref # 0 /\ r.ref = q.name})),
       list |-> OrderBy(mine, [r \in mine |-> <<r.version>>]),
       next_version |-> Largest({r.version : r \in mine}),
       get_champion |-> First(AnyOrder(Of(mine, "status", "CHAMPION")))]

EvaluationSelects(rows, q) == [list_for_version |-> Oldest(Of(rows, "version", q.version))]
PromotionSelects(rows, q)  == [list_for_versions |-> Oldest({r \in rows : r.version \in {q.version, q.parent}})]

DeploymentSelects(rows, q) ==
  [get_by_name |-> First(AnyOrder(Named(rows, q))), list |-> Oldest(Of(rows, "project", q.project)),
   list_reconcilable |->
     Oldest({r \in rows : r.status = "DELETING" \/ (r.desired # 0 /\ r.status # "DELETED")})]

RevisionSelects(rows, q) ==
  LET mine == Of(rows, "deployment", q.parent)
  IN  [get |-> First(AnyOrder(Of(mine, "revision", q.version))),
       list |-> OrderBy(mine, [r \in mine |-> <<r.revision>>]),
       next_revision |-> Largest({r.revision : r \in mine})]

EndpointSelects(rows, q) ==
  [get_by_deployment |-> First(AnyOrder(Of(rows, "deployment", q.parent))),
   get_by_name |-> First(AnyOrder(Named(rows, q)))]

RolloutSelects(rows, q) ==
  LET active == {r \in rows : r.status \in Active}
  IN  [get_active |-> First(AnyOrder(Of(active, "deployment", q.parent))),
       get_active_by_version |-> First(AnyOrder(Of(active, "version", q.version))),
       list |-> Newest(Of(rows, "deployment", q.parent)), list_active |-> Oldest(active)]

AuditSelects(rows, q) ==
  LET mine == {r \in Of(rows, "project", q.project) : r.entity = q.parent /\ r.action = q.name}
  IN  [latest |-> First(Newest(mine)),
       list |-> Oldest({r \in rows : (q.project # 0 => r.project = q.project) /\ (q.parent # 0 => r.entity = q.parent)})]

MembershipSelects(rows, q) ==
  LET mine == Of(rows, "project", q.project)
  IN  [get |-> First(AnyOrder(Of(mine, "subject", q.name))),
       list |-> OrderBy(mine, [r \in mine |-> <<r.subject>>]),
       list_for_subjects |-> AnyOrder({r \in rows : r.subject \in {q.name, q.parent}})]

ApiKeySelects(rows, q) ==
  LET mine == Of(rows, "project", q.project)
  IN  [list |-> OrderBy(mine, [r \in mine |-> <<Most - r.created>>])]
=============================================================================
