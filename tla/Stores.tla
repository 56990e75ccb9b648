------------------------------- MODULE Stores -------------------------------
(* The two stores behind the unit of work, PostgreSQL and memory, given the same     *)
(* calls.  The application runs on the first and its tests on the second, so that    *)
(* what the tests show holds in production only if the two answer alike: one unit    *)
(* at a time, both refuse the same entities and the same stale writes, leave the     *)
(* same rows, and give to every query an answer the database could give.             *)
EXTENDS SqlTables

CONSTANTS
  Kinds,       \* the tables exercised
  Ids,         \* ids of entities: uuids, in no relation to the order of creation
  MaxChanges,  \* bound: changes behind the row a table may start with
  MaxUnits,    \* bound: units of work
  MaxCalls     \* bound: writes

M == INSTANCE MemoryTables

VARIABLES
  kind,      \* the table
  rows,      \* [sql, memory]: what is committed
  open,      \* whether a unit is open
  mine,      \* [sql, memory]: what the unit sees, and commits
  hand,      \* [sql, memory]: the entity the caller holds, a sequence of at most one
  said,      \* [sql, memory]: how the last call ended
  now,       \* the clock; a unit reads it once
  calls      \* writes so far

vars == <<kind, rows, open, mine, hand, said, now, calls>>

Memory ==
  [projects |-> M!MemoryProjects, jobs |-> M!MemoryJobs, runs |-> M!MemoryRuns, pipelines |-> M!MemoryPipelines,
   pipeline_runs |-> M!MemoryPipelineRuns, step_runs |-> M!MemoryStepRuns, models |-> M!MemoryModels,
   model_versions |-> M!MemoryModelVersions, evaluations |-> M!MemoryEvaluations,
   promotions |-> M!MemoryPromotions, deployments |-> M!MemoryDeployments, revisions |-> M!MemoryRevisions,
   endpoints |-> M!MemoryEndpoints, rollouts |-> M!MemoryRollouts, audit |-> M!MemoryAudit,
   memberships |-> M!MemoryMemberships, api_keys |-> M!MemoryApiKeys]

Init ==
  /\ kind \in Kinds
  /\ rows \in {[sql |-> {}, memory |-> <<>>]} \union {[sql |-> {e}, memory |-> <<e>>] : e \in Histories(kind, MaxChanges)}
  /\ open = FALSE
  /\ mine = rows
  /\ hand = [sql |-> <<>>, memory |-> <<>>]
  /\ said = [sql |-> "done", memory |-> "done"]
  /\ now = 2
  /\ calls = 0

-----------------------------------------------------------------------------
(* What a call makes of the table, and how it ends.                              *)

Done(table)      == [table |-> table, said |-> "done"]
Ends(how, table) == [table |-> table, said |-> how]

SqlAdd(table, e) ==
  IF Violates(Sql[kind].table, table, e) THEN Ends("exists", table)
  ELSE Done(table \union {Only(Sql[kind].add, e)})

SqlWrite(table, writer, e, seen) ==
  LET w == Sql[kind].writes[writer]
      met == {r \in table : r.id = e.id /\ Meets(w.where, r, seen)}
      after == {IF r \in met THEN Assigned(w, r, e) ELSE r : r \in table}
      broken == \E r \in met : Violates(Sql[kind].table, table, Assigned(w, r, e))
  IN  CASE met = {} /\ w.quiet -> Ends("unchanged", table)
        [] met = {} /\ ~ w.quiet ->
             Ends(IF \E r \in table : r.id = e.id THEN "conflict" ELSE "missing", table)
        [] met # {} /\ broken -> Ends("conflict", table)
        [] OTHER -> Done(after)

SqlRemove(table, e) ==
  LET gone == {r \in table : r.project = e.project /\ r.subject = e.subject}
  IN  IF gone = {} THEN Ends("missing", table) ELSE Done(table \ gone)

MemoryAdd(table, e) ==
  IF M!Refuses(Memory[kind], table, e) THEN Ends("exists", table) ELSE Done(Append(table, e))

MemoryWrite(table, writer, e, seen) ==
  LET w == Memory[kind].writes[writer]
      at == M!Places(table, e.id)
  IN  IF at = {} THEN Ends(IF w.quiet THEN "unchanged" ELSE "missing", table)
      ELSE LET n == CHOOSE p \in at : TRUE
           IN  IF M!Allows(w, table, table[n], e, seen)
               THEN Done(M!PutAt(table, n, M!Replaced(w, table[n], e)))
               ELSE Ends(IF w.quiet THEN "unchanged" ELSE "conflict", table)

MemoryRemove(table, e) ==
  LET gone(r) == r.project = e.project /\ r.subject = e.subject
      rest == SelectSeq(table, LAMBDA r : ~ gone(r))
  IN  IF Len(rest) = Len(table) THEN Ends("missing", table) ELSE Done(rest)

\* A call that does not raise goes on; one that does leaves the unit, which rolls it back.
Called(sql, memory) ==
  /\ calls' = calls + 1
  /\ said' = [sql |-> sql.said, memory |-> memory.said]
  /\ IF {sql.said, memory.said} \subseteq {"done", "unchanged"}
     THEN mine' = [sql |-> sql.table, memory |-> memory.table] /\ UNCHANGED <<hand, open>>
     ELSE mine' = rows /\ hand' = [sql |-> <<>>, memory |-> <<>>] /\ open' = FALSE
  /\ UNCHANGED <<kind, rows, now>>

Enter ==
  /\ ~ open /\ calls < MaxCalls /\ now < 2 + MaxUnits
  /\ open' = TRUE
  /\ mine' = rows
  /\ now' = now + 1
  /\ said' = [sql |-> "done", memory |-> "done"]
  /\ UNCHANGED <<kind, rows, hand, calls>>

Get(i) ==
  /\ open
  /\ hand' = [sql    |-> SetToSeq({Only(Sql[kind].read, r) : r \in {x \in mine.sql : x.id = i}}),
              memory |-> SelectSeq(mine.memory, LAMBDA r : r.id = i)]
  /\ hand' # hand
  /\ UNCHANGED <<kind, rows, open, mine, said, now, calls>>

\* The steps of a run are added together with it, each once.
Once(e) == kind = "step_runs" => \A r \in mine.sql : r.step # e.step

Add(i) ==
  /\ open /\ calls < MaxCalls
  /\ \A r \in mine.sql \union rows.sql \union ToSet(hand.sql) : r.id # i
  /\ \E key \in Keys(kind) : LET e == New(kind, i, key, now) IN
       /\ Once(e)
       /\ Called(SqlAdd(mine.sql, e), MemoryAdd(mine.memory, e))

Write ==
  /\ open /\ calls < MaxCalls /\ hand.sql # <<>>
  /\ \E w \in Writes(kind, hand.sql[1], now) :
       Called(SqlWrite(mine.sql, w.writer, w.entity, hand.sql[1]),
              MemoryWrite(mine.memory, w.writer, w.entity, hand.memory[1]))

Drop ==
  /\ open /\ calls < MaxCalls /\ kind = "memberships" /\ hand.sql # <<>>
  /\ Called(SqlRemove(mine.sql, hand.sql[1]), MemoryRemove(mine.memory, hand.memory[1]))

Commit ==
  /\ open
  /\ rows' = mine
  /\ open' = FALSE
  /\ UNCHANGED <<kind, mine, hand, said, now, calls>>

\* Leaving without a commit: what the unit did is dropped, and what was read of it.
Leave ==
  /\ open
  /\ mine' = rows
  /\ open' = FALSE
  /\ hand' = [sql |-> <<>>, memory |-> <<>>]
  /\ UNCHANGED <<kind, rows, said, now, calls>>

Next == Enter \/ (\E i \in Ids : Get(i) \/ Add(i)) \/ Write \/ Drop \/ Commit \/ Leave
Spec == Init /\ [][Next]_vars

-----------------------------------------------------------------------------
SqlAnswers(table, q) ==
  CASE kind = "projects"       -> ProjectSelects(table, q)      [] kind = "jobs"       -> JobSelects(table, q)
    [] kind = "runs"           -> RunSelects(table, q)          [] kind = "pipelines"  -> PipelineSelects(table, q)
    [] kind = "pipeline_runs"  -> PipelineRunSelects(table, q)  [] kind = "step_runs"  -> StepRunSelects(table, q)
    [] kind = "models"         -> ModelSelects(table, q)  [] kind = "model_versions" -> ModelVersionSelects(table, q)
    [] kind = "evaluations"    -> EvaluationSelects(table, q)   [] kind = "promotions" -> PromotionSelects(table, q)
    [] kind = "deployments"    -> DeploymentSelects(table, q)   [] kind = "revisions"  -> RevisionSelects(table, q)
    [] kind = "endpoints"      -> EndpointSelects(table, q)     [] kind = "rollouts"   -> RolloutSelects(table, q)
    [] kind = "audit"          -> AuditSelects(table, q)     [] kind = "memberships"   -> MembershipSelects(table, q)
    [] kind = "api_keys"       -> ApiKeySelects(table, q)

MemoryAnswers(table, q) ==
  CASE kind = "projects"      -> M!ProjectQueries(table, q)     [] kind = "jobs"      -> M!JobQueries(table, q)
    [] kind = "runs"          -> M!RunQueries(table, q)         [] kind = "pipelines" -> M!PipelineQueries(table, q)
    [] kind = "pipeline_runs" -> M!PipelineRunQueries(table, q) [] kind = "step_runs" -> M!StepRunQueries(table, q)
    [] kind = "models"      -> M!ModelQueries(table, q) [] kind = "model_versions" -> M!ModelVersionQueries(table, q)
    [] kind = "evaluations" -> M!EvaluationQueries(table, q)  [] kind = "promotions" -> M!PromotionQueries(table, q)
    [] kind = "deployments" -> M!DeploymentQueries(table, q)  [] kind = "revisions"  -> M!RevisionQueries(table, q)
    [] kind = "endpoints"   -> M!EndpointQueries(table, q)    [] kind = "rollouts"   -> M!RolloutQueries(table, q)
    [] kind = "audit"       -> M!AuditQueries(table, q)    [] kind = "memberships"   -> M!MembershipQueries(table, q)
    [] kind = "api_keys"    -> M!ApiKeyQueries(table, q)

\* What the queries are asked with: a few combinations in which every argument varies.
Asked ==
  {[project |-> 1, parent |-> p, name |-> n, version |-> v,
    statuses |-> IF p = 0 THEN {} ELSE {"SUCCEEDED", "FAILED"}, since |-> IF v = 0 THEN 0 ELSE 3,
    before |-> IF n = 1 THEN now ELSE 3, limit |-> IF v = 0 THEN 3 ELSE 1,
    offset |-> IF n = p THEN 1 ELSE 0] : p \in {0, 1}, n \in N, v \in {0, 1}}

\* The memory store gives the audit events in the order they were recorded, those of one
\* instant included; nothing else depends on an order the database does not promise.
Possible(answer, answers) ==
  answer \in answers \/ (kind = "audit" /\ \E s \in answers : ToSet(s) = ToSet(answer) /\ Len(s) = Len(answer))

SameRows(t) == t.sql = ToSet(t.memory) /\ Len(t.memory) = Cardinality(t.sql)

\* persistence/memory.py stands in for persistence/sql.py in the application's tests: after
\* every call both have raised the same error or none, returned the same entity and hold the
\* same rows, and every query then finds in memory what the database might have answered.
StoresAgree ==
  /\ said.sql = said.memory
  /\ hand.sql = hand.memory
  /\ SameRows(mine)
  /\ ~ open => \A q \in Asked :
       LET sql == SqlAnswers(rows.sql, q)
           memory == MemoryAnswers(rows.memory, q)
       IN  \A select \in DOMAIN sql : Possible(memory[select], sql[select])
=============================================================================
