----------------------------- MODULE MemoryTables -----------------------------
(* The in-memory store, on which the application's own tests run: for each table    *)
(* what its class refuses to add, what it replaces on a write (the Memory*           *)
(* definitions), and what it answers to a query (the *Queries).  A table is a        *)
(* dictionary, hence the sequence of its values in the order they were first put.    *)
EXTENDS Entities, Sequences, FiniteSets, SequencesExt, TLC

\* A class that refuses to add an entity that agrees with another on one of `keys`,
\* neither being None nor, with `active`, a terminal one.
Class(keys, active, writes) == [keys |-> keys, active |-> active, writes |-> writes]
Keyed(columns, writes) == Class({columns}, FALSE, writes)

\* `self._data[e.id] = replace(e, ...)`: all of the entity but what is kept of the current one.
Replaces(keeps, guard) == [keeps |-> keeps, guard |-> guard, quiet |-> FALSE, whole |-> TRUE]
\* `self._data[e.id] = replace(current, ...)`: only what is named.
Takes(takes, guard) == [takes |-> takes, guard |-> guard, quiet |-> FALSE, whole |-> FALSE]
IfSo(write) == [write EXCEPT !.quiet = TRUE]
ReadOnly == [none |-> Takes({}, "present")]

MemoryProjects    == Keyed({"name"}, [update |-> Replaces({}, "expected")])
MemoryJobs        == Keyed({"project", "name"}, ReadOnly)
MemoryRuns        == Keyed({"project", "key"}, [update |-> Replaces({}, "expected")])
MemoryPipelines   == Keyed({"project", "name", "version"}, ReadOnly)
MemoryPipelineRuns ==
  Keyed({"project", "key"},
        [update |-> Replaces({"discovered", "checked"}, "expected"),
         mark_model_discovery |-> IfSo(Takes({"checked", "discovered"}, "undiscovered"))])
MemoryStepRuns    == Class({}, FALSE, [update |-> Replaces({}, "expected")])
MemoryModels ==
  Keyed({"project", "name"}, [update_thresholds |-> Takes({"thresholds"}, "present"),
                              update_alias_drift |-> Takes({"drift"}, "present")])
MemoryModelVersions ==
  Class({{"model", "version"}, {"model", "ref"}}, FALSE, [update |-> Replaces({}, "only champion")])
MemoryEvaluations == Class({}, FALSE, [update |-> Replaces({}, "expected")])
MemoryPromotions  == Class({}, FALSE, ReadOnly)
MemoryDeployments == Keyed({"project", "name"}, [update |-> Replaces({}, "expected")])
MemoryRevisions   == Keyed({"deployment", "revision"}, ReadOnly)
\* The life cycle replaces all of the endpoint.
MemoryEndpoints_Whole ==
  Keyed({"project", "name"}, [update_lifecycle |-> Replaces({}, "expected"),
                              initialize_limits |-> IfSo(Takes({"limits"}, "unlimited")),
                              update_access |-> Takes({"exposure", "limits", "updated"}, "present")])
MemoryEndpoints ==
  Keyed({"project", "name"}, [update_lifecycle |-> Replaces({"exposure", "limits"}, "expected"),
                              initialize_limits |-> IfSo(Takes({"limits"}, "unlimited")),
                              update_access |-> Takes({"exposure", "limits", "updated"}, "present")])
\* One active rollout per deployment, however many of a version.
MemoryRollouts_PerDeployment == Class({{"deployment"}}, TRUE, [update |-> Replaces({}, "expected")])
MemoryRollouts    == Class({{"deployment"}, {"version"}}, TRUE, [update |-> Replaces({}, "expected")])
MemoryAudit       == Class({}, FALSE, ReadOnly)
MemoryMemberships == Keyed({"project", "subject"}, [update |-> Replaces({}, "present")])
MemoryApiKeys ==
  Keyed({"project", "name"}, [update |-> Replaces({}, "present"), touch |-> IfSo(Takes({"used"}, "present"))])

\* `add` raises AlreadyExists.
Refuses(class, table, e) ==
  \E on \in class.keys, n \in DOMAIN table :
    /\ class.active => ~ IsTerminal(RolloutMoves, table[n].status)
    /\ \A c \in on : e[c] # 0 /\ table[n][c] = e[c]

\* The guard of a write on the current entity `r`; `seen` is what the caller read of it.
Allows(write, table, r, e, seen) ==
  CASE write.guard = "present"      -> TRUE
    [] write.guard = "expected"     -> r.status = seen.status
    [] write.guard = "undiscovered" -> r.status = "SUCCEEDED" /\ r.discovered = 0
    [] write.guard = "unlimited"    -> r.limits = 0 /\ r.updated = seen.updated
    [] write.guard = "only champion" ->
         /\ r.status = seen.status
         /\ e.status = "CHAMPION" =>
              \A n \in DOMAIN table :
                table[n].model = e.model /\ table[n].status = "CHAMPION" => table[n].id = e.id

Replaced(write, r, e) ==
  IF write.whole THEN [c \in DOMAIN e |-> IF c \in write.keeps THEN r[c] ELSE e[c]]
  ELSE [c \in DOMAIN r |-> IF c \in write.takes THEN e[c] ELSE r[c]]

Places(table, i) == {n \in DOMAIN table : table[n].id = i}
PutAt(table, n, e) == [table EXCEPT ![n] = e]

-----------------------------------------------------------------------------
(* Queries.                                                                      *)

\* Python's order of tuples, and its stable sort by the keys key[n] of the places n.
Less(a, b) == \E n \in DOMAIN a : a[n] < b[n] /\ \A m \in 1..(n - 1) : a[m] = b[m]
SortBy(rows, key) ==
  LET first(m, n) == Less(key[m], key[n]) \/ (key[m] = key[n] /\ m < n)
      places == SortSeq([n \in DOMAIN rows |-> n], first)
  IN  [n \in DOMAIN rows |-> rows[places[n]]]
SortByReversed(rows, key) ==
  LET first(m, n) == Less(key[n], key[m]) \/ (key[m] = key[n] /\ m < n)
      places == SortSeq([n \in DOMAIN rows |-> n], first)
  IN  [n \in DOMAIN rows |-> rows[places[n]]]

Created(rows) == [n \in DOMAIN rows |-> <<rows[n].created, rows[n].id>>]
ByAge(rows) == SortBy(rows, Created(rows))
Slice(rows, offset, limit) ==
  LET last == offset + limit
  IN  SubSeq(rows, offset + 1, IF last < Len(rows) THEN last ELSE Len(rows))
\* `next(..., None)`, and `or` of two values of which None is one.
Next1(rows) == Slice(rows, 0, 1)
Or(a, b) == IF a # 0 THEN a ELSE b
MaxOr0(S) == IF S = {} THEN 0 ELSE CHOOSE n \in S : \A m \in S : m <= n

Where(table, Test(_)) == SelectSeq(table, Test)
OfProject(table, q) == Where(table, LAMBDA r : r.project = q.project)
ByName(table, q) == Next1(Where(table, LAMBDA r : r.project = q.project /\ r.name = q.name))
IsOver(r) == IsTerminal(RunMoves, r.status)

ProjectQueries(table, q) ==
  LET reconcilable == ByAge(Where(table, LAMBDA p : p.status # "DELETED"))
  IN  [get_by_name |-> Next1(Where(table, LAMBDA p : p.name = q.name)),
       list |-> Slice(reconcilable, q.offset, q.limit), list_reconcilable |-> reconcilable]

JobQueries(table, q) == [get_by_name |-> ByName(table, q), list |-> ByAge(OfProject(table, q))]

\* `list` of runs and of pipeline runs; `parent` is the column of the definition asked for.
Listed(table, parent, q) ==
  LET rows == Where(OfProject(table, q), LAMBDA r :
                /\ q.parent # 0 => r[parent] = q.parent
                /\ q.statuses # {} => r.status \in q.statuses
                /\ q.since # 0 => Or(r.finished, r.updated) >= q.since)
  IN  Slice(SortByReversed(rows, Created(rows)), q.offset, q.limit)

ByKey(table, q) == Next1(Where(OfProject(table, q), LAMBDA r : r.key = q.name))

Cleanable(table, q) ==
  LET rows == Where(table, LAMBDA r :
                IsOver(r) /\ r.finished # 0 /\ r.finished < q.before /\ r.ref # 0 /\ r.cleaned = 0)
  IN  Slice(SortBy(rows, [n \in DOMAIN rows |-> <<rows[n].finished, rows[n].id>>]), 0, q.limit)

RunQueries(table, q) ==
  [get_by_idempotency_key |-> ByKey(table, q), list |-> Listed(table, "job", q),
   count |-> <<Len(OfProject(table, q))>>, list_active |-> ByAge(Where(table, LAMBDA r : ~ IsOver(r))),
   list_cleanup_candidates |-> Cleanable(table, q)]

PipelineQueries(table, q) ==
  LET named(name) == Where(OfProject(table, q), LAMBDA d : d.name = name)
      newest(rows) == Where(rows, LAMBDA d : \A n \in DOMAIN rows : rows[n].version <= d.version)
      get_version(name, version) ==
        IF version # 0 THEN Next1(Where(named(name), LAMBDA d : d.version = version))
        ELSE Next1(newest(named(name)))
      mine == OfProject(table, q)
      names == SortSeq(SetToSeq({mine[n].name : n \in DOMAIN mine}), <)
  IN  [get_version |-> get_version(q.name, q.version),
       list_latest |-> [n \in DOMAIN names |-> get_version(names[n], 0)[1]]]

PipelineRunQueries(table, q) ==
  LET due == Where(table, LAMBDA r :
        /\ r.status = "SUCCEEDED" /\ r.discovered = 0 /\ r.finished # 0 /\ r.finished <= q.before
        /\ r.checked = 0 \/ r.checked <= q.before)
      age == [n \in DOMAIN due |-> <<Or(due[n].checked, due[n].finished), due[n].id>>]
  IN  [get_by_idempotency_key |-> ByKey(table, q), list |-> Listed(table, "definition", q),
       count |-> <<Len(OfProject(table, q))>>, list_discovery_candidates |-> Slice(SortBy(due, age), 0, q.limit),
       list_active |-> ByAge(Where(table, LAMBDA r : ~ IsOver(r))),
       list_cleanup_candidates |-> Cleanable(table, q)]

StepRunQueries(table, q) ==
  LET mine == Where(table, LAMBDA s : s.run = q.parent)
  IN  [list |-> SortBy(mine, [n \in DOMAIN mine |-> <<mine[n].created, mine[n].step>>])]

ModelQueries(table, q) ==
  [get_by_name |-> ByName(table, q), list |-> ByAge(OfProject(table, q)), list_all |-> ByAge(table)]

ModelVersionQueries(table, q) ==
  LET mine == Where(table, LAMBDA v : v.model = q.parent)
  IN  [get_by_ref |-> IF q.name = 0 THEN <<>> ELSE Next1(Where(mine, LAMBDA v : v.ref = q.name)),
       list |-> SortBy(mine, [n \in DOMAIN mine |-> <<mine[n].version>>]),
       next_version |-> <<1 + MaxOr0({mine[n].version : n \in DOMAIN mine})>>,
       get_champion |-> Next1(Where(mine, LAMBDA v : v.status = "CHAMPION"))]

EvaluationQueries(table, q) ==
  [list_for_version |-> ByAge(Where(table, LAMBDA e : e.version = q.version))]
PromotionQueries(table, q) ==
  [list_for_versions |-> ByAge(Where(table, LAMBDA p : p.version \in {q.version, q.parent}))]

DeploymentQueries(table, q) ==
  [get_by_name |-> ByName(table, q), list |-> ByAge(OfProject(table, q)),
   list_reconcilable |->
     ByAge(Where(table, LAMBDA d : d.status = "DELETING" \/ (d.desired # 0 /\ d.status # "DELETED")))]

RevisionQueries(table, q) ==
  LET mine == Where(table, LAMBDA r : r.deployment = q.parent)
  IN  [get |-> Next1(Where(mine, LAMBDA r : r.revision = q.version)),
       list |-> SortBy(mine, [n \in DOMAIN mine |-> <<mine[n].revision>>]),
       next_revision |-> <<1 + MaxOr0({mine[n].revision : n \in DOMAIN mine})>>]

EndpointQueries(table, q) ==
  [get_by_deployment |-> Next1(Where(table, LAMBDA e : e.deployment = q.parent)), get_by_name |-> ByName(table, q)]

RolloutQueries(table, q) ==
  LET active == Where(table, LAMBDA r : ~ IsTerminal(RolloutMoves, r.status))
      mine == Where(table, LAMBDA r : r.deployment = q.parent)
  IN  [get_active |-> Next1(Where(active, LAMBDA r : r.deployment = q.parent)),
       get_active_by_version |-> Next1(Where(active, LAMBDA r : r.version = q.version)),
       list |-> SortByReversed(mine, Created(mine)), list_active |-> ByAge(active)]

AuditQueries(table, q) ==
  LET named == Where(OfProject(table, q), LAMBDA e : e.entity = q.parent /\ e.action = q.name)
  IN  [latest |-> Next1(SortByReversed(named, Created(named))),
       list |-> Where(table, LAMBDA e : /\ q.project # 0 => e.project = q.project
                                        /\ q.parent # 0 => e.entity = q.parent)]

MembershipQueries(table, q) ==
  LET mine == OfProject(table, q)
  IN  [get |-> Next1(Where(mine, LAMBDA m : m.subject = q.name)),
       list |-> SortBy(mine, [n \in DOMAIN mine |-> <<mine[n].subject>>]),
       list_for_subjects |-> Where(table, LAMBDA m : m.subject \in {q.name, q.parent})]

ApiKeyQueries(table, q) ==
  LET mine == OfProject(table, q)
  IN  [list |-> SortByReversed(mine, [n \in DOMAIN mine |-> <<mine[n].created>>])]
=============================================================================
