------------------------------ MODULE Sessions ------------------------------
(* Two processes that work on one row of PostgreSQL at a time: sessions of SQLAlchemy  *)
(* at READ COMMITTED, each with the identity map through which it gives back, without  *)
(* looking again, the row it has once loaded.  A writer's UPDATE waits for the row's   *)
(* lock and then judges its condition on what has become of the row.                   *)
EXTENDS SqlTables

CONSTANTS
  Units,       \* the processes, each with a unit of work at a time
  Shared,      \* the tables exercised, of those that Sql has
  MaxBefore,   \* bound: changes behind the row at the start
  MaxWrites    \* bound: writes

VARIABLES
  table,     \* the row's table
  row,       \* the committed row
  unit,      \* per process: whether its unit is `open`; what it `own`s: the row with its
             \* uncommitted writes; the `map`ped row; the entity in `hand`; whether it has
             \* `locked` the row.  The three rows are sequences of at most one.
  tick       \* writes so far, and the time of the next one

vars == <<table, row, unit, tick>>

Lockable == {"projects", "model_versions", "deployments"}
Closed(hand) == [open |-> FALSE, own |-> <<>>, map |-> <<>>, hand |-> hand, locked |-> FALSE]

Init ==
  /\ table \in Shared
  /\ row \in Histories(table, MaxBefore)
  /\ unit = [u \in Units |-> Closed(<<>>)]
  /\ tick = 3

Repo == Sql[table]
Holds(u) == unit[u].own # <<>> \/ unit[u].locked
Free(u) == \A v \in Units \ {u} : ~ Holds(v)
\* What the session's own statements see.
Visible(u) == IF unit[u].own # <<>> THEN unit[u].own[1] ELSE row
Loaded(u) == Only(Repo.read, Visible(u))
Set(u, to) == unit' = [unit EXCEPT ![u] = to]

Enter(u) ==
  /\ ~ unit[u].open /\ tick < 3 + MaxWrites
  /\ Set(u, [unit[u] EXCEPT !.open = TRUE])
  /\ UNCHANGED <<table, row, tick>>

\* `get` and every select: a row in the identity map is given as it is there.
Get(u) ==
  /\ unit[u].open
  /\ LET got == IF unit[u].map # <<>> THEN unit[u].map ELSE <<Loaded(u)>>
     IN  Set(u, [unit[u] EXCEPT !.map = got, !.hand = got])
  /\ UNCHANGED <<table, row, tick>>

\* Without populate_existing, the row as the session knows it.
Refreshed_AsMapped(u) == IF unit[u].map # <<>> THEN unit[u].map ELSE <<Loaded(u)>>

\* What SELECT ... FOR UPDATE gives back: with populate_existing, the row as it is now.
Refreshed(u) == <<Loaded(u)>>

Lock(u) ==
  /\ unit[u].open /\ table \in Lockable /\ Free(u)
  /\ Set(u, [unit[u] EXCEPT !.locked = TRUE, !.map = Refreshed(u), !.hand = Refreshed(u)])
  /\ UNCHANGED <<table, row, tick>>

\* The UPDATE of a repository; SQLAlchemy repeats it on the mapped row if that meets the condition.
Write(u) ==
  /\ unit[u].open /\ unit[u].hand # <<>> /\ Free(u) /\ tick < 3 + MaxWrites
  /\ \E call \in Writes(table, unit[u].hand[1], tick) :
       LET w == Repo.writes[call.writer]
           seen == unit[u].hand[1]
           applied(r) == IF Meets(w.where, r, seen) THEN Assigned(w, r, call.entity) ELSE r
       IN  IF Meets(w.where, Visible(u), seen)
           THEN Set(u, [unit[u] EXCEPT !.own = <<Assigned(w, Visible(u), call.entity)>>,
                                       !.map = [n \in DOMAIN @ |-> applied(@[n])],
                                       !.hand = <<call.entity>>])
           ELSE IF w.quiet THEN UNCHANGED unit
           ELSE Set(u, Closed(<<>>))
  /\ tick' = tick + 1
  /\ UNCHANGED <<table, row>>

Commit(u) ==
  /\ unit[u].open /\ unit[u].own # <<>>
  /\ row' = unit[u].own[1]
  /\ Set(u, Closed(unit[u].hand))
  /\ UNCHANGED <<table, tick>>

\* A unit left without a commit, after reads (whose entities are kept), an error or a crash.
Leave(u) ==
  /\ unit[u].open
  /\ Set(u, Closed(IF unit[u].own = <<>> THEN unit[u].hand ELSE <<>>))
  /\ UNCHANGED <<table, row, tick>>

Next == \E u \in Units : Enter(u) \/ Get(u) \/ Lock(u) \/ Write(u) \/ Commit(u) \/ Leave(u)
Spec == Init /\ [][Next]_vars

-----------------------------------------------------------------------------
Machine ==
  [projects |-> ProjectMoves, runs |-> RunMoves, pipeline_runs |-> RunMoves, step_runs |-> StepMoves,
   model_versions |-> VersionMoves, evaluations |-> EvaluationMoves, deployments |-> DeploymentMoves,
   endpoints |-> EndpointMoves, rollouts |-> RolloutMoves]

\* Columns a writer of their own sets, for the other writers of the table to leave alone.
Kept == [pipeline_runs |-> {"checked"}, models |-> {"thresholds", "drift"}, endpoints |-> {"exposure", "limits"}]

\* What holds a lock acts on the row as it is: whatever the unit had read of it before, the
\* entity that `lock` of persistence/sql.py returned, with the unit's own changes since, is
\* the row that nobody else can change until the unit ends.
LockedIsCurrent ==
  \A u \in Units : unit[u].locked => unit[u].hand = <<Visible(u)>> /\ unit[u].map = unit[u].hand

\* Status, times and references come from one writer's view of the row: what is over has an
\* end and only that has, only what is over has been cleaned up, and what is deleted serves
\* and wants nothing.
RowIsWhole ==
  /\ table \in {"runs", "pipeline_runs", "step_runs", "rollouts"} =>
       (row.finished # 0 <=> IsTerminal(Machine[table], row.status))
  /\ table \in {"runs", "pipeline_runs"} /\ row.cleaned # 0 => row.finished # 0 /\ row.ref # 0
  /\ table = "pipeline_runs" /\ row.discovered # 0 => row.status = "SUCCEEDED"
  /\ table = "deployments" /\ row.status = "DELETED" => row.desired = 0 /\ row.active = 0

RowsAreKept == LockedIsCurrent /\ RowIsWhole

\* However stale the entity it is given, a write moves the row's status along the state
\* machine or not at all, and puts no earlier value back into a column that another writer
\* sets: mark_model_discovery, update_thresholds, update_alias_drift, update_access.
WritersKeepApart ==
  \A u \in Units : unit'[u].own # unit[u].own /\ unit'[u].own # <<>> =>
    LET is == Visible(u)
        becomes == unit'[u].own[1]
    IN  /\ table \in DOMAIN Machine =>
             becomes.status = is.status \/ becomes.status \in Machine[table][is.status]
        /\ table \in DOMAIN Kept => \A c \in Kept[table] : becomes[c] >= is[c]
        /\ table = "pipeline_runs" /\ is.discovered # 0 => becomes.discovered = is.discovered

WritersAreApart == [][WritersKeepApart]_vars
=============================================================================
