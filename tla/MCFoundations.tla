---------------------------- MODULE MCFoundations ----------------------------
(* An instance of the schedules with two dispatchers, and of what the control      *)
(* plane rests on: the two stores, the sessions of PostgreSQL, its schema and       *)
(* grants, and the serving adapter.  They share no state: a behaviour is one of any *)
(* of them.                                                                         *)
EXTENDS MCSchedules, TLC

CONSTANTS
  Kinds, Numbers, MaxChanges, MaxUnits, MaxCalls,
  Units, Shared, MaxBefore, MaxWrites,
  Callers, Leader, Deploys, Watched, Doubtful, Stored, MaxMoves,
  Migrators, Targets, MaxSteps

VARIABLES
  kind, rows, open, mine, hand, said, clock, calls,
  table, row, unit, tick,
  service, backends, status, account, call, answer, edited, deployment, overlap, applies, moves, strangers,
  db, lock, dba, applied, strange, steps

Store   == INSTANCE Stores WITH Ids <- Numbers, now <- clock
Session == INSTANCE Sessions
Schema  == INSTANCE Migrations

(* The serving adapter with two leaders that overlap; and with one, which looks at  *)
(* the status of what it deploys.                                                   *)
Adapter(who, watching, asked, stored) ==
  INSTANCE ServingAdapter WITH Callers <- who, Watchers <- watching, Asked <- asked, Stored <- stored,
                               edits <- strangers

(* Revisions that are deployed have a number; the tables that sessions share exist. *)
ASSUME FoundationsAssumption ==
  /\ \A a \in Deploys \cup Watched : a[1] # 0
  /\ Shared \subseteq DOMAIN Session!Sql /\ MaxBefore \in Nat

VARIABLE part     \* the part this behaviour is about

storeVars   == <<kind, rows, open, mine, hand, said, clock, calls>>
sessionVars == <<table, row, unit, tick>>
adapterVars ==
  <<service, backends, status, account, call, answer, edited, deployment, overlap, applies, moves, strangers>>
schemaVars  == <<db, lock, dba, applied, strange, steps>>
data        == <<storeVars, sessionVars, schemaVars>>
foundations == <<vars, data, adapterVars, part>>

Data == INSTANCE SqlTables
AllKinds == DOMAIN Data!Sql
AllShared ==
  {"projects", "runs", "pipeline_runs", "step_runs", "models", "model_versions", "evaluations", "deployments",
   "endpoints", "rollouts"}
SomeDeploys == {<<1, 100>>, <<2, 50>>, <<2, 100>>}
ACanary == {<<1, 100>>, <<2, 50>>}

(* Where a behaviour is about another part, a part begins in one way only; the two   *)
(* schedules begin with the intervals 1 and 2.                                      *)
FoundationsInit ==
  /\ part \in {"schedules", "stores", "sessions", "migrations", "overlap", "alone"}
  /\ part # "schedules" =>
       sched = [s \in Ids |-> [paused |-> FALSE, every |-> 1, policy |-> "QUEUE", scope |-> "TARGET",
                               missed |-> "CATCH_UP", next |-> 1]]
  /\ part # "stores"     => kind = "projects" /\ rows = [sql |-> {}, memory |-> <<>>]
  /\ part # "sessions"   => table = "projects" /\ row = Store!Project(2, [name |-> 1], 1)
  /\ part # "migrations" => db = Schema!Empty
  /\ Init /\ Store!Init /\ Session!Init /\ Schema!Init
  /\ \A s \in Ids : sched[s].every = IF part = "schedules" THEN s ELSE 1
  /\ IF part = "alone" THEN Adapter({Leader}, {Leader}, Watched, {})!Init ELSE Adapter(Callers, {}, Deploys, Stored)!Init

FoundationsNext ==
  /\ UNCHANGED part
  /\ \/ part = "schedules"  /\ Next         /\ UNCHANGED <<data, adapterVars>>
     \/ part = "stores"     /\ Store!Next   /\ UNCHANGED <<vars, sessionVars, schemaVars, adapterVars>>
     \/ part = "sessions"   /\ Session!Next /\ UNCHANGED <<vars, storeVars, schemaVars, adapterVars>>
     \/ part = "migrations" /\ Schema!Next  /\ UNCHANGED <<vars, storeVars, sessionVars, adapterVars>>
     \/ part = "overlap"    /\ Adapter(Callers, {}, Deploys, Stored)!Next /\ UNCHANGED <<vars, data>>
     \/ part = "alone"      /\ Adapter({Leader}, {Leader}, Watched, {})!Next /\ UNCHANGED <<vars, data>>

FoundationsSpec == FoundationsInit /\ [][FoundationsNext]_foundations

(* Two processes do everything, so that to swap them in one part swaps them in all. *)
Swapped == Permutations(Dispatchers)

(* See Stores.                                                                     *)
StoresAgree == part = "stores" => Store!StoresAgree

(* See Migrations.                                                                 *)
DatabaseIsKept == part = "migrations" => Schema!DatabaseIsKept

(* See Sessions: what a lock returns stays true, rows stay whole, and no writer undoes *)
(* what another wrote.                                                             *)
WritersAreApart == [][part = "sessions" => Session!RowsAreKept' /\ Session!WritersKeepApart]_sessionVars

(* See ServingAdapter: the status tells the truth, a service has the account its model *)
(* is read with, and no apply loses what another did.                              *)
AdapterTrue(who, watching, asked, stored) ==
  /\ Adapter(who, watching, asked, stored)!StatusIsTrue'
  /\ Adapter(who, watching, asked, stored)!AccountsAreKept'
  /\ Adapter(who, watching, asked, stored)!NothingIsLost

AdapterIsTrue ==
  [][/\ part = "overlap" => AdapterTrue(Callers, {}, Deploys, Stored)
     /\ part = "alone"   => AdapterTrue({Leader}, {Leader}, Watched, {})]_adapterVars

=============================================================================
