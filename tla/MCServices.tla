----------------------------- MODULE MCServices -----------------------------
(* An instance of the pipeline run with two leaders, and of six services of the    *)
(* API and its workers. They share no state: a behaviour is one of any of them.    *)
EXTENDS PipelineRun, Integers, Sequences, TLC

CONSTANTS
  a, b,          \* two steps
  Specs, References, Observations, Truths, ScoreLimit, MissingLimit, BatchSize, Execution, OtherExecution,
  Tabs, Users, Personal, Shared, Rules, Chief, LoginTtl, Configured, SessionCap, AdminCap, CallLimit,
  MaxTime, MaxStarts, MaxChanges,
  Clients, JobNames, Jobs, Pipelines, Commits, Keys, Arguments, MaxRequests, MaxVersions, MaxDatasets,
  Files, Asks, Uris, Located, Depth, MaxIssues, MaxLooks, MaxMoves,
  Backups, Restores, Contents, Counts, MaxWrites,
  Admins, Deployers, Revokers, Kinds, Chosen, MaxPasses, MaxUses

VARIABLES
  spec, reference, observed, truth, pc, read, domain, counts, labels, keys, matched, errors, result, report,
  time, account, chief, group, left, login, session, tab, used, starts, changes,
  job, version, dataset, submitted, lock, client, requests,
  ready, issue, registry, batch, execution, reader, looks, moves,
  live, target, directory, backup, restore, writes,
  endpoint, revision, deployment, key, admin, deployer, revoker, pass, use, accepted, was, passes, uses

Drift   == INSTANCE Reports WITH rows <- read
Browser == INSTANCE SignIn
Compile == INSTANCE Definitions WITH run <- submitted
Data    == INSTANCE Catalog WITH version <- issue, job <- batch, client <- reader, requests <- looks,
             Contents <- Files, Specs <- Asks, MaxVersions <- MaxIssues, MaxRequests <- MaxLooks
Dump    == INSTANCE Backup
Access  == INSTANCE EndpointAccess

VARIABLE part     \* the part this behaviour is about

driftVars   == <<spec, reference, observed, truth, pc, read, domain, counts, labels, keys, matched, errors, result, report>>
browserVars == <<time, account, chief, group, left, login, session, tab, used, starts, changes>>
compileVars == <<job, version, dataset, submitted, lock, client, requests>>
dataVars    == <<ready, issue, registry, batch, execution, reader, looks, moves>>
dumpVars    == <<live, target, directory, backup, restore, writes>>
accessVars  == <<endpoint, revision, deployment, key, admin, deployer, revoker, pass, use, accepted, was, passes, uses>>
workers     == <<vars, driftVars, dumpVars>>
api         == <<browserVars, compileVars, dataVars, accessVars>>
services    == <<workers, api, part>>

(* Lifetimes and bounds are numbers, a person has a role, a pipeline is made of jobs that *)
(* can exist, and the values for what is absent or half written stand for nothing else.   *)
ASSUME ServicesAssumption ==
  /\ Configured \in Nat /\ SessionCap \in Nat /\ AdminCap \in Nat /\ CallLimit \in Nat /\ MaxTime \in Nat
  /\ Personal \in [Users -> DOMAIN Browser!Ranks]
  /\ Compile!NoJob \notin Jobs /\ \A p \in Pipelines : p.steps \subseteq JobNames
  /\ MaxLooks \in Nat
  /\ "none" \notin Chosen /\ "none" \notin Clients /\ "none" \notin Asks /\ "part" \notin Contents

\* b needs a.
MCNeeds == [s \in Steps |-> IF s = b THEN {a} ELSE {}]

Drifting(dtype, minimum, nullable, declared, feedback) ==
  [dtype |-> dtype, minimum |-> minimum, limit |-> 3, nullable |-> nullable, declared |-> declared, feedback |-> feedback]
SomeSpecs ==
  {Drifting("number", 1, TRUE, "none", FALSE), Drifting("number", 2, TRUE, "right", TRUE),
   Drifting("string", 1, TRUE, "right", TRUE), Drifting("string", 2, FALSE, "none", TRUE),
   Drifting("number", 2, FALSE, "wrong", FALSE)}
SomeReferences == {<<>>, <<-1, -1>>, <<1, 1>>, <<0, 2, -1>>, <<0, 1, 7>>, <<2, 0, 5, 1>>}
Seen(x, k, p) == [x |-> x, key |-> k, prediction |-> p]
SomeObservations ==
  {<<>>, <<Seen(1,1,1)>>, <<Seen(0,1,1), Seen(3,2,-1)>>, <<Seen(-1,1,0), Seen(9,1,1)>>,
   <<Seen(1,1,3), Seen(-1,2,2), Seen(7,3,5)>>, <<Seen(0,-1,1), Seen(2,2,2)>>,
   <<Seen(0,1,1), Seen(0,2,1), Seen(0,3,1), Seen(0,4,1)>>}
Label(k, l) == [key |-> k, label |-> l]
SomeTruths ==
  {<<>>, <<Label(1,1)>>, <<Label(1,1), Label(3,2)>>, <<Label(2,1), Label(2,1)>>,
   <<Label(1,2), Label(4,1), Label(2,-1)>>, <<Label(1,1), Label(5,5), Label(1,1)>>, <<Label(-1,2)>>}

SomeRoles  == "ann" :> "none" @@ "bob" :> "invoker"
SomeCounts == "c1" :> 1 @@ "c2" :> 2 @@ "c3" :> 2

Schema(declared, required, defaults) == [declared |-> declared, required |-> required, defaults |-> defaults]
SomeJobs ==
  {[schema |-> Schema({"p"}, {"p"}, <<>>), policy |-> "none"], [schema |-> Schema({}, {}, <<>>), policy |-> "LATEST"]}
SomePipelines ==
  {[steps |-> {"train"}, schema |-> Schema({"p", "q"}, {}, "p" :> "ok")],
   [steps |-> {"train", "score"}, schema |-> Schema({"p"}, {"p"}, <<>>)]}
SomeArguments == {<<>>, "q" :> "ok", "q" :> "bad"}

ServicesInit ==
  /\ Init /\ Drift!Init /\ Browser!Init /\ Compile!Init /\ Data!Init /\ Dump!Init /\ Access!Init
  /\ part \in {"pipeline", "reports", "signin", "definitions", "catalog", "backup", "access"}
  /\ part # "reports" =>
       /\ spec = Drifting("number", 1, TRUE, "none", FALSE)
       /\ reference = <<>> /\ observed = <<>> /\ truth = <<>>
  /\ part # "signin" => account = Chief
  /\ part # "catalog" => registry \in Located
  /\ part # "backup" => live = "c1"

ServicesNext ==
  /\ UNCHANGED part
  /\ \/ part = "pipeline"    /\ Next         /\ UNCHANGED <<driftVars, dumpVars, api>>
     \/ part = "reports"     /\ Drift!Next   /\ UNCHANGED <<vars, dumpVars, api>>
     \/ part = "backup"      /\ Dump!Next    /\ UNCHANGED <<vars, driftVars, api>>
     \/ part = "signin"      /\ Browser!Next /\ UNCHANGED <<workers, compileVars, dataVars, accessVars>>
     \/ part = "definitions" /\ Compile!Next /\ UNCHANGED <<workers, browserVars, dataVars, accessVars>>
     \/ part = "catalog"     /\ Data!Next    /\ UNCHANGED <<workers, browserVars, compileVars, accessVars>>
     \/ part = "access"      /\ Access!Next  /\ UNCHANGED <<workers, browserVars, compileVars, dataVars>>

ServicesSpec == ServicesInit /\ [][ServicesNext]_services

ServicesSymmetry == Permutations(Reconcilers) \cup Permutations(Clients)

(* See Reports and Catalog: what is reported and shown is what the data say. *)
StoredIsRight ==
  /\ part = "reports" => Drift!ReportsAreRight
  /\ part = "catalog" => Data!LineageIsTrue

(* See SignIn and EndpointAccess: who is let in, and what an access change leaves. *)
AccessIsRight ==
  /\ part = "signin" => Browser!SessionsAreShort
  /\ part = "access" => Access!AccessIsKept

(* See Definitions, Catalog and Backup: what was defined, published and saved is kept. *)
DefinedIsKept ==
  /\ part = "definitions" => Compile!DefinitionsAreKept /\ Compile!RunsAreFrozen
  /\ part = "catalog" => Data!CatalogIsKept
  /\ part = "backup" => Dump!BackupsRestore

=============================================================================
