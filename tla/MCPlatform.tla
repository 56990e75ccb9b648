------------------------------ MODULE MCPlatform ------------------------------
(* An instance of eight parts of the platform for TLC. They share no state: a     *)
(* behaviour is one of any of them, and the run explores them side by side.       *)
EXTENDS Leadership, Sequences, FiniteSets, TLC

CONSTANTS
  Rules, Dispatchers, Uploads, WantsFeedback, Patience, Again, LastTick, MaxDatasets, MaxTroubles,
  Subjects, Requests, MaxRequests, Names, Contents, MaxVersion,
  Listing, PageSize, Bodies, Stores, Size, MaxObjects, MaxBytes, Workers, MaxRuns,
  Attempts, Inputs, Pin, HasChecksum, Outputs, Forecasts, Bytes, Retries, MaxChanges,
  Kids, Initial, Callers, Lifetime, Throttle, FetchLimit, MaxTime, MaxRotations, MaxAsks,
  Spaces, Clients, Tickets, Life, Stay, MaxActive, MaxPerSpace, MaxUsed, LastSecond, MaxPods

(* What the proofs need of the constants: values that are not taken for an answer,    *)
(* whole numbers, and finitely many clients.                                          *)
ASSUME PlatformAssumption ==
  /\ "free" \notin Requests /\ "nothing" \notin Outputs
  /\ Pin \in Inputs /\ \A i \in Inputs : Forecasts[i] \subseteq Outputs
  /\ Lifetime \in Nat \ {0} /\ Throttle \in Nat \ {0} /\ FetchLimit \in Nat /\ MaxTime \in Nat
  /\ IsFiniteSet(Clients) /\ Life \in Nat /\ MaxActive \in Nat /\ MaxPerSpace \in Nat
  /\ LastTick \in Nat /\ Patience \in Nat /\ Again \in Nat /\ MaxDatasets \in Nat /\ MaxDatasets >= 2

VARIABLES
  clock, ready, rule, dataset, execution, runs, output, worker, owed, troubles,
  owner, role, lock, request, arrived,
  secret, version, refs, forced, holding, call, losses,
  bucket, pc, page, items, todo, loader, left, failed, cancelled, stage, staged, placed, starts, changes, kills,
  input, intact, object, attempt, edits, tampered,
  time, since, gone, cache, allowed, flight, caller, excused, rotations, asks,
  now, pod, born, ticket, used, active, busy, draining, client, admitted

Monitor == INSTANCE Monitoring WITH Retry <- Again, MaxTime <- LastTick
Access  == INSTANCE Members
Vault   == INSTANCE Secrets WITH lock <- holding, request <- call, faults <- losses, MaxFaults <- 1
Loader  == INSTANCE StorageInitializer WITH worker <- loader, MaxChanges <- 1
Batch   == INSTANCE BatchWorker WITH worker <- attempt, Size <- Bytes, changes <- edits
Keys    == INSTANCE SigningKeys
Logs    == INSTANCE LogStream WITH time <- now, MaxTime <- LastSecond

VARIABLE part     \* the part this behaviour is about

monitorVars == <<clock, ready, rule, dataset, execution, runs, output, worker, owed, troubles>>
accessVars  == <<owner, role, lock, request, arrived>>
vaultVars   == <<secret, version, refs, forced, holding, call, losses>>
loaderVars  == <<bucket, pc, page, items, todo, loader, left, failed, cancelled, stage, staged, placed, starts, changes, kills>>
batchVars   == <<input, intact, object, attempt, edits, tampered>>
keysVars    == <<time, since, gone, cache, allowed, flight, caller, excused, rotations, asks>>
logsVars    == <<now, pod, born, ticket, used, active, busy, draining, client, admitted>>
control     == <<vars, monitorVars, accessVars, vaultVars>>
data        == <<loaderVars, batchVars, keysVars, logsVars>>
platform    == <<control, data, part>>

SomeListing == << <<>>, <<"a">>, <<"a", "x">>, <<"b">>, <<"c">> >>
SomeStore   == [i \in {SomeListing[j] : j \in 1..5} |-> IF Len(i) = 0 \/ i = <<"a">> THEN "absent" ELSE "v1"]
SomeStores  == {SomeStore, [i \in DOMAIN SomeStore |-> "absent"]}
SomeSizes   == "v1" :> 1 @@ "v2" :> 1 @@ "v3" :> 3
SomeForecasts == "good" :> {"o1", "o2"} @@ "other" :> {"o3"} @@ "bad" :> {}
SomeBytes   == "o1" :> 1 @@ "o2" :> 1 @@ "o3" :> 2

PlatformInit ==
  /\ Init /\ Monitor!Init /\ Access!Init /\ Vault!Init
  /\ Loader!Init /\ Batch!Init /\ Keys!Init /\ Logs!Init
  /\ part \in {"leadership", "monitoring", "members", "secrets", "loader", "batch", "keys", "logs"}
  /\ part # "loader" => bucket = SomeStore
  /\ part # "batch" => input = Pin

Leading    == part = "leadership" /\ UNCHANGED <<monitorVars, accessVars, vaultVars, data, part>>
Watching   == part = "monitoring" /\ UNCHANGED <<vars, accessVars, vaultVars, data, part>>
Loading    == part = "loader" /\ UNCHANGED <<control, batchVars, keysVars, logsVars, part>>

PlatformNext ==
  \/ Next         /\ Leading
  \/ Monitor!Next /\ Watching
  \/ Loader!Next  /\ Loading
  \/ part = "members" /\ Access!Next /\ UNCHANGED <<vars, monitorVars, vaultVars, data, part>>
  \/ part = "secrets" /\ Vault!Next  /\ UNCHANGED <<vars, monitorVars, accessVars, data, part>>
  \/ part = "batch" /\ Batch!Next /\ UNCHANGED <<control, loaderVars, keysVars, logsVars, part>>
  \/ part = "keys"  /\ Keys!Next  /\ UNCHANGED <<control, loaderVars, batchVars, logsVars, part>>
  \/ part = "logs"  /\ Logs!Next  /\ UNCHANGED <<control, loaderVars, batchVars, keysVars, part>>

(* That of Leadership, Monitoring and StorageInitializer, in the behaviours about *)
(* each.                                                                            *)
PlatformFairness ==
  /\ WF_platform((Tick /\ Leading) \/ (Monitor!Tick /\ Watching))
  /\ \A p \in Processes :
       /\ WF_platform(Attempt(p) /\ Leading)
       /\ WF_platform(Watch(p) /\ Leading)
       /\ WF_platform(Restart(p) /\ Leading)
  /\ \A w \in Dispatchers : WF_platform(Monitor!Pass(w) /\ Watching)
  /\ WF_platform(Loader!Step /\ Loading)
  /\ \A w \in Workers : WF_platform(Loader!Work(w) /\ Loading)

PlatformSpec == PlatformInit /\ [][PlatformNext]_platform /\ PlatformFairness

Upload(name, date, fits) == [name |-> name, date |-> date, fits |-> fits]
SomeUploads ==
  {Upload("observed", "monday", TRUE), Upload("feedback", "monday", TRUE), Upload("observed", "none", FALSE)}
SomeContents == {{"a"}, {"a", "b"}, {"registry"}}

(* See Monitoring: each step keeps the intents, and decides an execution by the book. *)
DecisionsByTheBook == [][Monitor!IntentsAreKept' /\ \A e \in DOMAIN execution : Monitor!Decides(e)]_monitorVars

(* See Secrets.                                                               *)
ReferencesHold == Vault!ReferencesHold

(* See StorageInitializer and BatchWorker.                                    *)
DataIsWhole == Loader!ModelIsWhole /\ Batch!ResultIsStored

(* See Members, SigningKeys and LogStream: who may act, and on whose behalf.   *)
AccessIsCurrent == Access!SomebodyManages /\ Keys!KeysAreCurrent /\ Logs!LogsAreTheirs

(* Leadership!WorkGoesOn, Monitoring!EveryIntentDecided and the end of every      *)
(* download: there is always again a reconciler that works, it decides every      *)
(* execution in the end, and no initializer waits for itself.                     *)
PlatformSettles ==
  /\ []<>(part = "leadership" => \E p \in Processes : Leads(p) /\ ~process[p].hangs)
  /\ Monitor!EveryIntentDecided
  /\ Loader!EveryDownloadEnds

=============================================================================
