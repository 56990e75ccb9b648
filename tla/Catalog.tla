------------------------------- MODULE Catalog -------------------------------
(* The data catalog (application/data_catalog.py, data_lineage.py) and the creation   *)
(* of batch jobs over it (application/batch_inference.py): versions of one dataset    *)
(* published by clients, who see the latest version first and may repeat a request    *)
(* whose answer was lost, and by executions of a batch job. The transactions hold the *)
(* lock on the project's row from their first read to their commit.                   *)
EXTENDS Naturals, Sequences

CONSTANTS
  Clients,
  Contents,        \* of a dataset version: where its object is, format, columns, digest
  Specs,           \* of a batch job: what a client asks for
  Uris, Located,   \* where the registry may keep the model; those within the connection
  Depth,           \* levels of lineage that are shown: 4 in the code
  MaxVersions, MaxRequests, MaxMoves      \* bounds

None == "none"

VARIABLES
  ready,         \* the project is READY
  version,       \* the versions of the dataset
  registry,      \* where the registry keeps the model now
  job,           \* the batch job: [spec, uri]
  execution,     \* executions under way: the versions they read
  client,
  requests, moves

vars == <<ready, version, registry, job, execution, client, requests, moves>>

NoJob == [spec |-> None, uri |-> None]
Idle  == [pc |-> "idle"]
Latest == Len(version)

Init ==
  /\ ready = TRUE /\ version = <<>>
  /\ registry \in Uris /\ job = NoJob
  /\ execution = {} /\ client = [c \in Clients |-> Idle]
  /\ requests = 0 /\ moves = 0

Go(c, x) == client' = [client EXCEPT ![c] = x]

-----------------------------------------------------------------------------
(* Datasets. *)

(* A client looks at the latest version and prepares what replaces it.                *)
See(c) ==
  /\ client[c].pc = "idle" /\ requests < MaxRequests
  /\ requests' = requests + 1
  /\ \E content \in Contents :
       Go(c, [pc |-> "publish", is |-> "dataset", id |-> requests', content |-> content, expected |-> Latest, told |-> 0])
  /\ UNCHANGED <<ready, version, registry, job, execution, moves>>

Same(content) == Latest > 0 /\ version[Latest].content = content
Expected_Ignored(n) == TRUE
Expected(n) == n = Latest

(* Whatever is published has an event for the monitoring rules, see Monitoring.       *)
Publish(c) ==
  /\ client[c].pc = "publish"
  /\ LET w == client[c]
         told == [w EXCEPT !.pc = "answered", !.told = Len(version')]
     IN \/ /\ ready /\ ~Same(w.content) /\ Expected(w.expected) /\ Latest < MaxVersions
           /\ version' = Append(version, [content |-> w.content, by |-> w.id, over |-> w.expected, input |-> 0])
           /\ Go(c, told)
        \/ ready /\ Same(w.content) /\ UNCHANGED version /\ Go(c, told)
        \/ /\ ~ready \/ (~Same(w.content) /\ ~Expected(w.expected))
           /\ UNCHANGED version /\ Go(c, [w EXCEPT !.pc = "refused"])
  /\ UNCHANGED <<ready, registry, job, execution, requests, moves>>

(* The answer does not arrive, and the client sends the request again.                *)
Repeat(c) ==
  /\ client[c].pc \in {"answered", "refused"}
  /\ Go(c, [client[c] EXCEPT !.pc = IF client[c].is = "dataset" THEN "publish" ELSE "create"])
  /\ UNCHANGED <<ready, version, registry, job, execution, requests, moves>>

Read(c) ==
  /\ client[c].pc \in {"answered", "refused"} /\ Go(c, Idle)
  /\ UNCHANGED <<ready, version, registry, job, execution, requests, moves>>

-----------------------------------------------------------------------------
(* The batch job: its specification with the place of the model, which a repeated     *)
(* request takes from the job that exists.                                            *)

AskBatch(c) ==
  /\ client[c].pc = "idle" /\ requests < MaxRequests
  /\ requests' = requests + 1
  /\ \E spec \in Specs : Go(c, [pc |-> "create", is |-> "batch", spec |-> spec, found |-> NoJob])
  /\ UNCHANGED <<ready, version, registry, job, execution, moves>>

Uri_Registry == registry
Uri == IF job # NoJob THEN job.uri ELSE registry

CreateBatch(c) ==
  /\ client[c].pc = "create"
  /\ LET made == [spec |-> client[c].spec, uri |-> Uri]
         usable == ready /\ Latest > 0 /\ Uri \in Located
     IN /\ job' = IF usable /\ job = NoJob THEN made ELSE job
        /\ Go(c, [client[c] EXCEPT !.pc = IF usable /\ job' = made THEN "answered" ELSE "refused", !.found = job])
  /\ UNCHANGED <<ready, version, registry, execution, requests, moves>>

(* An execution reads the latest version at its start, see Definitions, and publishes *)
(* its output with the success of its run, see RunLifecycle.                          *)
Execute ==
  /\ job # NoJob /\ moves < MaxMoves /\ moves' = moves + 1
  /\ execution' = execution \cup {[id |-> MaxRequests + moves', input |-> Latest]}
  /\ UNCHANGED <<ready, version, registry, job, client, requests>>

PublishOutput ==
  /\ Latest < MaxVersions
  /\ \E e \in execution, content \in Contents :
       /\ version' = Append(version, [content |-> content, by |-> e.id, over |-> Latest, input |-> e.input])
       /\ execution' = execution \ {e}
  /\ UNCHANGED <<ready, registry, job, client, requests, moves>>

(* The registry moves the model; the project is deleted.                              *)
Move ==
  /\ moves < MaxMoves /\ moves' = moves + 1
  /\ registry' \in Uris \ {registry}
  /\ UNCHANGED <<ready, version, job, execution, client, requests>>

Delete ==
  /\ ready /\ ready' = FALSE
  /\ UNCHANGED <<version, registry, job, execution, client, requests, moves>>

Next ==
  \/ \E c \in Clients : See(c) \/ Publish(c) \/ Repeat(c) \/ Read(c) \/ AskBatch(c) \/ CreateBatch(c)
  \/ Execute \/ PublishOutput \/ Move \/ Delete

Spec == Init /\ [][Next]_vars

-----------------------------------------------------------------------------
(* Lineage. *)

(* From a version back along the inputs of the executions that made it, to the depth  *)
(* that is shown; a version published by hand has none.                               *)
Walk[n \in Nat, depth \in Nat] ==
  IF depth >= Depth \/ version[n].input = 0 THEN {n} ELSE {n} \cup Walk[version[n].input, depth + 1]
Shown(n) == Walk[n, 0]

(* Whether more is known than is shown.                                               *)
Cut[n \in Nat, depth \in Nat] ==
  IF depth >= Depth THEN version[n].input # 0 ELSE version[n].input # 0 /\ Cut[version[n].input, depth + 1]
Truncated_Never(n) == FALSE
Truncated(n) == Cut[n, 0]

(* Everything the version was made of.                                                *)
Ancestry[n \in Nat] == IF version[n].input = 0 THEN {n} ELSE {n} \cup Ancestry[version[n].input]

(* SAFETY. The lineage that is shown is that of the version, complete unless it says  *)
(* that it is not.                                                                    *)
LineageIsTrue ==
  \A n \in 1 .. Latest : Shown(n) \subseteq Ancestry[n] /\ (Truncated(n) <=> Shown(n) # Ancestry[n])

(* SAFETY. A request, however often it is sent, adds at most one version, over the    *)
(* one its client had seen; the version it is told has the content it asked for; and  *)
(* an output is made of a version that was there before. A repeated request for the   *)
(* batch job is not refused because the registry has moved the model.                 *)
CatalogIsKept ==
  /\ \A i, j \in 1 .. Latest : version[i].by = version[j].by => i = j
  /\ \A i \in 1 .. Latest : version[i].over = i - 1 /\ version[i].input < i
  /\ \A c \in Clients :
       /\ client[c].pc = "answered" /\ client[c].is = "dataset" => version[client[c].told].content = client[c].content
       /\ client[c].pc = "refused" /\ client[c].is = "batch" /\ ready => client[c].spec # client[c].found.spec

=============================================================================
