------------------------------ MODULE Definitions ------------------------------
(* Job and pipeline definitions and the runs made of them (application/jobs.py,       *)
(* pipelines.py, pipeline_runs.py, batch_snapshots.py, workflow_compiler.py and       *)
(* domain/parameters.py): definitions never change, a changed pipeline is a new       *)
(* version, a run freezes version, parameters and input datasets when it is created,  *)
(* and is compiled later. Requests are transactions that interleave; some take the    *)
(* lock on the project's row. One project and one pipeline name.                      *)
EXTENDS Naturals, FiniteSets, Functions

CONSTANTS
  Clients,
  JobNames,
  Jobs,          \* contents: [schema, policy]; policy "none", "PINNED" or "LATEST"
  Pipelines,     \* contents: [steps |-> a set of names of jobs, schema]
  Commits,
  Keys,          \* idempotency keys
  Arguments,     \* parameter values a client sends: functions from names to values
  MaxRequests, MaxVersions, MaxDatasets       \* bounds

None  == "none"
NoJob == [schema |-> [declared |-> {}, required |-> {}, defaults |-> <<>>], policy |-> "absent"]

VARIABLES
  job,         \* per name its content, or NoJob
  version,     \* the versions of the pipeline: a function from numbers to contents
  dataset,     \* the last version of the input dataset; 0: none
  run,         \* the runs: a set of records; spec is what was submitted, <<>> before
  lock,        \* who holds the row of the project
  client,      \* what each client's request does
  requests

stored == <<job, version, dataset, run>>
vars   == <<stored, lock, client, requests>>

Idle == [pc |-> "idle"]

Init ==
  /\ job = [n \in JobNames |-> NoJob] /\ version = <<>>
  /\ dataset = 0 /\ run = {} /\ lock = None
  /\ client = [c \in Clients |-> Idle] /\ requests = 0

Go(c, x) == client' = [client EXCEPT ![c] = x]
Refuse(c) == Go(c, [client[c] EXCEPT !.pc = "refused"])

(* The parameters of a definition: declared ones only, defaults filled in, required   *)
(* ones present, values that its schema allows.                                       *)
Filled(schema, given) ==
  [n \in DOMAIN given \cup DOMAIN schema.defaults |-> IF n \in DOMAIN given THEN given[n] ELSE schema.defaults[n]]
Resolves(schema, given) ==
  /\ DOMAIN given \subseteq schema.declared
  /\ schema.required \subseteq DOMAIN Filled(schema, given)
  /\ "bad" \notin Range(given)

(* What a step gets of the parameters of its run: those it declares, and its defaults. *)
ProjectValues(schema, values) == Filled(schema, Restrict(values, DOMAIN values \cap schema.declared))

-----------------------------------------------------------------------------
(* Jobs. *)

(* One transaction under the lock: a name that exists is answered if it is the same.  *)
CreateJob(c) ==
  /\ client[c].pc = "idle" /\ requests < MaxRequests /\ lock = None
  /\ requests' = requests + 1
  /\ \E n \in JobNames, content \in Jobs :
       /\ job' = IF job[n] = NoJob THEN [job EXCEPT ![n] = content] ELSE job
       /\ Go(c, [pc |-> IF job'[n] = content THEN "answered" ELSE "refused", is |-> "job", name |-> n, content |-> content])
  /\ UNCHANGED <<version, dataset, run, lock>>

-----------------------------------------------------------------------------
(* Pipelines. *)

Latest == Cardinality(DOMAIN version)

AskPipeline(c) ==
  /\ client[c].pc = "idle" /\ requests < MaxRequests
  /\ requests' = requests + 1
  /\ \E content \in Pipelines : Go(c, [pc |-> "pipeline", is |-> "pipeline", content |-> content, next |-> 0, tries |-> 0])
  /\ UNCHANGED <<stored, lock>>

Same_Never(content) == FALSE
Same(content) == Latest > 0 /\ version[Latest] = content

(* The latest version is read: answered if it is the same, refused if a step names a  *)
(* job that does not exist.                                                           *)
ReadPipeline(c) ==
  /\ client[c].pc = "pipeline"
  /\ IF Same(client[c].content) THEN Go(c, [client[c] EXCEPT !.pc = "answered", !.next = Latest])
     ELSE IF \E n \in client[c].content.steps : job[n] = NoJob THEN Refuse(c)
     ELSE Go(c, [client[c] EXCEPT !.pc = "adding", !.next = Latest + 1])
  /\ UNCHANGED <<stored, lock, requests>>

(* The insert; the number may have been taken, and there are three tries.             *)
AddPipeline(c) ==
  /\ client[c].pc = "adding" /\ client[c].next <= MaxVersions
  /\ LET n == client[c].next
     IN IF n \in DOMAIN version
        THEN /\ IF client[c].tries = 2 THEN Refuse(c)
                ELSE Go(c, [client[c] EXCEPT !.pc = "pipeline", !.tries = @ + 1])
             /\ UNCHANGED version
        ELSE /\ version' = [i \in DOMAIN version \cup {n} |-> IF i = n THEN client[c].content ELSE version[i]]
             /\ Go(c, [client[c] EXCEPT !.pc = "answered"])
  /\ UNCHANGED <<job, dataset, run, lock, requests>>

-----------------------------------------------------------------------------
(* Runs. *)

(* The first transaction freezes the version, the latest if none is named, and fills  *)
(* in the parameters.                                                                 *)
AskRun(c) ==
  /\ client[c].pc = "idle" /\ requests < MaxRequests
  /\ requests' = requests + 1
  /\ \E v \in {0} \cup DOMAIN version, k \in Keys \cup {None}, commit \in Commits, given \in Arguments :
       LET n == IF v = 0 THEN Latest ELSE v
           r == [pc |-> "frozen", is |-> "run", version |-> n, key |-> k, commit |-> commit, id |-> 0, given |-> given, input |-> 0]
       IN IF n = 0 \/ ~Resolves(version[n].schema, given)
          THEN Go(c, [pc |-> "refused", is |-> "run"])
          ELSE Go(c, [r EXCEPT !.given = Filled(version[n].schema, given)])
  /\ UNCHANGED <<stored, lock>>

StepsOf(r) == version[r.version].steps
Dynamic(n) == job[n] # NoJob /\ job[n].policy = "LATEST"

ByKey(k) == {r \in run : k # None /\ r.key = k}

(* A run that was created with the key is answered if the request is the same.        *)
Asked(x) == <<x.version, x.commit, x.given>>
Matches_KeyOnly(r, c) == TRUE
Matches(r, c) == Asked(r) = Asked(client[c])

Replay(c, r) ==
  IF Matches(r, c) THEN Go(c, [client[c] EXCEPT !.pc = "answered", !.id = r.id]) ELSE Refuse(c)

(* The second transaction: jobs and parameters, then the key.                         *)
CheckRun(c) ==
  /\ client[c].pc = "frozen"
  /\ UNCHANGED <<stored, lock, requests>>
  /\ IF \E n \in StepsOf(client[c]) : job[n] = NoJob \/ ~Resolves(job[n].schema, ProjectValues(job[n].schema, client[c].given))
     THEN Refuse(c)
     ELSE IF ByKey(client[c].key) # {} THEN \E r \in ByKey(client[c].key) : Replay(c, r)
     ELSE Go(c, [client[c] EXCEPT !.pc = "input"])

(* A batch step whose input is chosen at execution takes the lock and the last        *)
(* version of the dataset; the lock is kept until the end of the transaction.         *)
Locks_Never(c) == FALSE
Locks(c) == \E n \in StepsOf(client[c]) : Dynamic(n)

ChooseInput(c) ==
  /\ client[c].pc = "input"
  /\ IF \E n \in StepsOf(client[c]) : Dynamic(n)
     THEN /\ lock = None
          /\ IF dataset = 0 THEN Refuse(c) /\ UNCHANGED lock
             ELSE /\ Go(c, [client[c] EXCEPT !.pc = "inserting", !.input = dataset])
                  /\ lock' = IF Locks(c) THEN c ELSE lock
     ELSE Go(c, [client[c] EXCEPT !.pc = "inserting"]) /\ UNCHANGED lock
  /\ UNCHANGED <<stored, requests>>

Unlocked(c) == IF lock = c THEN None ELSE lock

(* The insert, refused if another run took the key meanwhile. `newest` is history.    *)
Insert(c) ==
  /\ client[c].pc = "inserting"
  /\ lock' = Unlocked(c)
  /\ LET w == client[c]
         r == [id |-> Cardinality(run) + 1, version |-> w.version, key |-> w.key, commit |-> w.commit,
               given |-> w.given, input |-> w.input, newest |-> dataset, spec |-> <<>>]
     IN IF ByKey(w.key) # {} THEN Go(c, [w EXCEPT !.pc = "replay"]) /\ UNCHANGED run
        ELSE run' = run \cup {r} /\ Go(c, [w EXCEPT !.pc = "answered", !.id = r.id])
  /\ UNCHANGED <<job, version, dataset, requests>>

(* After a lost race for the key, the winner is answered.                             *)
ReplayWinner(c) ==
  /\ client[c].pc = "replay"
  /\ \E r \in ByKey(client[c].key) : Replay(c, r)
  /\ UNCHANGED <<stored, lock, requests>>

Read(c) ==
  /\ client[c].pc \in {"answered", "refused"} /\ Go(c, Idle)
  /\ UNCHANGED <<stored, lock, requests>>

(* A batch run publishes a version of the dataset, under the lock.                    *)
PublishDataset ==
  /\ lock = None /\ dataset < MaxDatasets
  /\ dataset' = dataset + 1
  /\ UNCHANGED <<job, version, run, lock, client, requests>>

(* The step of a run as it is compiled: platform values override those of the job.    *)
CompiledStep(r, n) ==
  [job |-> job[n], values |-> ProjectValues(job[n].schema, r.given),
   input |-> IF Dynamic(n) THEN r.input ELSE 0]

Compile_Latest(r) == [n \in version[Latest].steps |-> CompiledStep(r, n)]
Compile(r) == [n \in StepsOf(r) |-> CompiledStep(r, n)]

(* The reconciler submits the run, which it may do again after a crash.               *)
Submit ==
  /\ \E r \in run : run' = (run \ {r}) \cup {[r EXCEPT !.spec = Compile(r)]}
  /\ UNCHANGED <<job, version, dataset, lock, client, requests>>

Serve(c) ==
  \/ CreateJob(c) \/ AskPipeline(c) \/ ReadPipeline(c) \/ AddPipeline(c)
  \/ AskRun(c) \/ CheckRun(c) \/ ChooseInput(c) \/ Insert(c) \/ ReplayWinner(c) \/ Read(c)
Next == (\E c \in Clients : Serve(c)) \/ PublishDataset \/ Submit

Spec == Init /\ [][Next]_vars

-----------------------------------------------------------------------------

Answered(kind) == {c \in Clients : client[c].pc = "answered" /\ client[c].is = kind}
RunOf(c) == CHOOSE r \in run : r.id = client[c].id

(* SAFETY. Versions of a pipeline have no gaps and each differs from the one before,  *)
(* however requests interleave; a client that was answered has what it asked for; a   *)
(* key has one run, whose request was that of all who were answered with it.          *)
DefinitionsAreKept ==
  /\ DOMAIN version = 1 .. Latest
  /\ \A n \in 2 .. Latest : version[n] # version[n - 1]
  /\ \A c \in Answered("job") : job[client[c].name] = client[c].content
  /\ \A c \in Answered("pipeline") : version[client[c].next] = client[c].content
  /\ \A r, s \in run : r.key = s.key /\ r.key # None => r.id = s.id
  /\ \A c \in Answered("run") : Asked(RunOf(c)) = Asked(client[c])

(* SAFETY. A run uses the dataset that was the last when it was created, and what is  *)
(* submitted for it, whenever and however often, is what it was created with: the     *)
(* steps of its version, the jobs they name, and parameters that their schemas take.  *)
RunsAreFrozen ==
  \A r \in run :
    /\ (\E n \in StepsOf(r) : Dynamic(n)) => r.input = r.newest
    /\ r.spec # <<>> =>
         /\ DOMAIN r.spec = version[r.version].steps
         /\ \A n \in DOMAIN r.spec :
              /\ r.spec[n].job \in Jobs /\ r.spec[n].input \in {0, r.newest}
              /\ Resolves(r.spec[n].job.schema, r.spec[n].values)

=============================================================================
