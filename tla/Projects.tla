------------------------------ MODULE Projects ------------------------------
(***************************************************************************)
(* One project: its row, the Kubernetes namespace the reconciler keeps for  *)
(* it, and the GPU quota its deployments share.                            *)
(*                                                                         *)
(* Platform admins set the quota, owners ask for the deletion, and the     *)
(* reconciler writes the namespace and records what it saw there. A pass    *)
(* works on the row it loaded, calls the API server with no transaction     *)
(* open, and saves the whole row under a compare-and-swap on the status.    *)
(* Requests that hand out GPUs, or take the quota away, lock the project    *)
(* row: they are two steps, what they read and decide under the lock and    *)
(* what they commit. Of a deployment the model keeps the revisions that     *)
(* hold GPUs; Serving models the rest.                                     *)
(***************************************************************************)
EXTENDS Naturals, Sequences, FiniteSets

CONSTANTS
  Deployments,  \* deployments of the project
  Revisions,    \* their revisions; each serves with a fixed number of GPUs
  Gpus,         \* Gpus[r]: the GPUs of r times its largest scale
  Clients,      \* concurrent requests
  Reconcilers,  \* reconciler processes; one, unless two leaders overlap
  MaxQuota,     \* the largest quota an admin may set
  MaxCalls,     \* bound on the requests served
  MaxFaults     \* bound on crashed passes, failed API calls and edits by others

ASSUME ProjectsAssumption ==
  /\ IsFiniteSet(Deployments) /\ IsFiniteSet(Revisions) /\ Gpus \in [Revisions -> Nat]
  /\ MaxQuota \in Nat /\ MaxCalls \in Nat /\ MaxFaults \in Nat

VARIABLES
  project,      \* the projects row
  ns,           \* the namespace in the cluster
  dep,          \* of every deployments row, what decides which GPUs it holds
  req,          \* the transaction each request has open
  rec,          \* the pass each reconciler is in
  calls, faults, \* how many there have been
  disturbed,    \* history: the row or the namespace changed since a pass verified it
  overwritten   \* history: a pass wrote back a quota or a revision no longer current

bounds  == <<calls, faults>>
history == <<disturbed, overwritten>>
vars    == <<project, ns, dep, req, rec, bounds, history>>

-----------------------------------------------------------------------------
ProjectStatus == {"PENDING", "PROVISIONING", "READY", "DRIFTED", "FAILED", "DELETING", "DELETED"}
ProjectEdges ==
  { <<"PENDING", "PROVISIONING">>, <<"PENDING", "DELETING">>,
    <<"PROVISIONING", "READY">>, <<"PROVISIONING", "FAILED">>, <<"PROVISIONING", "DELETING">>,
    <<"READY", "DRIFTED">>, <<"READY", "DELETING">>,
    <<"DRIFTED", "PROVISIONING">>, <<"DRIFTED", "DELETING">>,
    <<"FAILED", "PROVISIONING">>, <<"FAILED", "DELETING">>,
    <<"DELETING", "DELETED">>, <<"DELETING", "FAILED">> }
Project == [status : ProjectStatus, quota : 0 .. MaxQuota, noted : BOOLEAN]

(* What the namespace must hold, in the order apply writes it. The bindings  *)
(* of the platform's own accounts are never taken over from someone else.   *)
Order == <<"labels", "bindings", "quota", "others">>
Kinds == {"labels", "bindings", "quota", "others"}
Namespace == [state : {"absent", "active", "terminating"}, ours : BOOLEAN,
              obj : [Kinds -> {"missing", "drifted", "foreign", "good"}], hard : 0 .. MaxQuota]
NoNamespace == [state |-> "absent", ours |-> FALSE, obj |-> [k \in Kinds |-> "missing"], hard |-> 0]
Foreign     == [NoNamespace EXCEPT !.state = "active"]
Provisioned(q) == [state |-> "active", ours |-> TRUE, obj |-> [k \in Kinds |-> "good"], hard |-> q]

(* A plausible slip: the quota exists, whatever it grants. *)
Drift_AnyQuota(q) == { k \in Kinds : ns.obj[k] # "good" }
(* _drifted: what differs from the spec of a project with quota q. *)
Drift(q) == { k \in Kinds : ns.obj[k] # "good" \/ (k = "quota" /\ ns.hard # q) }
Converged(q) == ns.state = "active" /\ ns.ours /\ Drift(q) = {}

DeploymentStatus == {"NONE", "PENDING", "DEPLOYING", "READY", "DEGRADED", "FAILED", "DELETING", "DELETED"}
DeploymentEdges ==
  { <<"DEPLOYING", "READY">>, <<"DEPLOYING", "FAILED">>, <<"READY", "DEGRADED">>,
    <<"DEGRADED", "DEPLOYING">>, <<"DELETING", "DELETED">> }
(* Revisions as sets of at most one: desired, active, and the two of a rollout. *)
Deployment == [status : DeploymentStatus, desired : SUBSET Revisions, active : SUBSET Revisions,
               stable : SUBSET Revisions, canary : SUBSET Revisions]
NoDeployment == [status |-> "NONE", desired |-> {}, active |-> {}, stable |-> {}, canary |-> {}]

Held(d)  == dep[d].desired \cup dep[d].active \cup dep[d].stable \cup dep[d].canary
(* The GPUs that revisions R of d take up, and those that deployments D hold. *)
Units(d, R) == UNION { {<<d, r>>} \X (1 .. Gpus[r]) : r \in R }
Taken(D)    == UNION { Units(d, Held(d)) : d \in D }
Sum(d, R)   == Cardinality(Units(d, R))
InUse(D)    == Cardinality(Taken(D))

Quiet   == [op |-> "none"]
Request == {Quiet} \cup [op : {"quota"}, quota : 0 .. MaxQuota]
             \cup [op : {"desire", "canary"}, dep : Deployments, rev : Revisions]
Locked     == \E c \in Clients : req[c] # Quiet
LockedDep(d) == \E c \in Clients : req[c].op \in {"desire", "canary"} /\ req[c].dep = d

Idle == [pc |-> "idle"]
Pass == {Idle}
  \cup [pc : {"observe", "drifted", "begin", "apply", "upsert", "verify", "ready", "failed",
              "delete", "gone", "deleted", "note"},
        row : Project, todo : SUBSET Kinds]
  \cup [pc : {"settle"}, dep : Deployments, row : Deployment]

TypeOK ==
  /\ project \in Project /\ ns \in Namespace
  /\ dep \in [Deployments -> Deployment]
  /\ req \in [Clients -> Request] /\ rec \in [Reconcilers -> Pass]
  /\ calls \in 0 .. MaxCalls /\ faults \in 0 .. MaxFaults
  /\ disturbed \in BOOLEAN /\ overwritten \in BOOLEAN

(* A new project, whose namespace name may be taken, or one long provisioned *)
(* whose deployments serve nothing yet.                                    *)
Init ==
  /\ \/ /\ project = [status |-> "PENDING", quota |-> 0, noted |-> FALSE]
        /\ ns \in {NoNamespace, Foreign}
        /\ dep = [d \in Deployments |-> NoDeployment]
     \/ /\ project = [status |-> "READY", quota |-> 0, noted |-> FALSE]
        /\ ns = Provisioned(0)
        /\ dep = [d \in Deployments |-> [NoDeployment EXCEPT !.status = "PENDING"]]
  /\ req = [c \in Clients |-> Quiet]
  /\ rec = [p \in Reconcilers |-> Idle]
  /\ calls = 0 /\ faults = 0
  /\ disturbed = FALSE /\ overwritten = FALSE

-----------------------------------------------------------------------------
(* Requests. *)

Call == calls < MaxCalls /\ calls' = calls + 1

(* The project row can be locked, or updated, when no transaction holds it.  *)
RowFree_NoLock == TRUE
RowFree == ~Locked
Begin(c, r) == req[c] = Quiet /\ RowFree /\ req' = [req EXCEPT ![c] = r]
End(c)      == req' = [req EXCEPT ![c] = Quiet]

(* set_gpu_quota: another value, not below what the deployments hold. *)
QuotaRead(c, q) ==
  /\ Call
  /\ q # project.quota /\ q >= InUse(Deployments)
  /\ Begin(c, [op |-> "quota", quota |-> q])
  /\ UNCHANGED <<project, ns, dep, rec, faults, history>>

QuotaCommit(c) ==
  /\ req[c].op = "quota"
  /\ project' = [project EXCEPT !.quota = req[c].quota]
  /\ End(c)
  /\ disturbed' = TRUE
  /\ UNCHANGED <<ns, dep, rec, bounds, overwritten>>

RequestDelete ==
  /\ Call
  /\ RowFree
  /\ <<project.status, "DELETING">> \in ProjectEdges
  /\ project' = [project EXCEPT !.status = "DELETING", !.noted = FALSE]
  /\ UNCHANGED <<ns, dep, req, rec, faults, history>>

CreateDeployment(d) ==
  /\ Call
  /\ dep[d].status = "NONE" /\ project.status = "READY"
  /\ dep' = [dep EXCEPT ![d].status = "PENDING"]
  /\ UNCHANGED <<project, ns, req, rec, faults, history>>

(* check_gpus: what d would hold fits beside what the others hold. *)
Fits(d, R) == Sum(d, R) = 0 \/ InUse(Deployments \ {d}) + Sum(d, R) <= project.quota
LiveDep(d) == dep[d].status \notin {"NONE", "DELETING", "DELETED"}

(* _deploy, in its second transaction: a new revision becomes the desired one.*)
DeployRead(c, d, r) ==
  /\ Call
  /\ LiveDep(d) /\ ~LockedDep(d)
  /\ r \notin Held(d)
  /\ Fits(d, Held(d) \cup {r})
  /\ Begin(c, [op |-> "desire", dep |-> d, rev |-> r])
  /\ UNCHANGED <<project, ns, dep, rec, faults, history>>

(* rollback to an earlier one. *)
RollbackRead(c, d, r) ==
  /\ Call
  /\ LiveDep(d) /\ ~LockedDep(d)
  /\ dep[d].canary = {} /\ dep[d].active # {}
  /\ ~(dep[d].active = {r} /\ dep[d].desired = {r})
  /\ Fits(d, Held(d) \cup {r})
  /\ Begin(c, [op |-> "desire", dep |-> d, rev |-> r])
  /\ UNCHANGED <<project, ns, dep, rec, faults, history>>

DesireCommit(c) ==
  /\ req[c].op = "desire"
  /\ dep' = [dep EXCEPT ![req[c].dep].desired = {req[c].rev}, ![req[c].dep].status = "DEPLOYING"]
  /\ End(c)
  /\ UNCHANGED <<project, ns, rec, bounds, history>>

(* RolloutService.start. *)
CanaryRead(c, d, r) ==
  /\ Call
  /\ dep[d].status = "READY" /\ ~LockedDep(d)
  /\ dep[d].active # {} /\ dep[d].desired = dep[d].active /\ r \notin dep[d].active
  /\ dep[d].canary = {}
  /\ Fits(d, Held(d) \cup {r})
  /\ Begin(c, [op |-> "canary", dep |-> d, rev |-> r])
  /\ UNCHANGED <<project, ns, dep, rec, faults, history>>

CanaryCommit(c) ==
  /\ req[c].op = "canary"
  /\ dep' = [dep EXCEPT ![req[c].dep].canary = {req[c].rev}, ![req[c].dep].stable = @ \cup dep[req[c].dep].active]
  /\ End(c)
  /\ UNCHANGED <<project, ns, rec, bounds, history>>

DeleteDeployment(d) ==
  /\ Call
  /\ LiveDep(d) /\ ~LockedDep(d)
  /\ dep[d].canary = {}
  /\ dep' = [dep EXCEPT ![d].status = "DELETING"]
  /\ UNCHANGED <<project, ns, req, rec, faults, history>>

-----------------------------------------------------------------------------
(* The pass over the project. *)

To(p, pc) == rec' = [rec EXCEPT ![p].pc = pc]
Stop(p)   == rec' = [rec EXCEPT ![p] = Idle]
FirstStep == [s \in ProjectStatus |->
  IF s = "READY" THEN "observe" ELSE IF s = "PROVISIONING" THEN "apply"
  ELSE IF s = "DELETING" THEN "delete" ELSE "begin"]

Load(p) ==
  /\ rec[p] = Idle
  /\ project.status # "DELETED"
  /\ rec' = [rec EXCEPT ![p] = [pc |-> FirstStep[project.status], row |-> project, todo |-> {}]]
  /\ UNCHANGED <<project, ns, dep, req, bounds, history>>

Observe(p) ==
  /\ rec[p].pc = "observe"
  /\ IF Converged(rec[p].row.quota) THEN Stop(p) ELSE To(p, "drifted")
  /\ UNCHANGED <<project, ns, dep, req, bounds, history>>

(* _write: the row in hand with a new status, if nobody moved the project.   *)
(* Otherwise Conflict ends the pass.                                       *)
Stored(p, row) ==
  /\ project' = row
  /\ overwritten' = (overwritten \/ project.quota # row.quota)
Save(p, row, next) ==
  /\ RowFree
  /\ \/ /\ project.status = rec[p].row.status
        /\ Stored(p, row)
        /\ rec' = [rec EXCEPT ![p] = IF next = "end" THEN Idle ELSE [@ EXCEPT !.pc = next, !.row = row]]
     \/ /\ project.status # rec[p].row.status
        /\ Stop(p)
        /\ UNCHANGED <<project, overwritten>>
  /\ UNCHANGED <<ns, dep, req, bounds, disturbed>>
Move(p, status, next) ==
  /\ <<rec[p].row.status, status>> \in ProjectEdges
  /\ Save(p, [rec[p].row EXCEPT !.status = status, !.noted = FALSE], next)

MoveDrifted(p)      == rec[p].pc = "drifted" /\ Move(p, "DRIFTED", "begin")
MoveProvisioning(p) == rec[p].pc = "begin" /\ Move(p, "PROVISIONING", "apply")
MoveReady(p)        == rec[p].pc = "ready" /\ Move(p, "READY", "end")
MoveFailed(p)       == rec[p].pc = "failed" /\ Move(p, "FAILED", "end")
MoveDeleted(p)      == rec[p].pc = "deleted" /\ Move(p, "DELETED", "end")

(* apply, first half: the namespace, never one that is not the project's,    *)
(* and the list of what differs in it. The labels are patched here.        *)
ApplyNamespace(p) ==
  /\ rec[p].pc = "apply"
  /\ \/ /\ ns.state = "absent"
        /\ ns' = [NoNamespace EXCEPT !.state = "active", !.ours = TRUE, !.obj["labels"] = "good"]
     \/ /\ ns.state = "active" /\ ns.ours
        /\ ns' = [ns EXCEPT !.obj["labels"] = "good"]
  /\ rec' = [rec EXCEPT ![p].pc = "upsert", ![p].todo =
       { k \in Kinds : ns'.obj[k] # "good" \/ (k = "quota" /\ ns'.hard # rec[p].row.quota) }]
  /\ UNCHANGED <<project, dep, req, bounds, history>>

ApplyRefused(p) ==
  /\ rec[p].pc = "apply"
  /\ ns.state = "terminating" \/ (ns.state = "active" /\ ~ns.ours)
  /\ To(p, "failed")
  /\ UNCHANGED <<project, ns, dep, req, bounds, history>>

(* apply, second half: one object at a time. A binding that carries someone  *)
(* else's labels or another role is not replaced.                          *)
NextKind(K) == Order[CHOOSE i \in DOMAIN Order : Order[i] \in K /\ \A j \in 1 .. i - 1 : Order[j] \notin K]

Upsert(p) ==
  /\ rec[p].pc = "upsert" /\ rec[p].todo # {}
  /\ LET k == NextKind(rec[p].todo) IN
     IF ns.state = "active" /\ ns.obj[k] # "foreign"
     THEN /\ ns' = [ns EXCEPT !.obj[k] = "good", !.hard = IF k = "quota" THEN rec[p].row.quota ELSE @]
          /\ rec' = [rec EXCEPT ![p].todo = @ \ {k}]
     ELSE To(p, "failed") /\ UNCHANGED ns
  /\ UNCHANGED <<project, dep, req, bounds, history>>

(* A plausible slip: the objects were written, so they must be there. *)
Verify_Trusting(p) ==
  /\ rec[p].pc = "upsert" /\ rec[p].todo = {}
  /\ To(p, "ready") /\ disturbed' = (project.quota # rec[p].row.quota)
  /\ UNCHANGED <<project, ns, dep, req, bounds, overwritten>>
(* READY is earned by observation. *)
Verify(p) ==
  /\ rec[p].pc = "upsert" /\ rec[p].todo = {}
  /\ IF Converged(rec[p].row.quota)
     THEN To(p, "ready") /\ disturbed' = (project.quota # rec[p].row.quota)
     ELSE To(p, "failed") /\ UNCHANGED disturbed
  /\ UNCHANGED <<project, ns, dep, req, bounds, overwritten>>

(* _finish_delete: by name, and a slip that deletes whoever has the name.    *)
DeleteNamespace_ByName(p) ==
  /\ rec[p].pc = "delete"
  /\ ns' = [ns EXCEPT !.state = IF @ = "active" THEN "terminating" ELSE @]
  /\ To(p, "gone")
  /\ UNCHANGED <<project, dep, req, bounds, history>>
DeleteNamespace(p) ==
  /\ rec[p].pc = "delete"
  /\ \/ /\ ns.state = "absent" \/ (ns.ours /\ ns.state = "terminating")
        /\ To(p, "gone") /\ UNCHANGED ns
     \/ /\ ns.state = "active" /\ ns.ours
        /\ ns' = [ns EXCEPT !.state = "terminating"]
        /\ To(p, "gone")
     \/ /\ ns.state # "absent" /\ ~ns.ours
        /\ IF rec[p].row.noted THEN Stop(p) ELSE To(p, "note")
        /\ UNCHANGED ns
  /\ UNCHANGED <<project, dep, req, bounds, history>>

CheckGone(p) ==
  /\ rec[p].pc = "gone"
  /\ IF ns.state = "absent" THEN To(p, "deleted") ELSE Stop(p)
  /\ UNCHANGED <<project, ns, dep, req, bounds, history>>

Note(p) == rec[p].pc = "note" /\ Save(p, [rec[p].row EXCEPT !.noted = TRUE], "end")

-----------------------------------------------------------------------------
(* The passes over the deployments and rollouts, as far as they move GPUs. *)

LoadDep(p, d) ==
  /\ rec[p] = Idle
  /\ dep[d].status \in {"DEPLOYING", "READY", "DEGRADED", "DELETING"}
  /\ dep[d].status # "DELETING" => dep[d].canary = {}
  /\ rec' = [rec EXCEPT ![p] = [pc |-> "settle", dep |-> d, row |-> dep[d]]]
  /\ UNCHANGED <<project, ns, dep, req, bounds, history>>

(* A write of the pass: the row in hand with a new status, the desired        *)
(* revision as the active one when it was found served, none when it is gone.*)
(* It may go on with that row to another write.                            *)
Settled(row, s) ==
  [row EXCEPT !.status = s,
              !.active = IF s = "READY" THEN row.desired ELSE IF s = "DELETED" THEN {} ELSE @,
              !.desired = IF s = "DELETED" THEN {} ELSE @]

SaveDep(p, s) ==
  /\ rec[p].pc = "settle"
  /\ <<rec[p].row.status, s>> \in DeploymentEdges
  /\ LET d == rec[p].dep IN
     /\ ~LockedDep(d)
     /\ IF dep[d].status = rec[p].row.status
        THEN /\ dep' = [dep EXCEPT ![d] = [Settled(rec[p].row, s) EXCEPT
                                             !.canary = dep[d].canary, !.stable = dep[d].stable]]
             /\ rec' = [rec EXCEPT ![p].row = Settled(@, s)]
             /\ overwritten' = (overwritten \/ dep[d].desired # rec[p].row.desired
                                            \/ dep[d].active # rec[p].row.active)
        ELSE Stop(p) /\ UNCHANGED <<dep, overwritten>>
  /\ UNCHANGED <<project, ns, req, bounds, disturbed>>

LeaveDep(p) ==
  /\ rec[p].pc = "settle"
  /\ Stop(p)
  /\ UNCHANGED <<project, ns, dep, req, bounds, history>>

(* A rollout ends: its canary becomes the stable revision, or goes. *)
RolloutSucceeds(d) ==
  /\ dep[d].canary # {} /\ ~LockedDep(d)
  /\ dep' = [dep EXCEPT ![d].desired = dep[d].canary, ![d].active = dep[d].canary,
                        ![d].canary = {}, ![d].stable = {}]
  /\ UNCHANGED <<project, ns, req, rec, bounds, history>>

RolloutRolledBack(d) ==
  /\ dep[d].canary # {}
  /\ dep' = [dep EXCEPT ![d].canary = {}, ![d].stable = {}]
  /\ UNCHANGED <<project, ns, req, rec, bounds, history>>

-----------------------------------------------------------------------------
(* The cluster and the faults. *)

NamespaceGone ==
  /\ ns.state = "terminating"
  /\ ns' = NoNamespace
  /\ UNCHANGED <<project, dep, req, rec, bounds, history>>

Fault == faults < MaxFaults /\ faults' = faults + 1

(* Somebody edits or removes an object, takes a binding over, deletes the    *)
(* namespace, or creates one of that name.                                 *)
Edit(k, how) ==
  /\ Fault
  /\ ns.state = "active" /\ ns.ours
  /\ how \in {"missing", "drifted", "foreign"}
  /\ how = "foreign" => k = "bindings"
  /\ how = "missing" => k # "labels"
  /\ ns' = [ns EXCEPT !.obj[k] = how]
  /\ disturbed' = TRUE
  /\ UNCHANGED <<project, dep, req, rec, calls, overwritten>>

NamespaceDeleted ==
  /\ Fault
  /\ ns.state = "active"
  /\ ns' = [ns EXCEPT !.state = "terminating"]
  /\ disturbed' = TRUE
  /\ UNCHANGED <<project, dep, req, rec, calls, overwritten>>

NamespaceTaken ==
  /\ Fault
  /\ ns.state = "absent"
  /\ ns' = Foreign
  /\ disturbed' = TRUE
  /\ UNCHANGED <<project, dep, req, rec, calls, overwritten>>

(* A call of apply fails, or the process dies. *)
ApiError(p) ==
  /\ Fault
  /\ rec[p].pc \in {"apply", "upsert"}
  /\ To(p, "failed")
  /\ UNCHANGED <<project, ns, dep, req, calls, history>>

Crash(p) ==
  /\ Fault
  /\ rec[p] # Idle
  /\ Stop(p)
  /\ UNCHANGED <<project, ns, dep, req, calls, history>>

-----------------------------------------------------------------------------
ProjectPass(p) ==
  \/ Observe(p) \/ MoveDrifted(p) \/ MoveProvisioning(p)
  \/ ApplyNamespace(p) \/ ApplyRefused(p) \/ Upsert(p) \/ Verify(p)
  \/ MoveReady(p) \/ MoveFailed(p)
  \/ DeleteNamespace(p) \/ CheckGone(p) \/ MoveDeleted(p) \/ Note(p)

Requests ==
  \/ RequestDelete
  \/ \E c \in Clients : QuotaCommit(c) \/ DesireCommit(c) \/ CanaryCommit(c)
  \/ \E c \in Clients, q \in 0 .. MaxQuota : QuotaRead(c, q)
  \/ \E c \in Clients, d \in Deployments, r \in Revisions :
       DeployRead(c, d, r) \/ RollbackRead(c, d, r) \/ CanaryRead(c, d, r)
  \/ \E d \in Deployments : CreateDeployment(d) \/ DeleteDeployment(d)

Passes ==
  \/ \E p \in Reconcilers : Load(p) \/ ProjectPass(p) \/ LeaveDep(p)
  \/ \E p \in Reconcilers, d \in Deployments : LoadDep(p, d)
  \/ \E p \in Reconcilers, s \in DeploymentStatus : SaveDep(p, s)
  \/ \E d \in Deployments : RolloutSucceeds(d) \/ RolloutRolledBack(d)

Cluster ==
  \/ NamespaceGone \/ NamespaceDeleted \/ NamespaceTaken
  \/ \E k \in Kinds, how \in {"missing", "drifted", "foreign"} : Edit(k, how)
  \/ \E p \in Reconcilers : ApiError(p) \/ Crash(p)

Next == Requests \/ Passes \/ Cluster
Spec == Init /\ [][Next]_vars

(* A process runs its reconcilers in turn, so each comes round again; a       *)
(* transaction is committed; Kubernetes finishes the removal of a namespace. *)
Fairness ==
  /\ \A p \in Reconcilers : SF_vars(Load(p)) /\ WF_vars(ProjectPass(p)) /\ WF_vars(LeaveDep(p))
  /\ \A c \in Clients : WF_vars(QuotaCommit(c) \/ DesireCommit(c) \/ CanaryCommit(c))
  /\ WF_vars(NamespaceGone)
FairSpec == Spec /\ Fairness

-----------------------------------------------------------------------------
Holds(q) == /\ ns.state = "active" /\ ns.ours
            /\ ns.hard = q /\ \A k \in Kinds : ns.obj[k] = "good"

(* READY says that a pass saw the namespace hold everything the row asks for: *)
(* unless somebody touched either since, it still does.                     *)
ReadyIsReal == project.status = "READY" => disturbed \/ Holds(project.quota)

(* A project is DELETED once its namespace is gone, and nothing the platform  *)
(* does brings it back.                                                    *)
DeletedForGood == project.status = "DELETED" => ~ns.ours

(* The deployments never hold more GPUs than the project was granted, however *)
(* requests overlap - until a pass writes back a row it had read before.     *)
QuotaHolds == overwritten \/ InUse(Deployments) <= project.quota

(* The row is well formed and says of the namespace and of the GPUs what is so. *)
Consistent == TypeOK /\ ReadyIsReal /\ DeletedForGood /\ QuotaHolds

(* A namespace that belongs to somebody else is neither filled nor deleted by *)
(* the platform, whatever the project asks for: the ownership is looked at    *)
(* again in every apply and before every removal. Only an apply that is under *)
(* way, and found the namespace its own, does not notice that it was deleted  *)
(* and somebody took the name.                                             *)
Filling == \E p \in Reconcilers : rec[p].pc = "upsert" /\ rec[p].todo # {}
ForeignUntouched ==
  [][ns.state # "absent" /\ ~ns.ours /\ ns' # ns =>
       \/ faults' > faults \/ ns.state = "terminating"
       \/ Filling /\ disturbed /\ ns'.state = ns.state /\ ~ns'.ours]_vars

(* Once requests and faults are over, the namespace is what the row asks for, *)
(* or gone if the project is deleted, unless somebody else holds its name or  *)
(* one of its bindings.                                                    *)
Blocked == (ns.state # "absent" /\ ~ns.ours) \/ ns.obj["bindings"] = "foreign"
ProjectSettles ==
  <>[](\/ project.status = "READY" /\ Holds(project.quota)
       \/ project.status = "DELETED" /\ ~ns.ours
       \/ Blocked)

=============================================================================
