------------------------------ MODULE Serving ------------------------------
(***************************************************************************)
(* One deployment: its endpoint, its immutable revisions, the canary        *)
(* rollouts between them, the status of the model versions they serve, and  *)
(* the InferenceService that answers the traffic.                          *)
(*                                                                         *)
(* Requests write what should be served. Two reconcilers make it so: the    *)
(* one of deployments keeps the desired revision served, the one of         *)
(* rollouts shifts the traffic to a canary and back. They share the         *)
(* InferenceService: whoever finds an active rollout leaves it to the       *)
(* other. A process runs their passes one after the other; each pass acts   *)
(* on rows it read in an earlier transaction. Requests that lock the        *)
(* deployment row are one action; aborting a rollout, which does not, is a  *)
(* read and a write.                                                       *)
(***************************************************************************)
EXTENDS Naturals, Sequences, FiniteSets

CONSTANTS
  Versions,     \* versions of one model that have passed their evaluation
  Steps,        \* the canary's share of the traffic at each step of a rollout
  Reconcilers,  \* reconciler processes; one, unless two leaders overlap
  MaxCalls,     \* bound on the requests served, aborts and the deletion not counted
  MaxFaults     \* bound on crashed passes and on outages of the InferenceService

ASSUME ServingAssumption ==
  /\ Steps \in Seq(1 .. 100) /\ Len(Steps) > 0
  /\ Steps[Len(Steps)] = 100
  /\ \A i, j \in DOMAIN Steps : i < j => Steps[i] < Steps[j]
  /\ MaxCalls \in Nat /\ MaxFaults \in Nat

VARIABLES
  dep,          \* the deployments row
  endp,         \* the status of its endpoint
  revs,         \* its revisions: revs[r] is the model version revision r serves
  ver,          \* the status of every model version
  rollout,      \* its latest rollout
  isvc,         \* the InferenceService in the cluster
  rec,          \* the pass each reconciler process is in
  abt,          \* the row an abort request has read
  calls, faults, \* how many there have been
  intent,       \* history: the revision last asked for, 0 when none was
  asked,        \* history: the rollout that was last told to abort, 0 when none
  proven        \* history: the steps of the rollout its canary has passed the gate at

rows    == <<dep, endp, revs, ver, rollout>>
bounds  == <<calls, faults>>
history == <<intent, asked, proven>>
vars    == <<rows, isvc, rec, abt, bounds, history>>

-----------------------------------------------------------------------------
DeploymentStatus == {"PENDING", "DEPLOYING", "READY", "DEGRADED", "FAILED", "DELETING", "DELETED"}
EndpointEdges == { <<"PENDING", "READY">>, <<"PENDING", "UNAVAILABLE">>,
                   <<"READY", "UNAVAILABLE">>, <<"UNAVAILABLE", "READY">> }
EndpointStatus == {"PENDING", "READY", "UNAVAILABLE"}
ModelStatus    == {"CANDIDATE", "CHAMPION", "ARCHIVED", "REJECTED"}
RolloutStatus  == {"NONE", "PENDING", "PROGRESSING", "SUCCEEDED", "ROLLED_BACK"}

Deployable(v) == ver[v] \in {"CANDIDATE", "CHAMPION"}
Active(r)     == r.status \in {"PENDING", "PROGRESSING"}
Live          == dep.status \notin {"DELETING", "DELETED"}

Revision   == 0 .. MaxCalls        \* 0: none
StepIndex  == 0 .. Len(Steps)      \* 0: the rollout's current_step is -1
Deployment == [status : DeploymentStatus, desired : Revision, active : Revision]
Rollout    == [id : Revision, from : Revision, to : Revision, status : RolloutStatus,
               step : StepIndex, observing : BOOLEAN, abort : BOOLEAN]
NoRollout  == [id |-> 0, from |-> 0, to |-> 0, status |-> "NONE",
               step |-> 0, observing |-> FALSE, abort |-> FALSE]

(* The resource: the revision it was last told to serve, the share of the    *)
(* traffic that gets, and whether someone else has edited it since.         *)
Absent  == [state |-> "Absent", rev |-> 0, share |-> 0, edited |-> FALSE]
Resource == [state : {"Absent", "Pending", "Ready", "Failed", "Terminating"},
             rev : Revision, share : 0 .. 100, edited : BOOLEAN]

(* A pass: where it is, the rows it goes by, the rollout row it is about to  *)
(* save, what get_status answered, and whether it found something to apply. *)
Idle   == [pc |-> "idle"]
Seen   == [state : {"Absent", "Pending", "Ready", "Failed"}, rev : Revision]
Unseen == [state |-> "Absent", rev |-> 0]
Blank  == [status |-> "PENDING", desired |-> 0, active |-> 0]
DeploymentPass ==
  [pc : {"delete", "gone", "deleted", "status", "match", "degrade", "move", "apply",
         "restatus", "judge", "ready", "fail"},
   dep : Deployment, endp : EndpointStatus, seen : Seen, need : BOOLEAN]
RolloutPass ==
  [pc : {"candidate", "shift", "save", "look", "succeed", "repair", "rollback"},
   row : Rollout, goal : Rollout]

TypeOK ==
  /\ dep \in Deployment
  /\ endp \in EndpointStatus
  /\ revs \in Seq(Versions)
  /\ ver \in [Versions -> ModelStatus]
  /\ rollout \in Rollout
  /\ isvc \in Resource
  /\ rec \in [Reconcilers -> {Idle} \cup DeploymentPass \cup RolloutPass]
  /\ abt \in Rollout
  /\ calls \in 0 .. MaxCalls /\ faults \in 0 .. MaxFaults
  /\ intent \in Revision /\ asked \in Revision
  /\ proven \subseteq DOMAIN Steps

(* DeploymentService.create: the deployment and its endpoint. One version of  *)
(* the model may have been made champion by hand before.                   *)
Init ==
  /\ dep = Blank
  /\ endp = "PENDING"
  /\ revs = << >>
  /\ ver \in [Versions -> {"CANDIDATE", "CHAMPION"}]
  /\ Cardinality({v \in Versions : ver[v] = "CHAMPION"}) <= 1
  /\ rollout = NoRollout
  /\ isvc = Absent
  /\ rec = [p \in Reconcilers |-> Idle]
  /\ abt = NoRollout
  /\ calls = 0 /\ faults = 0
  /\ intent = 0 /\ asked = 0 /\ proven = {}

-----------------------------------------------------------------------------
(* Requests. *)

Call == calls < MaxCalls /\ calls' = calls + 1

(* promote_version and restore_champion: v becomes champion in place of      *)
(* whoever was.                                                            *)
Crowned(v) == [w \in Versions |-> IF w = v THEN "CHAMPION"
                                  ELSE IF ver[w] = "CHAMPION" THEN "ARCHIVED" ELSE ver[w]]

(* A new revision, desired at once. Its first transaction only looks up what *)
(* the second checks again under the locks.                                *)
Deploy(v) ==
  /\ Call
  /\ Live /\ Deployable(v)
  /\ revs # << >> => revs[Len(revs)] # v
  /\ revs' = Append(revs, v)
  /\ dep' = [status |-> "DEPLOYING", desired |-> Len(revs) + 1, active |-> dep.active]
  /\ intent' = Len(revs) + 1
  /\ UNCHANGED <<endp, ver, rollout, isvc, rec, abt, faults, asked, proven>>

(* A revision for a rollout that is about to start: created, not desired.    *)
EnsureRevision(v) ==
  /\ Call
  /\ Live /\ Deployable(v)
  /\ \A r \in DOMAIN revs : revs[r] # v
  /\ revs' = Append(revs, v)
  /\ UNCHANGED <<dep, endp, ver, rollout, isvc, rec, abt, faults, history>>

(* RolloutService.start, with the revision ensured for its version: the      *)
(* earliest one.                                                           *)
CanStart(r) ==
  /\ dep.status = "READY" /\ dep.active # 0
  /\ dep.desired = dep.active /\ r # dep.active
  /\ ~ Active(rollout)
  /\ Deployable(revs[r])

Start(r) ==
  /\ Call
  /\ \A s \in 1 .. r - 1 : revs[s] # revs[r]
  /\ CanStart(r)
  /\ rollout' = [id |-> rollout.id + 1, from |-> dep.active, to |-> r, status |-> "PENDING",
                 step |-> 0, observing |-> FALSE, abort |-> FALSE]
  /\ proven' = {}
  /\ UNCHANGED <<dep, endp, revs, ver, isvc, rec, abt, faults, intent, asked>>

(* RolloutService.abort. *)
AbortRead ==
  /\ abt = NoRollout
  /\ Active(rollout) /\ ~ rollout.abort
  /\ abt' = rollout
  /\ UNCHANGED <<rows, isvc, rec, bounds, history>>

AbortWrite ==
  /\ abt # NoRollout
  /\ rollout.id = abt.id /\ rollout.status = abt.status
  /\ rollout' = IF abt.status = "PENDING" THEN [abt EXCEPT !.status = "ROLLED_BACK"]
                                          ELSE [abt EXCEPT !.abort = TRUE]
  /\ abt' = NoRollout
  /\ asked' = abt.id
  /\ UNCHANGED <<dep, endp, revs, ver, isvc, rec, bounds, intent, proven>>

AbortGiveUp ==
  /\ abt # NoRollout
  /\ abt' = NoRollout
  /\ UNCHANGED <<rows, isvc, rec, bounds, history>>

(* DeploymentService.rollback: serve revision r again.                      *)
Rollback(r) ==
  /\ Call
  /\ Live /\ ~ Active(rollout)
  /\ dep.active # 0
  /\ ~ (r = dep.active /\ r = dep.desired)
  /\ ver[revs[r]] \in {"ARCHIVED", "CHAMPION"}
  /\ ver' = Crowned(revs[r])
  /\ dep' = [status |-> "DEPLOYING", desired |-> r, active |-> dep.active]
  /\ intent' = r
  /\ UNCHANGED <<endp, revs, rollout, isvc, rec, abt, faults, asked, proven>>

(* Admission is closed in the transaction that records the intent to delete. *)
RequestDelete ==
  /\ Live /\ ~ Active(rollout)
  /\ endp' = "UNAVAILABLE"
  /\ dep' = [dep EXCEPT !.status = "DELETING"]
  /\ UNCHANGED <<revs, ver, rollout, isvc, rec, abt, bounds, history>>

(* PromotionService.promote: refused while a rollout is to decide.          *)
CanPromote_Unreserved(v) == ver[v] = "CANDIDATE"
CanPromote(v) ==
  /\ Call
  /\ ver[v] = "CANDIDATE"
  /\ ~ (Active(rollout) /\ revs[rollout.to] = v)

Promote(v) ==
  /\ Call
  /\ CanPromote(v)
  /\ ver' = Crowned(v)
  /\ UNCHANGED <<dep, endp, revs, rollout, isvc, rec, abt, faults, history>>

-----------------------------------------------------------------------------
(* The serving provider, as both reconcilers use it. *)

Status == [state |-> IF isvc.state = "Terminating" THEN "Pending" ELSE isvc.state,
           rev |-> isvc.rev]

Matches_RevisionOnly(r, share) == isvc.state # "Absent" /\ isvc.rev = r
Matches(r, share) ==
  isvc.state # "Absent" /\ isvc.rev = r /\ isvc.share = share /\ ~ isvc.edited

(* deploy(): create, replace, or leave alone what already matches.          *)
Applied(r, share) ==
  IF Matches(r, share) THEN isvc
  ELSE [state |-> IF isvc.state = "Terminating" THEN "Terminating" ELSE "Pending",
        rev |-> r, share |-> share, edited |-> FALSE]

Serving_It(seen, r) == seen.state = "Ready" /\ seen.rev = r

-----------------------------------------------------------------------------
(* DeploymentReconciler. *)

Becomes(p, q) == rec' = [rec EXCEPT ![p] = q]

Reconcilable_OnlyDesired == dep.desired # 0 /\ dep.status # "DELETED"
Reconcilable == dep.status = "DELETING" \/ (dep.desired # 0 /\ dep.status # "DELETED")

RollingOut_Ever == rollout.status # "NONE"
RollingOut_Ignored == FALSE
RollingOut == Active(rollout)

DeploymentLoad(p) ==
  /\ rec[p] = Idle
  /\ Reconcilable
  /\ \/ dep.status = "DELETING"
     \/ dep.status # "FAILED" /\ ~ RollingOut
  /\ Becomes(p, [pc |-> IF dep.status = "DELETING" THEN "delete" ELSE "status",
                 dep |-> dep, endp |-> endp, seen |-> Unseen, need |-> FALSE])
  /\ UNCHANGED <<rows, isvc, abt, bounds, history>>

(* The resource is deleted, which may take its time, and the deployment with *)
(* it once it is seen to be gone.                                          *)
Delete(p) ==
  /\ rec[p].pc = "delete"
  /\ isvc' = IF isvc.state = "Absent" THEN Absent ELSE [isvc EXCEPT !.state = "Terminating"]
  /\ Becomes(p, [rec[p] EXCEPT !.pc = "gone"])
  /\ UNCHANGED <<rows, abt, bounds, history>>

SeenGone_Assumed == TRUE
SeenGone == isvc.state = "Absent"

CheckGone(p) ==
  /\ rec[p].pc = "gone"
  /\ Becomes(p, IF SeenGone THEN [rec[p] EXCEPT !.pc = "deleted"] ELSE Idle)
  /\ UNCHANGED <<rows, isvc, abt, bounds, history>>

MarkDeleted(p) ==
  /\ rec[p].pc = "deleted"
  /\ dep.status = "DELETING"
  /\ dep' = [status |-> "DELETED", desired |-> 0, active |-> 0]
  /\ Becomes(p, Idle)
  /\ UNCHANGED <<endp, revs, ver, rollout, isvc, abt, bounds, history>>

GetStatus(p) ==
  /\ rec[p].pc = "status"
  /\ Becomes(p, [rec[p] EXCEPT !.pc = "match", !.seen = Status])
  /\ UNCHANGED <<rows, isvc, abt, bounds, history>>

(* Compare what is there with what should be, and decide. A READY deployment *)
(* that is what it should be is left alone.                                *)
Compare(p) ==
  /\ rec[p].pc = "match"
  /\ LET q       == rec[p]
         there   == q.seen.state # "Absent"
         drifted == there /\ ~ Matches(q.dep.desired, 100)
         next    == IF q.dep.status = "READY" THEN "degrade"
                    ELSE IF q.dep.status = "DEGRADED" THEN "move" ELSE "apply"
     IN IF q.dep.status = "READY" /\ Serving_It(q.seen, q.dep.desired) /\ ~ drifted
          THEN Becomes(p, Idle)
          ELSE Becomes(p, [q EXCEPT !.pc = next,
                             !.need = ~ there \/ q.seen.rev # q.dep.desired \/ drifted])
  /\ UNCHANGED <<rows, isvc, abt, bounds, history>>

(* The row as the pass last read or wrote it, with another status: every     *)
(* update writes desired and active as well.                               *)
Row(q, status) == [status |-> status, desired |-> q.dep.desired, active |-> q.dep.active]

DegradedEndpoint_Kept == endp
DegradedEndpoint_Undeclared == "DEGRADED"
DegradedEndpoint == "UNAVAILABLE"

Degrade(p) ==
  /\ rec[p].pc = "degrade"
  /\ LET q == rec[p] IN
       /\ dep.status = q.dep.status
       /\ endp = q.endp /\ <<q.endp, "UNAVAILABLE">> \in EndpointEdges
       /\ endp' = DegradedEndpoint
       /\ dep' = Row(q, "DEGRADED")
       /\ Becomes(p, [q EXCEPT !.pc = "move", !.dep = dep', !.endp = endp'])
  /\ UNCHANGED <<revs, ver, rollout, isvc, abt, bounds, history>>

Redeploy(p) ==
  /\ rec[p].pc = "move"
  /\ LET q == rec[p] IN
       /\ dep.status = q.dep.status
       /\ dep' = Row(q, "DEPLOYING")
       /\ Becomes(p, [q EXCEPT !.pc = "apply", !.dep = dep'])
  /\ UNCHANGED <<endp, revs, ver, rollout, isvc, abt, bounds, history>>

Apply(p) ==
  /\ rec[p].pc = "apply"
  /\ LET q == rec[p] IN
       /\ isvc' = IF q.need THEN Applied(q.dep.desired, 100) ELSE isvc
       /\ Becomes(p, [q EXCEPT !.pc = IF q.need THEN "restatus" ELSE "judge"])
  /\ UNCHANGED <<rows, abt, bounds, history>>

StatusAgain(p) ==
  /\ rec[p].pc = "restatus"
  /\ Becomes(p, [rec[p] EXCEPT !.pc = "judge", !.seen = Status])
  /\ UNCHANGED <<rows, isvc, abt, bounds, history>>

Judge(p) ==
  /\ rec[p].pc = "judge"
  /\ LET q == rec[p] IN
       Becomes(p, IF Serving_It(q.seen, q.dep.desired) THEN [q EXCEPT !.pc = "ready"]
                  ELSE IF q.seen.state = "Failed" THEN [q EXCEPT !.pc = "fail"] ELSE Idle)
  /\ UNCHANGED <<rows, isvc, abt, bounds, history>>

MarkReady(p) ==
  /\ rec[p].pc = "ready"
  /\ LET q == rec[p] IN
       /\ dep.status = q.dep.status
       /\ q.endp # "READY" => endp = q.endp
       /\ endp' = IF q.endp # "READY" THEN "READY" ELSE endp
       /\ dep' = [status |-> "READY", desired |-> q.dep.desired, active |-> q.dep.desired]
  /\ Becomes(p, Idle)
  /\ UNCHANGED <<revs, ver, rollout, isvc, abt, bounds, history>>

MarkFailed(p) ==
  /\ rec[p].pc = "fail"
  /\ LET q == rec[p] IN
       /\ dep.status = q.dep.status
       /\ q.endp = "READY" => endp = "READY"
       /\ endp' = IF q.endp = "READY" THEN "UNAVAILABLE" ELSE endp
       /\ dep' = Row(q, "FAILED")
  /\ Becomes(p, Idle)
  /\ UNCHANGED <<revs, ver, rollout, isvc, abt, bounds, history>>

-----------------------------------------------------------------------------
(* RolloutReconciler. *)

Share(step) == IF step = 0 THEN 0 ELSE Steps[step]

RolloutLoad(p) ==
  /\ rec[p] = Idle
  /\ Active(rollout)
  /\ Becomes(p, [pc |-> "candidate", row |-> rollout, goal |-> rollout])
  /\ UNCHANGED <<rows, isvc, abt, bounds, history>>

(* The row the pass would save: at the given step, not yet observing it.     *)
AtStep(row, step) ==
  [row EXCEPT !.status = "PROGRESSING", !.step = step, !.observing = FALSE]

CheckCandidate(p) ==
  /\ rec[p].pc = "candidate"
  /\ LET q == rec[p] IN
       Becomes(p, IF ~ Deployable(revs[q.row.to]) \/ q.row.abort THEN [q EXCEPT !.pc = "repair"]
                  ELSE IF q.row.status = "PENDING"
                    THEN [q EXCEPT !.pc = "shift", !.goal = AtStep(q.row, 1)]
                  ELSE [q EXCEPT !.pc = "look"])
  /\ UNCHANGED <<rows, isvc, abt, bounds, history>>

(* _apply, then _save: the share of the traffic first, the row second.      *)
Shift(p) ==
  /\ rec[p].pc = "shift"
  /\ isvc' = Applied(rec[p].row.to, Share(rec[p].goal.step))
  /\ Becomes(p, [rec[p] EXCEPT !.pc = "save"])
  /\ UNCHANGED <<rows, abt, bounds, history>>

Save(p) ==
  /\ rec[p].pc = "save"
  /\ LET q == rec[p] IN
       /\ rollout.id = q.row.id /\ rollout.status = q.row.status
       /\ rollout' = q.goal
  /\ Becomes(p, Idle)
  /\ UNCHANGED <<dep, endp, revs, ver, isvc, abt, bounds, history>>

(* _progress. A canary that is lost, replaced or failed is rolled back; one  *)
(* that is loading is waited for, up to a time.                            *)
CanaryLost(row) ==
  Status.state \in {"Absent", "Failed"} \/ Status.rev # row.to

CanaryServes(row) == Status.state = "Ready" /\ ~ CanaryLost(row)

(* Once it serves, its own metrics are judged: the gate fails, or wants to   *)
(* see more, or passes and the next step is due.                           *)
Verdicts_ImpatientGate(row) == {"PASS"}
Verdicts(row) == IF row.observing THEN {"PASS", "WAIT", "FAIL"} ELSE {"OBSERVE"}

NextStep_Jump(step) == Len(Steps)
NextStep_Same(step) == step
NextStep(step) == step + 1

AfterVerdict(q, verdict) ==
  IF verdict = "OBSERVE" THEN [q EXCEPT !.pc = "save", !.goal = [q.row EXCEPT !.observing = TRUE]]
  ELSE IF verdict = "FAIL" THEN [q EXCEPT !.pc = "repair"]
  ELSE IF verdict = "WAIT" THEN Idle
  ELSE IF q.row.step < Len(Steps)
    THEN [q EXCEPT !.pc = "shift", !.goal = AtStep(q.row, NextStep(q.row.step))]
  ELSE [q EXCEPT !.pc = "succeed"]

Look(p) ==
  /\ rec[p].pc = "look"
  /\ LET q == rec[p] IN
       \/ /\ CanaryLost(q.row)
          /\ Becomes(p, [q EXCEPT !.pc = "repair"])
          /\ UNCHANGED proven
       \/ /\ ~ CanaryLost(q.row) /\ ~ CanaryServes(q.row)
          /\ \/ Becomes(p, Idle)
             \/ Becomes(p, [q EXCEPT !.pc = "repair"])     \* ready_timeout_seconds
          /\ UNCHANGED proven
       \/ /\ CanaryServes(q.row)
          /\ \E verdict \in Verdicts(q.row) :
               /\ Becomes(p, AfterVerdict(q, verdict))
               /\ proven' = IF verdict = "PASS" /\ q.row.observing /\ q.row.id = rollout.id
                                 /\ isvc.share >= Share(q.row.step)
                              THEN proven \cup {q.row.step} ELSE proven
  /\ UNCHANGED <<rows, isvc, abt, bounds, intent, asked>>

(* One transaction: the rollout is done, the stable revision moves forward,  *)
(* the version is champion.                                                *)
Unchanged(q) == rollout.id = q.row.id /\ rollout.status = q.row.status

Succeed(p) ==
  /\ rec[p].pc = "succeed"
  /\ LET q == rec[p]
         v == revs[q.row.to]
     IN /\ Unchanged(q) /\ Deployable(v)
        /\ rollout' = [q.row EXCEPT !.status = "SUCCEEDED"]
        /\ dep' = [status |-> dep.status, desired |-> q.row.to, active |-> q.row.to]
        /\ ver' = IF ver[v] = "CHAMPION" THEN ver ELSE Crowned(v)
        /\ intent' = q.row.to
  /\ Becomes(p, Idle)
  /\ UNCHANGED <<endp, revs, isvc, abt, bounds, asked, proven>>

(* Refused: the candidate is read again, and rolled back if it is no longer  *)
(* deployable.                                                             *)
NotPromoted(p) ==
  /\ rec[p].pc = "succeed"
  /\ LET q == rec[p] IN
       /\ ~ Unchanged(q) \/ ~ Deployable(revs[q.row.to])
       /\ Becomes(p, IF Deployable(revs[q.row.to]) THEN Idle ELSE [q EXCEPT !.pc = "repair"])
  /\ UNCHANGED <<rows, isvc, abt, bounds, history>>

(* _rollback: serving is repaired first.                                    *)
Repaired_TrafficOnly(row) == IF isvc.state = "Absent" THEN isvc ELSE Applied(row.to, Share(1))
Repaired(row) == Applied(row.from, 100)

Repair(p) ==
  /\ rec[p].pc = "repair"
  /\ isvc' = Repaired(rec[p].row)
  /\ Becomes(p, [rec[p] EXCEPT !.pc = "rollback"])
  /\ UNCHANGED <<rows, abt, bounds, history>>

RollBack(p) ==
  /\ rec[p].pc = "rollback"
  /\ LET q == rec[p]
         v == revs[q.row.to]
     IN /\ Unchanged(q)
        /\ rollout' = [q.row EXCEPT !.status = "ROLLED_BACK"]
        /\ ver' = IF ver[v] = "CANDIDATE" THEN [ver EXCEPT ![v] = "REJECTED"] ELSE ver
  /\ Becomes(p, Idle)
  /\ UNCHANGED <<dep, endp, revs, isvc, abt, bounds, history>>

-----------------------------------------------------------------------------
(* A write that finds the row no longer in the status it was read in raises  *)
(* Conflict, an illegal transition raises as well: the pass ends.           *)
Conflict(p) ==
  /\ LET q == rec[p] IN
       \/ q.pc \in {"save", "rollback"} /\ ~ Unchanged(q)
       \/ q.pc \in {"degrade", "move", "ready", "fail"} /\ dep.status # q.dep.status
       \/ q.pc = "degrade" /\ (endp # q.endp \/ <<q.endp, "UNAVAILABLE">> \notin EndpointEdges)
       \/ q.pc = "ready" /\ q.endp # "READY" /\ endp # q.endp
       \/ q.pc = "fail" /\ q.endp = "READY" /\ endp # "READY"
       \/ q.pc = "deleted" /\ dep.status # "DELETING"
  /\ Becomes(p, Idle)
  /\ UNCHANGED <<rows, isvc, abt, bounds, history>>

Fault == faults < MaxFaults /\ faults' = faults + 1

(* A crash, or any call that fails; reconcile_batch starts over later.       *)
Crash(p) ==
  /\ Fault
  /\ rec[p] # Idle
  /\ Becomes(p, Idle)
  /\ UNCHANGED <<rows, isvc, abt, calls, history>>

-----------------------------------------------------------------------------
(* KServe, by what the adapter relies on. *)

Settle ==
  /\ isvc.state = "Pending"
  /\ \E state \in {"Ready", "Failed"} : isvc' = [isvc EXCEPT !.state = state]
  /\ UNCHANGED <<rows, rec, abt, bounds, history>>

(* It stops answering, is deleted, or is edited, by someone else.            *)
Outage ==
  /\ Fault
  /\ \/ isvc.state = "Ready" /\ isvc' = [isvc EXCEPT !.state = "Pending"]
     \/ isvc.state \in {"Pending", "Ready", "Failed"} /\ isvc' = Absent
     \/ isvc.state \in {"Pending", "Ready"} /\ isvc' = [isvc EXCEPT !.edited = TRUE]
  /\ UNCHANGED <<rows, rec, abt, calls, history>>

Removed ==
  /\ isvc.state = "Terminating"
  /\ isvc' = Absent
  /\ UNCHANGED <<rows, rec, abt, bounds, history>>

-----------------------------------------------------------------------------
Request ==
  \/ \E v \in Versions : Deploy(v) \/ EnsureRevision(v) \/ Promote(v)
  \/ \E r \in DOMAIN revs : Start(r) \/ Rollback(r)
  \/ AbortRead \/ AbortWrite \/ AbortGiveUp \/ RequestDelete

(* A step of a pass that is under way. *)
PassStep(p) ==
  \/ Delete(p) \/ CheckGone(p) \/ MarkDeleted(p)
  \/ GetStatus(p) \/ Compare(p) \/ Degrade(p) \/ Redeploy(p) \/ Apply(p)
  \/ StatusAgain(p) \/ Judge(p) \/ MarkReady(p) \/ MarkFailed(p)
  \/ CheckCandidate(p) \/ Shift(p) \/ Save(p) \/ Look(p)
  \/ Succeed(p) \/ NotPromoted(p) \/ Repair(p) \/ RollBack(p)
  \/ Conflict(p)

Next ==
  \/ Request \/ Settle \/ Outage \/ Removed
  \/ \E p \in Reconcilers : DeploymentLoad(p) \/ RolloutLoad(p) \/ PassStep(p) \/ Crash(p)

Spec == Init /\ [][Next]_vars

(* The loop takes deployments and rollouts in turn, so neither kind of pass  *)
(* is put off for ever, and a pass that has begun goes on unless it crashes. *)
ReconcilerFairness ==
  \A p \in Reconcilers :
    SF_vars(DeploymentLoad(p)) /\ SF_vars(RolloutLoad(p)) /\ WF_vars(PassStep(p))

(* A model that was applied is loaded or refused, a deletion is carried out, *)
(* and waiting ends: ready_timeout_seconds bounds it for a canary that does  *)
(* not load, step_seconds for one that is observed.                        *)
ClusterFairness == WF_vars(Settle) /\ WF_vars(Removed)
GateFairness == \A p \in Reconcilers : SF_vars(Look(p) /\ rec'[p] # Idle)

FairSpec == Spec /\ ReconcilerFairness /\ ClusterFairness /\ GateFairness

-----------------------------------------------------------------------------
(* Safety, of a single reconciler. *)

(* "a deployment is never READY while its endpoint is not", and what it      *)
(* serves is what is desired; traffic is admitted under no other status,     *)
(* except while a deployment that was READY is given a new revision.        *)
ReadyIsReachable ==
  /\ dep.status = "READY" => endp = "READY" /\ dep.active # 0 /\ dep.active = dep.desired
  /\ endp = "READY" => dep.status \in {"READY", "DEPLOYING"}

(* A deleted deployment has left nothing in the cluster and never comes back, *)
(* although passes begun before the deletion may still apply their revision.  *)
DeletedServesNothing == dep.status = "DELETED" => isvc = Absent

(* The stable revision a rollout would return to is the active one, whatever *)
(* is deployed meanwhile.                                                  *)
RollsFromStable == Active(rollout) => Live /\ dep.active = rollout.from

(* Endpoint, deployment, resource and rollout tell one story after every step *)
(* of a pass, a request or a crash.                                        *)
EndpointIsTrue == TypeOK /\ ReadyIsReachable /\ DeletedServesNothing /\ RollsFromStable

(* A canary never has more of the traffic than the step after the one that   *)
(* is recorded, wherever a pass was cut off.                               *)
TrafficByTheBook ==
  Active(rollout) /\ ~ rollout.abort /\ isvc.rev = rollout.to
    => \E step \in {rollout.step, rollout.step + 1} \cap DOMAIN Steps : isvc.share = Steps[step]

(* A rollout succeeds only after its canary passed the gate at every step,    *)
(* with at least the traffic of that step.                                 *)
SuccessIsProven == rollout.status = "SUCCEEDED" => proven = DOMAIN Steps

(* A canary rises step by step, on the evidence of each step.                 *)
CanaryByTheBook == TrafficByTheBook /\ SuccessIsProven

(* "never marked rolled back while the canary may still be taking traffic".   *)
RolledBackAfterRepair ==
  rollout.status = "PROGRESSING" /\ rollout'.status = "ROLLED_BACK" => isvc.rev # rollout.to

(* While a rollout is to decide about a candidate nothing else does: it is    *)
(* champion from the success of the rollout, rejected from its rollback.     *)
CandidateReserved ==
  LET v == revs[rollout.to] IN
    Active(rollout) /\ ver[v] = "CANDIDATE" /\ ver'[v] # ver[v]
      => <<ver'[v], rollout'.status>> \in {<<"CHAMPION", "SUCCEEDED">>, <<"REJECTED", "ROLLED_BACK">>}

(* A rollout ends in the right order: the traffic first, then the record, and  *)
(* only then is its candidate anybody else's business.                     *)
RolloutEndsInOrder == [][RolledBackAfterRepair /\ CandidateReserved]_vars

-----------------------------------------------------------------------------
(* Liveness. *)

(* Every rollout comes to an end. *)
EveryRolloutEnds == Active(rollout) ~> ~ Active(rollout)

(* Every deletion is carried out. *)
EveryDeletionEnds == dep.status = "DELETING" ~> dep.status = "DELETED"

(* LIVENESS. No rollout and no deletion is left half done, whatever faults     *)
(* and requests came between its passes.                                    *)
EveryChangeEnds == EveryRolloutEnds /\ EveryDeletionEnds

(* And once requests and faults are over, a deployment settles, and one that  *)
(* is READY is served by its desired revision with all the traffic.         *)
Settles == <>[](dep.status \in {"PENDING", "READY", "FAILED", "DELETED"})
ServesTheDesired ==
  <>[](dep.status = "READY"
         => isvc = [state |-> "Ready", rev |-> dep.desired, share |-> 100, edited |-> FALSE])
SettlesOnTheDesired == EveryChangeEnds /\ Settles /\ ServesTheDesired

-----------------------------------------------------------------------------
(* What the code's own words say, and its interleavings refute.              *)

(* "`desired_revision` is the platform's intent": it is what was asked for    *)
(* last.                                                                   *)
DesiredIsIntent == dep.status # "DELETED" => dep.desired = intent

(* An abort that was accepted stays on record until the rollout ends:         *)
(* "the reconciler returns all traffic to the stable revision".             *)
AbortIsRemembered == rollout.status = "PROGRESSING" /\ asked = rollout.id => rollout.abort

(* "A rolled-back canary is at 0%."                                         *)
RolledBackHasNoTraffic ==
  rollout.status = "ROLLED_BACK" /\ dep.desired # rollout.to
    => ~ (isvc.rev = rollout.to /\ isvc.state = "Ready")

=============================================================================
