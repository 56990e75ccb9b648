--------------------------- MODULE ServingProofs ---------------------------
(***************************************************************************)
(* Theorems about Serving, for every rollout plan, any number of versions    *)
(* and requests and any number of crashes and outages, with one reconciler.  *)
(***************************************************************************)
EXTENDS Serving, SequenceTheorems, TLAPS

(* The lease lets one process reconcile at a time (see PlatformProofs).      *)
OneReconciler == \A p, q \in Reconcilers : p = q

-----------------------------------------------------------------------------
OnDeletion   == {"delete", "gone", "deleted"}
OnDeployment == {"status", "match", "degrade", "move", "apply", "restatus", "judge", "ready", "fail"}
OnRollout    == {"candidate", "shift", "save", "look", "succeed", "repair", "rollback"}

(* Revisions, rollouts and requests are counted.                            *)
Counted ==
  /\ Len(revs) <= calls /\ rollout.id <= calls
  /\ dep.desired <= Len(revs) /\ dep.active <= Len(revs)

(* A rollout leads from one revision to another, and has been judged at each *)
(* step before the recorded one.                                           *)
Between(r) == r.from \in DOMAIN revs /\ r.to \in DOMAIN revs /\ r.from # r.to
JudgedBefore(step) == \A i \in 1 .. step - 1 : i \in proven
StepOf(r) == (r.status = "PENDING" => r.step = 0) /\ (r.status = "PROGRESSING" => r.step # 0)

(* The share of the traffic belongs to a step, or to the one that follows.   *)
ByTheBook(step) == \E s \in {step, step + 1} \cap DOMAIN Steps : isvc.share = Steps[s]

RolloutOK ==
  /\ Active(rollout) => Between(rollout) /\ JudgedBefore(rollout.step)
  /\ StepOf(rollout)
  /\ SuccessIsProven

(* What an abort request has read is still the rollout's, if that is the same.*)
AbortOK == abt # NoRollout =>
  /\ abt.id <= rollout.id /\ Active(abt) /\ StepOf(abt)
  /\ abt.id = rollout.id =>
       abt.from = rollout.from /\ abt.to = rollout.to /\ JudgedBefore(abt.step)

(* The cluster serves what the rows say, or what a first step of a rollout    *)
(* that was aborted has left.                                              *)
ClusterOK ==
  /\ isvc.state = "Absent" => isvc = Absent
  /\ dep.status = "DELETED" => isvc = Absent /\ \A p \in Reconcilers : rec[p] = Idle
  /\ dep.status = "READY" /\ rollout.status # "PROGRESSING"
       => isvc.rev \in {0, dep.active} \/ isvc.share = Steps[1]
  /\ TrafficByTheBook

(* A pass over a deployment that is being deleted.                          *)
DeletionOK(q) ==
  /\ dep.status = "DELETING"
  /\ q.pc = "deleted" => isvc = Absent

(* A pass over a deployment goes by its row as long as that is READY, and by  *)
(* the stable revision as long as there is a rollout.                       *)
DeploymentOK(q) ==
  /\ q.dep.status \notin {"DELETING", "DELETED"} /\ q.dep.desired # 0
  /\ q.dep.desired <= Len(revs) /\ q.dep.active <= Len(revs)
  /\ Live => endp = q.endp
  /\ dep.status = "READY" => q.dep = dep
  /\ Active(rollout) => q.dep.desired = rollout.from /\ q.dep.active = rollout.from
  /\ q.pc \in {"match", "degrade", "move", "apply", "judge", "ready"} => isvc.rev \in {0, q.seen.rev}
  /\ q.pc = "ready" => q.seen.rev = q.dep.desired

(* A pass over a rollout: the row it loaded is still the rollout's, unless an *)
(* abort came between; then at most the first step has been taken.           *)
RowOK(q) ==
  /\ Active(q.row) /\ Between(q.row) /\ StepOf(q.row)
  /\ q.row.id <= rollout.id /\ dep.active = q.row.from
  /\ q.row.status = "PROGRESSING" <=> rollout.status = "PROGRESSING"
  /\ q.row.status = "PROGRESSING" => q.row.id = rollout.id
  /\ q.row.id = rollout.id =>
       /\ rollout.from = q.row.from /\ rollout.to = q.row.to
       /\ JudgedBefore(q.row.step)
       /\ Active(rollout) /\ ~ rollout.abort => rollout = q.row

(* The next step is taken once this one has been judged.                     *)
NextDue(q) ==
  /\ q.row.step < Len(Steps)
  /\ q.row.status = "PROGRESSING" => q.row.step \in proven
  /\ q.goal = AtStep(q.row, q.row.step + 1)

GoalOK(q) ==
  /\ q.pc \in {"candidate", "shift", "save", "look", "succeed"} /\ ~ q.row.abort
       => (isvc.rev = q.row.to => ByTheBook(q.row.step))
  /\ q.pc \in {"shift", "save", "look", "succeed"} => ~ q.row.abort
  /\ q.pc \in {"look", "succeed"} => q.row.status = "PROGRESSING"
  /\ q.pc = "shift" => NextDue(q)
  /\ q.pc = "save" =>
       \/ NextDue(q) /\ (isvc.rev = q.row.to => isvc.share = Steps[q.row.step + 1])
       \/ q.row.status = "PROGRESSING" /\ q.goal = [q.row EXCEPT !.observing = TRUE]
  /\ q.pc = "succeed" =>
       q.row.step = Len(Steps) /\ q.row.step \in proven /\ isvc.rev \in {0, q.row.to}
  /\ q.pc = "rollback" => isvc.rev \in {0, q.row.from}

PassOK(p) ==
  /\ rec[p].pc \in OnDeletion => DeletionOK(rec[p])
  /\ rec[p].pc \in OnDeployment => DeploymentOK(rec[p])
  /\ rec[p].pc \in OnRollout => RowOK(rec[p]) /\ GoalOK(rec[p])

IInv ==
  /\ TypeOK
  /\ Counted
  /\ ReadyIsReachable
  /\ RollsFromStable
  /\ RolloutOK
  /\ AbortOK
  /\ ClusterOK
  /\ \A p \in Reconcilers : PassOK(p)

-----------------------------------------------------------------------------
(* Operators of the model.                                                  *)

(* A pass is of the kind its place says. *)
LEMMA PassType ==
  ASSUME TypeOK, NEW p \in Reconcilers
  PROVE  /\ rec[p].pc \in OnDeletion \cup OnDeployment => rec[p] \in DeploymentPass
         /\ rec[p].pc \in OnRollout => rec[p] \in RolloutPass
         /\ rec[p].pc = "idle" <=> rec[p] = Idle
BY DEF TypeOK, OnDeletion, OnDeployment, OnRollout, DeploymentPass, RolloutPass, Idle

(* The step of one process changes its own pass only. *)
LEMMA OnePass ==
  ASSUME TypeOK, NEW p \in Reconcilers, NEW q, Becomes(p, q)
  PROVE  /\ rec'[p] = q
         /\ q \in {Idle} \cup DeploymentPass \cup RolloutPass
              => rec' \in [Reconcilers -> {Idle} \cup DeploymentPass \cup RolloutPass]
BY DEF TypeOK, Becomes

(* The plan of a rollout: shares that grow up to all of the traffic. *)
LEMMA Plan ==
  /\ Len(Steps) \in Nat \ {0} /\ DOMAIN Steps = 1 .. Len(Steps)
  /\ \A i \in DOMAIN Steps : Steps[i] \in 1 .. 100
  /\ \A i, j \in DOMAIN Steps : i <= j => Steps[i] <= Steps[j]
  /\ MaxCalls \in Nat /\ MaxFaults \in Nat
<1>1. DOMAIN Steps = 1 .. Len(Steps) /\ Len(Steps) \in Nat \ {0}
  BY ServingAssumption
<1>2. \A i \in DOMAIN Steps : Steps[i] \in 1 .. 100
  BY <1>1, ServingAssumption, ElementOfSeq
<1>3. \A i, j \in DOMAIN Steps : i <= j => Steps[i] <= Steps[j]
  <2>1. SUFFICES ASSUME NEW i \in DOMAIN Steps, NEW j \in DOMAIN Steps, i <= j
                 PROVE  Steps[i] <= Steps[j]
    OBVIOUS
  <2>2. CASE i = j
    BY <2>2, <1>2
  <2>3. CASE i < j
    <3>1. Steps[i] < Steps[j] BY <2>3, ServingAssumption
    <3> QED BY <3>1, <1>2
  <2> QED BY <2>1, <2>2, <2>3, <1>1
<1> QED BY <1>1, <1>2, <1>3, ServingAssumption

(* What deploy() leaves there. *)
LEMMA AppliedSays ==
  ASSUME TypeOK, NEW r \in Revision, NEW share \in 0 .. 100
  PROVE  /\ Applied(r, share) \in Resource
         /\ Applied(r, share).rev = r /\ Applied(r, share).share = share
         /\ Applied(r, share).state # "Absent"
BY DEF TypeOK, Applied, Matches, Resource

(* A provider's answer. *)
LEMMA StatusSays == TypeOK => Status \in Seen /\ Status.rev = isvc.rev
BY DEF TypeOK, Status, Seen, Resource

(* A row with other columns is a row. *)
LEMMA RowSays ==
  ASSUME NEW q \in DeploymentPass, NEW status \in DeploymentStatus
  PROVE  /\ Row(q, status) \in Deployment
         /\ Row(q, status).status = status
         /\ Row(q, status).desired = q.dep.desired /\ Row(q, status).active = q.dep.active
BY DEF DeploymentPass, Deployment, Row

LEMMA AtStepSays ==
  ASSUME NEW row \in Rollout, NEW step \in StepIndex
  PROVE  /\ AtStep(row, step) \in Rollout
         /\ AtStep(row, step).id = row.id /\ AtStep(row, step).from = row.from
         /\ AtStep(row, step).to = row.to /\ AtStep(row, step).abort = row.abort
         /\ AtStep(row, step).status = "PROGRESSING" /\ AtStep(row, step).step = step
BY DEF Rollout, RolloutStatus, AtStep

(* What a step leaves alone stays in order. *)
LEMMA Undisturbed ==
  ASSUME IInv
  PROVE  /\ UNCHANGED <<revs, dep, rollout>> /\ calls' \in {calls, calls + 1} => Counted'
         /\ UNCHANGED <<dep, endp>> => ReadyIsReachable'
         /\ UNCHANGED <<dep, rollout>> => RollsFromStable'
         /\ UNCHANGED <<rollout, revs, proven>> => RolloutOK'
         /\ UNCHANGED <<abt, rollout, proven>> => AbortOK'
         /\ UNCHANGED <<isvc, dep, rollout>> /\ (dep.status = "DELETED" => UNCHANGED rec) => ClusterOK'
         /\ UNCHANGED <<rec, dep, endp, revs, rollout, isvc, proven>>
              => (\A p \in Reconcilers : PassOK(p))'
<1>1. UNCHANGED <<revs, dep, rollout>> /\ calls' \in {calls, calls + 1} => Counted'
  BY Plan DEF IInv, Counted, TypeOK, Rollout, Deployment, Revision
<1>2. UNCHANGED <<dep, endp>> => ReadyIsReachable'
  BY DEF IInv, ReadyIsReachable
<1>3. UNCHANGED <<dep, rollout>> => RollsFromStable'
  BY DEF IInv, RollsFromStable, Live, Active
<1>4. UNCHANGED <<rollout, revs, proven>> => RolloutOK'
  BY DEF IInv, RolloutOK, Active, Between, JudgedBefore, StepOf, SuccessIsProven
<1>5. UNCHANGED <<abt, rollout, proven>> => AbortOK'
  BY DEF IInv, AbortOK, Active, JudgedBefore, StepOf, NoRollout
<1>6. UNCHANGED <<isvc, dep, rollout>> /\ (dep.status = "DELETED" => UNCHANGED rec) => ClusterOK'
  BY DEF IInv, ClusterOK, Absent, TrafficByTheBook, Active
<1>7. UNCHANGED <<rec, dep, endp, revs, rollout, isvc, proven>>
         => (\A p \in Reconcilers : PassOK(p))'
  BY DEF IInv, PassOK, DeletionOK, DeploymentOK, RowOK, GoalOK, NextDue, Live, Active, Between,
         StepOf, JudgedBefore, ByTheBook
<1> QED BY <1>1, <1>2, <1>3, <1>4, <1>5, <1>6, <1>7

-----------------------------------------------------------------------------
(* Requests. *)

LEMMA DeployKeeps ==
  ASSUME IInv, NEW v \in Versions, Deploy(v)
  PROVE  IInv'
<1> USE Plan
<1>1. /\ calls \in Nat /\ calls' = calls + 1 /\ calls' <= MaxCalls /\ Live
      /\ revs \in Seq(Versions) /\ revs' = Append(revs, v)
      /\ dep' = [status |-> "DEPLOYING", desired |-> Len(revs) + 1, active |-> dep.active]
      /\ intent' = Len(revs) + 1
      /\ UNCHANGED <<endp, ver, rollout, isvc, rec, abt, faults, asked, proven>>
  BY DEF IInv, TypeOK, Deploy, Call
<1>2. /\ Len(revs) \in Nat /\ Len(revs) + 1 \in Revision /\ revs' \in Seq(Versions)
      /\ Len(revs') = Len(revs) + 1 /\ DOMAIN revs \subseteq DOMAIN revs'
  BY <1>1 DEF IInv, Counted, Revision
<1>3. dep' \in Deployment /\ dep'.status = "DEPLOYING" /\ dep'.active = dep.active
  BY <1>1, <1>2 DEF IInv, TypeOK, Deployment, DeploymentStatus
<1>4. TypeOK'
  BY <1>1, <1>2, <1>3 DEF IInv, TypeOK, Revision
<1>5. Counted'
  BY <1>1, <1>2 DEF IInv, TypeOK, Counted, Deployment, Rollout, Revision
<1>6. ReadyIsReachable' /\ RollsFromStable'
  BY <1>1, <1>3 DEF IInv, ReadyIsReachable, RollsFromStable, Live, Active
<1>7. RolloutOK'
  BY <1>1, <1>2 DEF IInv, RolloutOK, Active, Between, JudgedBefore, StepOf, SuccessIsProven
<1>8. AbortOK' /\ ClusterOK'
  BY <1>1, <1>3, Undisturbed DEF IInv, ClusterOK, TrafficByTheBook, Active, Live
<1>9. ASSUME NEW p \in Reconcilers PROVE PassOK(p)'
  <2>1. PassOK(p) BY DEF IInv
  <2>2. rec[p].pc \notin OnDeletion BY <2>1, <1>1 DEF PassOK, DeletionOK, Live
  <2>3. rec[p].pc \in OnDeployment => DeploymentOK(rec[p])'
    <3>1. SUFFICES ASSUME rec[p].pc \in OnDeployment PROVE DeploymentOK(rec[p])'
      OBVIOUS
    <3>2. rec[p] \in DeploymentPass BY <3>1, PassType DEF IInv
    <3> QED BY <2>1, <3>1, <3>2, <1>1, <1>2, <1>3
            DEF PassOK, DeploymentOK, Live, Active, DeploymentPass, Deployment, Revision
  <2>4. rec[p].pc \in OnRollout => (RowOK(rec[p]) /\ GoalOK(rec[p]))'
    BY <2>1, <1>1, <1>2, <1>3 DEF PassOK, RowOK, GoalOK, Between, NextDue, Active, StepOf,
                                  JudgedBefore, ByTheBook
  <2> QED BY <2>2, <2>3, <2>4, <1>1 DEF PassOK
<1> QED BY <1>4, <1>5, <1>6, <1>7, <1>8, <1>9 DEF IInv

LEMMA EnsureRevisionKeeps ==
  ASSUME IInv, NEW v \in Versions, EnsureRevision(v)
  PROVE  IInv'
<1> USE Plan
<1>1. /\ calls \in Nat /\ calls' = calls + 1 /\ calls' <= MaxCalls
      /\ revs \in Seq(Versions) /\ revs' = Append(revs, v)
      /\ UNCHANGED <<dep, endp, ver, rollout, isvc, rec, abt, faults, history>>
  BY DEF IInv, TypeOK, EnsureRevision, Call
<1>2. /\ Len(revs) \in Nat /\ revs' \in Seq(Versions)
      /\ Len(revs') = Len(revs) + 1 /\ DOMAIN revs \subseteq DOMAIN revs'
  BY <1>1
<1>3. TypeOK'
  BY <1>1, <1>2 DEF IInv, TypeOK, Revision, history
<1>4. Counted'
  BY <1>1, <1>2 DEF IInv, TypeOK, Counted, Deployment, Rollout, Revision
<1>5. RolloutOK'
  BY <1>1, <1>2 DEF IInv, RolloutOK, Active, Between, JudgedBefore, StepOf, SuccessIsProven, history
<1>6. ReadyIsReachable' /\ RollsFromStable' /\ AbortOK' /\ ClusterOK'
  BY <1>1, Undisturbed DEF history
<1>7. ASSUME NEW p \in Reconcilers PROVE PassOK(p)'
  <2>1. PassOK(p) BY DEF IInv
  <2>2. rec[p].pc \in OnDeletion => DeletionOK(rec[p])'
    BY <2>1, <1>1 DEF PassOK, DeletionOK
  <2>3. rec[p].pc \in OnDeployment => DeploymentOK(rec[p])'
    <3>1. SUFFICES ASSUME rec[p].pc \in OnDeployment PROVE DeploymentOK(rec[p])'
      OBVIOUS
    <3>2. rec[p] \in DeploymentPass BY <3>1, PassType DEF IInv
    <3> QED BY <2>1, <3>1, <3>2, <1>1, <1>2
            DEF PassOK, DeploymentOK, Live, Active, DeploymentPass, Deployment, Revision
  <2>4. rec[p].pc \in OnRollout => (RowOK(rec[p]) /\ GoalOK(rec[p]))'
    BY <2>1, <1>1, <1>2 DEF PassOK, RowOK, GoalOK, Between, NextDue, Active, StepOf,
                            JudgedBefore, ByTheBook, history
  <2> QED BY <2>2, <2>3, <2>4, <1>1 DEF PassOK
<1> QED BY <1>3, <1>4, <1>5, <1>6, <1>7 DEF IInv

(* Who is champion is nothing a pass goes by, until it reads it itself.      *)
LEMMA CrownedSays ==
  ASSUME TypeOK, NEW v \in Versions
  PROVE  Crowned(v) \in [Versions -> ModelStatus]
BY DEF TypeOK, Crowned, ModelStatus

LEMMA PromoteKeeps ==
  ASSUME IInv, NEW v \in Versions, Promote(v)
  PROVE  IInv'
<1>1. /\ calls \in Nat /\ calls' = calls + 1 /\ calls' <= MaxCalls
      /\ ver' \in [Versions -> ModelStatus]
      /\ UNCHANGED <<dep, endp, revs, rollout, isvc, rec, abt, faults, history>>
  BY CrownedSays, Plan DEF IInv, TypeOK, Promote, Call
<1>2. TypeOK'
  BY <1>1 DEF IInv, TypeOK, history
<1>3. UNCHANGED <<intent, asked, proven>>
  BY <1>1 DEF history
<1> QED BY <1>1, <1>2, <1>3, Undisturbed DEF IInv

LEMMA StartKeeps ==
  ASSUME IInv, NEW r \in DOMAIN revs, Start(r)
  PROVE  IInv'
<1> USE Plan
<1>1. /\ calls \in Nat /\ calls' = calls + 1 /\ calls' <= MaxCalls
      /\ revs \in Seq(Versions) /\ Len(revs) \in Nat /\ r \in 1 .. Len(revs)
      /\ dep.status = "READY" /\ dep.active # 0 /\ dep.desired = dep.active /\ r # dep.active
      /\ ~ Active(rollout)
      /\ UNCHANGED <<dep, endp, revs, ver, isvc, rec, abt, faults, intent, asked>>
  BY DEF IInv, TypeOK, Start, CanStart, Call
<1>2. /\ rollout'.id = rollout.id + 1 /\ rollout'.from = dep.active /\ rollout'.to = r
      /\ rollout'.status = "PENDING" /\ rollout'.step = 0 /\ rollout'.abort = FALSE
      /\ rollout' = [id |-> rollout.id + 1, from |-> dep.active, to |-> r, status |-> "PENDING",
                     step |-> 0, observing |-> FALSE, abort |-> FALSE]
      /\ proven' = {}
  BY DEF Start
<1>3. /\ rollout.id \in Nat /\ rollout.id <= calls /\ dep.active \in 1 .. Len(revs)
      /\ Len(revs) <= calls
  BY <1>1 DEF IInv, TypeOK, Counted, Rollout, Deployment, Revision
<1>4. rollout' \in Rollout
  <2>1. rollout.id + 1 \in Revision /\ dep.active \in Revision /\ r \in Revision /\ 0 \in StepIndex
    BY <1>1, <1>3 DEF Revision, StepIndex
  <2> QED BY <2>1, <1>2 DEF Rollout, RolloutStatus
<1>5. TypeOK'
  BY <1>1, <1>2, <1>4 DEF IInv, TypeOK
<1>6. Counted'
  BY <1>1, <1>2, <1>3 DEF IInv, Counted, TypeOK, Deployment, Revision
<1>7. ReadyIsReachable' /\ RollsFromStable'
  BY <1>1, <1>2, Undisturbed DEF RollsFromStable, Live
<1>8. RolloutOK'
  <2>1. Between(rollout)' BY <1>1, <1>2, <1>3 DEF Between
  <2>2. JudgedBefore(rollout.step)' BY <1>2 DEF JudgedBefore
  <2> QED BY <2>1, <2>2, <1>2 DEF RolloutOK, StepOf, SuccessIsProven
<1>9. AbortOK'
  <2>1. abt \in Rollout BY DEF IInv, TypeOK
  <2> QED BY <2>1, <1>1, <1>2, <1>3 DEF IInv, AbortOK, Active, StepOf, Rollout, Revision
<1>10. ClusterOK'
  <2>1. isvc.rev = r => isvc.share = Steps[1]
    BY <1>1 DEF IInv, ClusterOK, Active
  <2>2. TrafficByTheBook'
    BY <2>1, <1>1, <1>2 DEF TrafficByTheBook
  <2> QED BY <2>2, <1>1, <1>2 DEF IInv, ClusterOK, Active
<1>11. ASSUME NEW p \in Reconcilers PROVE PassOK(p)'
  <2>1. PassOK(p) BY DEF IInv
  <2>2. rec[p].pc \notin OnDeletion BY <2>1, <1>1 DEF PassOK, DeletionOK
  <2>3. rec[p].pc \in OnDeployment => DeploymentOK(rec[p])'
    BY <2>1, <1>1, <1>2 DEF PassOK, DeploymentOK, Live
  <2>4. rec[p].pc \in OnRollout => (RowOK(rec[p]) /\ GoalOK(rec[p]))'
    <3>1. SUFFICES ASSUME rec[p].pc \in OnRollout PROVE (RowOK(rec[p]) /\ GoalOK(rec[p]))'
      OBVIOUS
    <3>2. rec[p] \in RolloutPass BY <3>1, PassType DEF IInv
    <3>3. RowOK(rec[p]) /\ GoalOK(rec[p]) BY <2>1, <3>1 DEF PassOK
    <3>4. rec[p].row.status # "PROGRESSING" /\ rec[p].row.id < rollout'.id
      BY <3>2, <3>3, <1>1, <1>2, <1>3 DEF RowOK, Active, RolloutPass, Rollout, Revision
    <3>5. RowOK(rec[p])'
      <4>1. rec[p].row.id <= rollout'.id /\ rec[p].row.id # rollout'.id
        BY <3>2, <3>4, <1>2, <1>3 DEF RolloutPass, Rollout, Revision
      <4> QED BY <4>1, <3>3, <3>4, <1>1, <1>2 DEF RowOK, Active, Between, StepOf
    <3>6. GoalOK(rec[p])'
      BY <3>3, <3>4, <1>1 DEF GoalOK, NextDue, ByTheBook
    <3> QED BY <3>5, <3>6
  <2> QED BY <2>2, <2>3, <2>4, <1>1 DEF PassOK
<1> QED BY <1>5, <1>6, <1>7, <1>8, <1>9, <1>10, <1>11 DEF IInv

LEMMA RollbackKeeps ==
  ASSUME IInv, NEW r \in DOMAIN revs, Rollback(r)
  PROVE  IInv'
<1> USE Plan
<1>1. /\ calls \in Nat /\ calls' = calls + 1 /\ calls' <= MaxCalls /\ Live /\ ~ Active(rollout)
      /\ revs \in Seq(Versions) /\ Len(revs) \in Nat /\ r \in 1 .. Len(revs)
      /\ dep' = [status |-> "DEPLOYING", desired |-> r, active |-> dep.active]
      /\ ver' \in [Versions -> ModelStatus] /\ intent' = r
      /\ UNCHANGED <<endp, revs, rollout, isvc, rec, abt, faults, asked, proven>>
  <2>1. revs[r] \in Versions BY ElementOfSeq DEF IInv, TypeOK
  <2> QED BY <2>1, CrownedSays DEF IInv, TypeOK, Rollback, Call
<1>2. r \in Revision
  BY <1>1 DEF IInv, Counted, Revision
<1>3. dep' \in Deployment /\ dep'.status = "DEPLOYING" /\ dep'.active = dep.active /\ dep'.desired = r
  BY <1>1, <1>2 DEF IInv, TypeOK, Deployment, DeploymentStatus
<1>4. TypeOK'
  BY <1>1, <1>2, <1>3 DEF IInv, TypeOK
<1>5. Counted'
  BY <1>1, <1>3 DEF IInv, TypeOK, Counted, Rollout, Revision
<1>6. ReadyIsReachable' /\ RollsFromStable'
  BY <1>1, <1>3 DEF IInv, ReadyIsReachable, RollsFromStable, Live, Active
<1>7. RolloutOK' /\ AbortOK' /\ ClusterOK'
  BY <1>1, <1>3, Undisturbed DEF IInv, ClusterOK, TrafficByTheBook, Active
<1>8. ASSUME NEW p \in Reconcilers PROVE PassOK(p)'
  <2>1. PassOK(p) BY DEF IInv
  <2>2. rec[p].pc \notin OnDeletion BY <2>1, <1>1 DEF PassOK, DeletionOK, Live
  <2>3. rec[p].pc \in OnDeployment => DeploymentOK(rec[p])'
    BY <2>1, <1>1, <1>3 DEF PassOK, DeploymentOK, Live, Active
  <2>4. rec[p].pc \in OnRollout => (RowOK(rec[p]) /\ GoalOK(rec[p]))'
    BY <2>1, <1>1, <1>3 DEF PassOK, RowOK, GoalOK, Between, NextDue, Active, StepOf,
                            JudgedBefore, ByTheBook
  <2> QED BY <2>2, <2>3, <2>4, <1>1 DEF PassOK
<1> QED BY <1>4, <1>5, <1>6, <1>7, <1>8 DEF IInv

LEMMA RequestDeleteKeeps ==
  ASSUME IInv, RequestDelete
  PROVE  IInv'
<1>1. /\ Live /\ ~ Active(rollout) /\ endp' = "UNAVAILABLE"
      /\ dep' = [dep EXCEPT !.status = "DELETING"]
      /\ UNCHANGED <<revs, ver, rollout, isvc, rec, abt, calls, faults, intent, asked, proven>>
  BY DEF RequestDelete, bounds, history
<1>2. /\ dep' \in Deployment /\ dep'.status = "DELETING"
      /\ dep'.active = dep.active /\ dep'.desired = dep.desired
  BY <1>1 DEF IInv, TypeOK, Deployment, DeploymentStatus
<1>3. TypeOK' /\ Counted'
  BY <1>1, <1>2 DEF IInv, TypeOK, Counted, EndpointStatus
<1>4. ReadyIsReachable' /\ RollsFromStable'
  BY <1>1, <1>2 DEF ReadyIsReachable, RollsFromStable, Active
<1>5. RolloutOK' /\ AbortOK' /\ ClusterOK'
  BY <1>1, <1>2, Undisturbed DEF IInv, ClusterOK, TrafficByTheBook, Active
<1>6. ASSUME NEW p \in Reconcilers PROVE PassOK(p)'
  <2>1. PassOK(p) BY DEF IInv
  <2>2. rec[p].pc \notin OnDeletion BY <2>1, <1>1 DEF PassOK, DeletionOK, Live
  <2>3. rec[p].pc \in OnDeployment => DeploymentOK(rec[p])'
    BY <2>1, <1>1, <1>2 DEF PassOK, DeploymentOK, Live, Active
  <2>4. rec[p].pc \in OnRollout => (RowOK(rec[p]) /\ GoalOK(rec[p]))'
    BY <2>1, <1>1, <1>2 DEF PassOK, RowOK, GoalOK, Between, NextDue, Active, StepOf,
                            JudgedBefore, ByTheBook
  <2> QED BY <2>2, <2>3, <2>4, <1>1 DEF PassOK
<1> QED BY <1>3, <1>4, <1>5, <1>6 DEF IInv

LEMMA AbortReadKeeps ==
  ASSUME IInv, AbortRead \/ AbortGiveUp
  PROVE  IInv'
<1> USE Plan
<1>1. /\ abt' = NoRollout \/ (abt' = rollout /\ Active(rollout))
      /\ UNCHANGED <<dep, endp, revs, ver, rollout, isvc, rec, calls, faults, intent, asked, proven>>
  BY DEF AbortRead, AbortGiveUp, rows, bounds, history
<1>2. NoRollout \in Rollout
  BY DEF NoRollout, Rollout, RolloutStatus, Revision, StepIndex
<1>3. TypeOK'
  BY <1>1, <1>2 DEF IInv, TypeOK
<1>4. AbortOK'
  BY <1>1 DEF IInv, AbortOK, RolloutOK, JudgedBefore, StepOf, Active, TypeOK, Rollout, Revision
<1> QED BY <1>1, <1>3, <1>4, Undisturbed DEF IInv, TypeOK

LEMMA AbortWriteKeeps ==
  ASSUME IInv, AbortWrite
  PROVE  IInv'
<1>1. /\ abt # NoRollout /\ rollout.id = abt.id /\ rollout.status = abt.status
      /\ abt' = NoRollout /\ asked' = abt.id
      /\ rollout' = IF abt.status = "PENDING" THEN [abt EXCEPT !.status = "ROLLED_BACK"]
                                             ELSE [abt EXCEPT !.abort = TRUE]
      /\ UNCHANGED <<dep, endp, revs, ver, isvc, rec, calls, faults, intent, proven>>
  BY DEF AbortWrite, bounds
<1>2. /\ abt \in Rollout /\ Active(abt) /\ Active(rollout) /\ StepOf(abt)
      /\ abt.from = rollout.from /\ abt.to = rollout.to /\ JudgedBefore(abt.step)
  BY <1>1 DEF IInv, TypeOK, AbortOK, Active
<1>3. /\ rollout'.id = rollout.id /\ rollout'.from = rollout.from /\ rollout'.to = rollout.to
      /\ rollout'.step = abt.step /\ rollout' \in Rollout
      /\ \/ abt.status = "PENDING" /\ rollout'.status = "ROLLED_BACK"
         \/ abt.status = "PROGRESSING" /\ rollout'.status = "PROGRESSING" /\ rollout'.abort = TRUE
  BY <1>1, <1>2 DEF Rollout, RolloutStatus, Active
<1>4. TypeOK'
  <2>1. NoRollout \in Rollout /\ abt.id \in Revision
    BY Plan, <1>2 DEF NoRollout, Rollout, RolloutStatus, Revision, StepIndex
  <2> QED BY <2>1, <1>1, <1>3 DEF IInv, TypeOK
<1>5. Counted' /\ ReadyIsReachable'
  BY <1>1, <1>3, Undisturbed DEF IInv, Counted
<1>6. RollsFromStable'
  BY <1>1, <1>2, <1>3 DEF IInv, RollsFromStable, Live
<1>7. RolloutOK'
  BY <1>1, <1>2, <1>3 DEF IInv, RolloutOK, Active, Between, JudgedBefore, StepOf, SuccessIsProven
<1>8. AbortOK' /\ ClusterOK'
  BY <1>1, <1>3 DEF IInv, AbortOK, ClusterOK, TrafficByTheBook, Active, Absent, NoRollout
<1>9. ASSUME NEW p \in Reconcilers PROVE PassOK(p)'
  <2>1. PassOK(p) BY DEF IInv
  <2>2. rec[p].pc \in OnDeletion => DeletionOK(rec[p])'
    BY <2>1, <1>1 DEF PassOK, DeletionOK
  <2>3. rec[p].pc \in OnDeployment => DeploymentOK(rec[p])'
    BY <2>1, <1>1, <1>2, <1>3 DEF PassOK, DeploymentOK, Live
  <2>4. rec[p].pc \in OnRollout => (RowOK(rec[p]))'
    BY <2>1, <1>1, <1>3 DEF PassOK, RowOK, Between, Active, StepOf, JudgedBefore
  <2>5. rec[p].pc \in OnRollout => GoalOK(rec[p])'
    BY <2>1, <1>1 DEF PassOK, GoalOK, NextDue, ByTheBook
  <2> QED BY <2>2, <2>3, <2>4, <2>5, <1>1 DEF PassOK
<1> QED BY <1>4, <1>5, <1>6, <1>7, <1>8, <1>9 DEF IInv

-----------------------------------------------------------------------------
(* The cluster: by itself it serves what it was told to serve, or nothing.   *)

LEMMA ClusterKeeps ==
  ASSUME IInv, Settle \/ Outage \/ Removed
  PROVE  IInv'
<1>1. /\ isvc.state # "Absent" /\ isvc' \in Resource
      /\ isvc' = Absent \/ (isvc'.rev = isvc.rev /\ isvc'.share = isvc.share /\ isvc'.state # "Absent")
  <2>1. isvc \in Resource /\ Absent \in Resource
    BY Plan DEF IInv, TypeOK, Resource, Absent, Revision
  <2> QED BY <2>1 DEF Settle, Outage, Removed, Resource, Absent
<1>2. /\ faults' \in 0 .. MaxFaults
      /\ UNCHANGED <<dep, endp, revs, ver, rollout, rec, abt, calls, intent, asked, proven>>
  BY Plan DEF IInv, TypeOK, Settle, Outage, Removed, Fault, rows, bounds, history
<1>3. TypeOK'
  BY <1>1, <1>2 DEF IInv, TypeOK
<1>4. isvc'.rev = 0 \/ (isvc'.rev = isvc.rev /\ isvc'.share = isvc.share)
  BY <1>1 DEF Absent
<1>5. ClusterOK'
  <2>1. TrafficByTheBook'
    <3>1. SUFFICES ASSUME Active(rollout), isvc'.rev = rollout.to, ~ rollout.abort
                   PROVE  isvc'.rev = isvc.rev /\ isvc'.share = isvc.share
      BY <1>2 DEF IInv, ClusterOK, TrafficByTheBook, Active
    <3>2. rollout.to # 0
      BY <3>1 DEF IInv, RolloutOK, Between, TypeOK
    <3> QED BY <3>1, <3>2, <1>4
  <2> QED BY <2>1, <1>1, <1>2, <1>4 DEF IInv, ClusterOK, Absent
<1>6. ASSUME NEW p \in Reconcilers PROVE PassOK(p)'
  <2>1. PassOK(p) BY DEF IInv
  <2>2. rec[p].pc \in OnDeletion => DeletionOK(rec[p])'
    BY <2>1, <1>1, <1>2 DEF PassOK, DeletionOK, Absent
  <2>3. rec[p].pc \in OnDeployment => DeploymentOK(rec[p])'
    BY <2>1, <1>2, <1>4 DEF PassOK, DeploymentOK, Live, Active
  <2>4. rec[p].pc \in OnRollout => RowOK(rec[p])'
    BY <2>1, <1>2 DEF PassOK, RowOK, Between, Active, StepOf, JudgedBefore
  <2>5. rec[p].pc \in OnRollout => GoalOK(rec[p])'
    <3>1. rec[p].pc \in OnRollout => rec[p].row.to # 0
      BY <2>1, <1>2 DEF PassOK, RowOK, Between, IInv, TypeOK
    <3> QED BY <3>1, <2>1, <1>2, <1>4 DEF PassOK, GoalOK, NextDue, ByTheBook
  <2> QED BY <2>2, <2>3, <2>4, <2>5, <1>2 DEF PassOK
<1> QED BY <1>2, <1>3, <1>5, <1>6, Undisturbed DEF IInv, TypeOK

-----------------------------------------------------------------------------
(* The pass of the one reconciler. *)

(* What it is about. A pass ends before the deployment is gone.              *)
LEMMA UnderWay ==
  ASSUME IInv, OneReconciler, NEW p \in Reconcilers
  PROVE  /\ \A r \in Reconcilers : r = p
         /\ rec[p].pc # "idle" => dep.status # "DELETED"
         /\ rec[p].pc \in OnDeletion => rec[p] \in DeploymentPass /\ DeletionOK(rec[p])
         /\ rec[p].pc \in OnDeployment => rec[p] \in DeploymentPass /\ DeploymentOK(rec[p])
         /\ rec[p].pc \in OnRollout => rec[p] \in RolloutPass /\ RowOK(rec[p]) /\ GoalOK(rec[p])
<1>1. \A r \in Reconcilers : r = p
  BY DEF OneReconciler
<1>2. rec[p].pc # "idle" => dep.status # "DELETED"
  BY DEF IInv, ClusterOK, Idle
<1>3. PassOK(p)
  BY DEF IInv
<1> QED BY <1>1, <1>2, <1>3, PassType DEF IInv, PassOK

(* Where a pass ends no pass is under way.                                   *)
LEMMA PassEnds ==
  ASSUME IInv, OneReconciler, NEW p \in Reconcilers, Becomes(p, Idle)
  PROVE  /\ rec' \in [Reconcilers -> {Idle} \cup DeploymentPass \cup RolloutPass]
         /\ \A r \in Reconcilers : rec'[r] = Idle
         /\ (\A r \in Reconcilers : PassOK(r))'
<1>1. rec' \in [Reconcilers -> {Idle} \cup DeploymentPass \cup RolloutPass]
  BY OnePass DEF IInv
<1>2. \A r \in Reconcilers : rec'[r] = Idle
  BY OnePass, UnderWay DEF IInv
<1>3. \A r \in Reconcilers : rec'[r].pc = "idle"
  BY <1>2 DEF Idle
<1> QED BY <1>1, <1>2, <1>3 DEF PassOK, OnDeletion, OnDeployment, OnRollout

(* A crash, a refused write, or a pass that finds nothing to do.             *)
LEMMA EndKeeps ==
  ASSUME IInv, OneReconciler, NEW p \in Reconcilers, Becomes(p, Idle), faults' \in 0 .. MaxFaults,
         UNCHANGED <<dep, endp, revs, ver, rollout, isvc, abt, calls, intent, asked, proven>>
  PROVE  IInv'
<1>1. (\A r \in Reconcilers : PassOK(r))' /\ TypeOK'
  BY PassEnds DEF IInv, TypeOK
<1>2. ClusterOK'
  BY PassEnds DEF IInv, ClusterOK, TrafficByTheBook, Active, Absent
<1> QED BY <1>1, <1>2, Undisturbed DEF IInv, TypeOK

(* A pass that goes on, with no row and nothing in the cluster touched.      *)
LEMMA GoesOnKeeps ==
  ASSUME IInv, OneReconciler, NEW p \in Reconcilers, NEW q \in DeploymentPass \cup RolloutPass,
         Becomes(p, q), PassOK(p)', dep.status # "DELETED",
         UNCHANGED <<dep, endp, revs, ver, rollout, isvc, abt, calls, faults, intent, asked>>,
         UNCHANGED proven
  PROVE  IInv'
<1>1. (\A r \in Reconcilers : PassOK(r))'
  BY UnderWay
<1>2. TypeOK'
  BY OnePass DEF IInv, TypeOK
<1>3. ClusterOK'
  BY DEF IInv, ClusterOK, TrafficByTheBook, Active, Absent
<1> QED BY <1>1, <1>2, <1>3, Undisturbed DEF IInv, TypeOK

LEMMA CrashKeeps ==
  ASSUME IInv, OneReconciler, NEW p \in Reconcilers, Crash(p) \/ Conflict(p)
  PROVE  IInv'
<1>1. /\ Becomes(p, Idle) /\ faults' \in 0 .. MaxFaults
      /\ UNCHANGED <<dep, endp, revs, ver, rollout, isvc, abt, calls, intent, asked, proven>>
  BY Plan DEF IInv, TypeOK, Crash, Conflict, Fault, rows, bounds, history
<1> QED BY <1>1, EndKeeps

-----------------------------------------------------------------------------
(* Passes over a deployment. *)

LEMMA DeploymentLoadKeeps ==
  ASSUME IInv, OneReconciler, NEW p \in Reconcilers, DeploymentLoad(p)
  PROVE  IInv'
<1> DEFINE q == [pc |-> IF dep.status = "DELETING" THEN "delete" ELSE "status",
                 dep |-> dep, endp |-> endp, seen |-> Unseen, need |-> FALSE]
<1>1. /\ Becomes(p, q) /\ Reconcilable /\ (dep.status = "DELETING" \/ ~ Active(rollout))
      /\ UNCHANGED <<dep, endp, revs, ver, rollout, isvc, abt, calls, faults, intent, asked, proven>>
  BY DEF DeploymentLoad, RollingOut, rows, bounds, history
<1>2. q \in DeploymentPass
  BY Plan DEF DeploymentPass, IInv, TypeOK, Seen, Unseen, Revision
<1>3. rec'[p] = q
  BY <1>1, OnePass DEF IInv
<1>4. dep.status # "DELETED"
  BY <1>1 DEF Reconcilable
<1>5. PassOK(p)'
  <2>1. CASE dep.status = "DELETING"
    BY <2>1, <1>1, <1>3 DEF PassOK, OnDeletion, OnDeployment, OnRollout, DeletionOK
  <2>2. CASE dep.status # "DELETING"
    <3>1. /\ rec'[p].pc = "status" /\ rec'[p].dep = dep /\ rec'[p].endp = endp
      BY <2>2, <1>3
    <3>2. dep.desired # 0 /\ dep.desired <= Len(revs) /\ dep.active <= Len(revs) /\ ~ Active(rollout)
      BY <2>2, <1>1 DEF Reconcilable, IInv, Counted
    <3> QED BY <2>2, <3>1, <3>2, <1>1, <1>4 DEF PassOK, OnDeletion, OnDeployment, OnRollout, DeploymentOK, Active
  <2> QED BY <2>1, <2>2
<1> QED BY <1>1, <1>2, <1>4, <1>5, GoesOnKeeps

LEMMA DeleteKeeps ==
  ASSUME IInv, OneReconciler, NEW p \in Reconcilers, Delete(p)
  PROVE  IInv'
<1> DEFINE q == [rec[p] EXCEPT !.pc = "gone"]
<1>1. /\ rec[p].pc = "delete" /\ Becomes(p, q)
      /\ isvc' = IF isvc.state = "Absent" THEN Absent ELSE [isvc EXCEPT !.state = "Terminating"]
      /\ UNCHANGED <<dep, endp, revs, ver, rollout, abt, calls, faults, intent, asked, proven>>
  BY DEF Delete, rows, bounds, history
<1>2. rec[p] \in DeploymentPass /\ dep.status = "DELETING"
  BY <1>1, UnderWay DEF OnDeletion, DeletionOK
<1>3. q \in DeploymentPass /\ q.pc = "gone"
  BY <1>2 DEF DeploymentPass
<1>4. rec'[p] = q /\ rec' \in [Reconcilers -> {Idle} \cup DeploymentPass \cup RolloutPass]
  BY <1>1, <1>3, OnePass DEF IInv
<1>5. /\ isvc' \in Resource
      /\ isvc' = Absent \/ (isvc'.rev = isvc.rev /\ isvc'.share = isvc.share /\ isvc'.state # "Absent")
  <2>1. isvc \in Resource /\ Absent \in Resource
    BY Plan DEF IInv, TypeOK, Resource, Absent, Revision
  <2> QED BY <2>1, <1>1 DEF Resource
<1>6. TypeOK'
  BY <1>1, <1>4, <1>5 DEF IInv, TypeOK
<1>7. ~ Active(rollout)
  BY <1>2 DEF IInv, RollsFromStable, Live
<1>8. ClusterOK'
  BY <1>1, <1>2, <1>5, <1>7 DEF ClusterOK, TrafficByTheBook, Active, Absent
<1>9. (\A r \in Reconcilers : PassOK(r))'
  <2>1. PassOK(p)'
    BY <1>1, <1>2, <1>3, <1>4 DEF PassOK, OnDeletion, OnDeployment, OnRollout, DeletionOK
  <2> QED BY <2>1, UnderWay
<1> QED BY <1>1, <1>6, <1>8, <1>9, Undisturbed DEF IInv, TypeOK

LEMMA CheckGoneKeeps ==
  ASSUME IInv, OneReconciler, NEW p \in Reconcilers, CheckGone(p)
  PROVE  IInv'
<1> DEFINE q == [rec[p] EXCEPT !.pc = "deleted"]
<1>1. /\ rec[p].pc = "gone" /\ Becomes(p, IF SeenGone THEN q ELSE Idle)
      /\ UNCHANGED <<dep, endp, revs, ver, rollout, isvc, abt, calls, faults, intent, asked, proven>>
  BY DEF CheckGone, rows, bounds, history
<1>2. rec[p] \in DeploymentPass /\ dep.status = "DELETING"
  BY <1>1, UnderWay DEF OnDeletion, DeletionOK
<1>3. CASE SeenGone
  <2>1. q \in DeploymentPass /\ q.pc = "deleted" /\ Becomes(p, q)
    BY <1>1, <1>2, <1>3 DEF DeploymentPass
  <2>2. rec'[p] = q
    BY <2>1, OnePass DEF IInv
  <2>3. isvc = Absent
    BY <1>3 DEF SeenGone, IInv, ClusterOK
  <2>4. PassOK(p)'
    BY <1>1, <1>2, <2>1, <2>2, <2>3 DEF PassOK, OnDeletion, OnDeployment, OnRollout, DeletionOK, Absent
  <2> QED BY <1>1, <1>2, <2>1, <2>4, GoesOnKeeps
<1>4. CASE ~ SeenGone
  BY <1>1, <1>4, EndKeeps DEF IInv, TypeOK
<1> QED BY <1>3, <1>4

LEMMA MarkDeletedKeeps ==
  ASSUME IInv, OneReconciler, NEW p \in Reconcilers, MarkDeleted(p)
  PROVE  IInv'
<1>1. /\ rec[p].pc = "deleted" /\ dep.status = "DELETING" /\ Becomes(p, Idle)
      /\ dep' = [status |-> "DELETED", desired |-> 0, active |-> 0]
      /\ UNCHANGED <<endp, revs, ver, rollout, isvc, abt, calls, faults, intent, asked, proven>>
  BY DEF MarkDeleted, bounds, history
<1>2. isvc = Absent
  BY <1>1, UnderWay DEF OnDeletion, DeletionOK
<1>3. ~ Active(rollout)
  BY <1>1 DEF IInv, RollsFromStable, Live
<1>4. TypeOK' /\ Counted'
  BY <1>1, PassEnds, Plan DEF IInv, TypeOK, Counted, Deployment, DeploymentStatus, Revision
<1>5. ReadyIsReachable' /\ RollsFromStable'
  BY <1>1, <1>3 DEF IInv, ReadyIsReachable, RollsFromStable, Active
<1>6. ClusterOK'
  BY <1>1, <1>2, <1>3, PassEnds DEF IInv, ClusterOK, TrafficByTheBook, Active, Absent
<1> QED BY <1>1, <1>4, <1>5, <1>6, PassEnds, Undisturbed DEF IInv

LEMMA GetStatusKeeps ==
  ASSUME IInv, OneReconciler, NEW p \in Reconcilers, GetStatus(p) \/ StatusAgain(p)
  PROVE  IInv'
<1>1. PICK pc \in {"match", "judge"} :
        /\ rec[p].pc \in {"status", "restatus"}
        /\ Becomes(p, [rec[p] EXCEPT !.pc = pc, !.seen = Status])
  BY DEF GetStatus, StatusAgain
<1> DEFINE q == [rec[p] EXCEPT !.pc = pc, !.seen = Status]
<1>2. UNCHANGED <<dep, endp, revs, ver, rollout, isvc, abt, calls, faults, intent, asked, proven>>
  BY DEF GetStatus, StatusAgain, rows, bounds, history
<1>3. rec[p] \in DeploymentPass /\ DeploymentOK(rec[p]) /\ dep.status # "DELETED"
  BY <1>1, UnderWay DEF OnDeployment
<1>4. q \in DeploymentPass /\ q.pc = pc /\ q.seen = Status /\ q.dep = rec[p].dep /\ q.endp = rec[p].endp
  BY <1>3, StatusSays DEF DeploymentPass, IInv
<1>5. rec'[p] = q
  BY <1>1, <1>4, OnePass DEF IInv
<1>6. DeploymentOK(rec[p])'
  BY <1>2, <1>3, <1>4, <1>5, StatusSays DEF DeploymentOK, Live, Active, IInv
<1>7. PassOK(p)'
  BY <1>4, <1>5, <1>6 DEF PassOK, OnDeletion, OnDeployment, OnRollout
<1> QED BY <1>1, <1>2, <1>3, <1>4, <1>7, GoesOnKeeps

LEMMA CompareKeeps ==
  ASSUME IInv, OneReconciler, NEW p \in Reconcilers, Compare(p)
  PROVE  IInv'
<1>1. rec[p].pc = "match" /\ (Becomes(p, Idle) \/ \E pc \in {"degrade", "move", "apply"}, need \in BOOLEAN :
                                                   Becomes(p, [rec[p] EXCEPT !.pc = pc, !.need = need]))
  BY DEF Compare
<1>2. UNCHANGED <<dep, endp, revs, ver, rollout, isvc, abt, calls, faults, intent, asked, proven>>
  BY DEF Compare, rows, bounds, history
<1>3. rec[p] \in DeploymentPass /\ DeploymentOK(rec[p]) /\ dep.status # "DELETED"
  BY <1>1, UnderWay DEF OnDeployment
<1>4. CASE Becomes(p, Idle)
  BY <1>2, <1>4, EndKeeps DEF IInv, TypeOK
<1>5. ASSUME NEW pc \in {"degrade", "move", "apply"}, NEW need \in BOOLEAN,
             Becomes(p, [rec[p] EXCEPT !.pc = pc, !.need = need])
      PROVE  IInv'
  <2> DEFINE q == [rec[p] EXCEPT !.pc = pc, !.need = need]
  <2>1. /\ q \in DeploymentPass /\ q.pc = pc
        /\ q.seen = rec[p].seen /\ q.dep = rec[p].dep /\ q.endp = rec[p].endp
    BY <1>3 DEF DeploymentPass
  <2>2. rec'[p] = q
    BY <2>1, <1>5, OnePass DEF IInv
  <2>3. DeploymentOK(rec[p])'
    BY <1>1, <1>2, <1>3, <2>1, <2>2 DEF DeploymentOK, Live, Active
  <2>4. PassOK(p)'
    BY <2>1, <2>2, <2>3 DEF PassOK, OnDeletion, OnDeployment, OnRollout
  <2> QED BY <1>2, <1>3, <1>5, <2>1, <2>4, GoesOnKeeps
<1> QED BY <1>1, <1>4, <1>5

(* A row that a pass writes has the revisions it read: those of the rollout   *)
(* that may be under way, or revisions there are.                           *)
LEMMA RowWrittenKeeps ==
  ASSUME IInv, OneReconciler, NEW p \in Reconcilers, rec[p].pc \in OnDeployment,
         dep.status = rec[p].dep.status,
         NEW status \in {"DEPLOYING", "DEGRADED", "FAILED"}, dep' = Row(rec[p], status),
         endp' \in EndpointStatus, endp' = "READY" => status = "DEPLOYING",
         rec' \in [Reconcilers -> {Idle} \cup DeploymentPass \cup RolloutPass], PassOK(p)',
         UNCHANGED <<revs, ver, rollout, isvc, abt, calls, faults, intent, asked, proven>>
  PROVE  IInv'
<1>1. rec[p] \in DeploymentPass /\ DeploymentOK(rec[p]) /\ dep.status # "DELETED"
  BY UnderWay DEF OnDeployment, Idle
<1>2. /\ dep' \in Deployment /\ dep'.status = status
      /\ dep'.desired = rec[p].dep.desired /\ dep'.active = rec[p].dep.active
  BY <1>1, RowSays DEF DeploymentStatus
<1>3. Live
  BY <1>1 DEF DeploymentOK, Live
<1>4. TypeOK' /\ Counted'
  BY <1>1, <1>2 DEF IInv, TypeOK, Counted, DeploymentOK
<1>5. ReadyIsReachable' /\ RollsFromStable'
  BY <1>1, <1>2 DEF ReadyIsReachable, RollsFromStable, Live, DeploymentOK, Active
<1>6. ClusterOK'
  BY <1>2 DEF IInv, ClusterOK, TrafficByTheBook, Active, Absent
<1>7. (\A r \in Reconcilers : PassOK(r))'
  BY UnderWay
<1> QED BY <1>4, <1>5, <1>6, <1>7, Undisturbed DEF IInv

LEMMA DegradeKeeps ==
  ASSUME IInv, OneReconciler, NEW p \in Reconcilers, Degrade(p)
  PROVE  IInv'
<1> DEFINE q == [rec[p] EXCEPT !.pc = "move", !.dep = dep', !.endp = endp']
<1>1. /\ rec[p].pc = "degrade" /\ dep.status = rec[p].dep.status /\ Becomes(p, q)
      /\ dep' = Row(rec[p], "DEGRADED") /\ endp' = "UNAVAILABLE"
      /\ UNCHANGED <<revs, ver, rollout, isvc, abt, calls, faults, intent, asked, proven>>
  BY DEF Degrade, DegradedEndpoint, bounds, history
<1>2. rec[p] \in DeploymentPass /\ DeploymentOK(rec[p])
  BY <1>1, UnderWay DEF OnDeployment
<1>3. /\ dep' \in Deployment /\ dep'.status = "DEGRADED"
      /\ dep'.desired = rec[p].dep.desired /\ dep'.active = rec[p].dep.active
  BY <1>1, <1>2, RowSays DEF DeploymentStatus
<1>4. q \in DeploymentPass /\ q.pc = "move" /\ q.dep = dep' /\ q.endp = endp' /\ q.seen = rec[p].seen
  BY <1>1, <1>2, <1>3 DEF DeploymentPass, EndpointStatus
<1>5. rec'[p] = q /\ rec' \in [Reconcilers -> {Idle} \cup DeploymentPass \cup RolloutPass]
  BY <1>1, <1>4, OnePass DEF IInv
<1>6. DeploymentOK(rec[p])'
  BY <1>1, <1>2, <1>3, <1>4, <1>5 DEF DeploymentOK, Live, Active
<1>7. PassOK(p)'
  BY <1>4, <1>5, <1>6 DEF PassOK, OnDeletion, OnDeployment, OnRollout
<1> QED BY <1>1, <1>5, <1>7, RowWrittenKeeps DEF OnDeployment, EndpointStatus

LEMMA RedeployKeeps ==
  ASSUME IInv, OneReconciler, NEW p \in Reconcilers, Redeploy(p)
  PROVE  IInv'
<1> DEFINE q == [rec[p] EXCEPT !.pc = "apply", !.dep = dep']
<1>1. /\ rec[p].pc = "move" /\ dep.status = rec[p].dep.status /\ Becomes(p, q)
      /\ dep' = Row(rec[p], "DEPLOYING")
      /\ UNCHANGED <<endp, revs, ver, rollout, isvc, abt, calls, faults, intent, asked, proven>>
  BY DEF Redeploy, bounds, history
<1>2. rec[p] \in DeploymentPass /\ DeploymentOK(rec[p])
  BY <1>1, UnderWay DEF OnDeployment
<1>3. /\ dep' \in Deployment /\ dep'.status = "DEPLOYING"
      /\ dep'.desired = rec[p].dep.desired /\ dep'.active = rec[p].dep.active
  BY <1>1, <1>2, RowSays DEF DeploymentStatus
<1>4. q \in DeploymentPass /\ q.pc = "apply" /\ q.dep = dep' /\ q.endp = rec[p].endp /\ q.seen = rec[p].seen
  BY <1>1, <1>2, <1>3 DEF DeploymentPass
<1>5. rec'[p] = q /\ rec' \in [Reconcilers -> {Idle} \cup DeploymentPass \cup RolloutPass]
  BY <1>1, <1>4, OnePass DEF IInv
<1>6. DeploymentOK(rec[p])'
  BY <1>1, <1>2, <1>3, <1>4, <1>5 DEF DeploymentOK, Live, Active
<1>7. PassOK(p)'
  BY <1>4, <1>5, <1>6 DEF PassOK, OnDeletion, OnDeployment, OnRollout
<1>8. endp' \in EndpointStatus
  BY <1>1 DEF IInv, TypeOK
<1> QED BY <1>1, <1>5, <1>7, <1>8, RowWrittenKeeps DEF OnDeployment

LEMMA MarkFailedKeeps ==
  ASSUME IInv, OneReconciler, NEW p \in Reconcilers, MarkFailed(p)
  PROVE  IInv'
<1>1. /\ rec[p].pc = "fail" /\ dep.status = rec[p].dep.status /\ Becomes(p, Idle)
      /\ dep' = Row(rec[p], "FAILED")
      /\ endp' = IF rec[p].endp = "READY" THEN "UNAVAILABLE" ELSE endp
      /\ UNCHANGED <<revs, ver, rollout, isvc, abt, calls, faults, intent, asked, proven>>
  BY DEF MarkFailed, bounds, history
<1>2. rec[p] \in DeploymentPass /\ DeploymentOK(rec[p])
  BY <1>1, UnderWay DEF OnDeployment
<1>3. endp = rec[p].endp /\ endp' \in EndpointStatus /\ endp' # "READY"
  BY <1>1, <1>2 DEF IInv, TypeOK, DeploymentOK, Live, EndpointStatus
<1> QED BY <1>1, <1>3, PassEnds, RowWrittenKeeps DEF OnDeployment

LEMMA MarkReadyKeeps ==
  ASSUME IInv, OneReconciler, NEW p \in Reconcilers, MarkReady(p)
  PROVE  IInv'
<1>1. /\ rec[p].pc = "ready" /\ dep.status = rec[p].dep.status /\ Becomes(p, Idle)
      /\ dep' = [status |-> "READY", desired |-> rec[p].dep.desired, active |-> rec[p].dep.desired]
      /\ endp' = IF rec[p].endp # "READY" THEN "READY" ELSE endp
      /\ UNCHANGED <<revs, ver, rollout, isvc, abt, calls, faults, intent, asked, proven>>
  BY DEF MarkReady, bounds, history
<1>2. rec[p] \in DeploymentPass /\ DeploymentOK(rec[p])
  BY <1>1, UnderWay DEF OnDeployment
<1>3. Live /\ endp' = "READY"
  BY <1>1, <1>2 DEF DeploymentOK, Live
<1>4. /\ dep' \in Deployment /\ dep'.status = "READY"
      /\ dep'.desired = rec[p].dep.desired /\ dep'.active = rec[p].dep.desired
      /\ dep'.desired # 0 /\ dep'.desired <= Len(revs)
  BY <1>1, <1>2 DEF DeploymentPass, Deployment, DeploymentStatus, DeploymentOK
<1>5. TypeOK' /\ Counted'
  BY <1>1, <1>3, <1>4, PassEnds DEF IInv, TypeOK, Counted, EndpointStatus
<1>6. ReadyIsReachable' /\ RollsFromStable'
  BY <1>1, <1>2, <1>3, <1>4 DEF ReadyIsReachable, RollsFromStable, Live, DeploymentOK, Active
<1>7. ClusterOK'
  BY <1>1, <1>2, <1>4 DEF IInv, ClusterOK, TrafficByTheBook, Active, Absent, DeploymentOK
<1> QED BY <1>1, <1>5, <1>6, <1>7, PassEnds, Undisturbed DEF IInv

LEMMA JudgeKeeps ==
  ASSUME IInv, OneReconciler, NEW p \in Reconcilers, Judge(p)
  PROVE  IInv'
<1>1. /\ rec[p].pc = "judge"
      /\ \/ Becomes(p, Idle)
         \/ \E pc \in {"ready", "fail"} :
              /\ Becomes(p, [rec[p] EXCEPT !.pc = pc])
              /\ pc = "ready" => rec[p].seen.rev = rec[p].dep.desired
      /\ UNCHANGED <<dep, endp, revs, ver, rollout, isvc, abt, calls, faults, intent, asked, proven>>
  BY DEF Judge, Serving_It, rows, bounds, history
<1>2. rec[p] \in DeploymentPass /\ DeploymentOK(rec[p]) /\ dep.status # "DELETED"
  BY <1>1, UnderWay DEF OnDeployment
<1>3. CASE Becomes(p, Idle)
  BY <1>1, <1>3, EndKeeps DEF IInv, TypeOK
<1>4. ASSUME NEW pc \in {"ready", "fail"}, Becomes(p, [rec[p] EXCEPT !.pc = pc]),
             pc = "ready" => rec[p].seen.rev = rec[p].dep.desired
      PROVE  IInv'
  <2> DEFINE q == [rec[p] EXCEPT !.pc = pc]
  <2>1. /\ q \in DeploymentPass /\ q.pc = pc
        /\ q.seen = rec[p].seen /\ q.dep = rec[p].dep /\ q.endp = rec[p].endp
    BY <1>2 DEF DeploymentPass
  <2>2. rec'[p] = q
    BY <2>1, <1>4, OnePass DEF IInv
  <2>3. DeploymentOK(rec[p])'
    BY <1>1, <1>2, <1>4, <2>1, <2>2 DEF DeploymentOK, Live, Active
  <2>4. PassOK(p)'
    BY <2>1, <2>2, <2>3 DEF PassOK, OnDeletion, OnDeployment, OnRollout
  <2> QED BY <1>1, <1>2, <1>4, <2>1, <2>4, GoesOnKeeps
<1> QED BY <1>1, <1>3, <1>4

(* What is applied is the revision the pass goes by: nobody's canary.        *)
LEMMA ApplyKeeps ==
  ASSUME IInv, OneReconciler, NEW p \in Reconcilers, Apply(p)
  PROVE  IInv'
<1> DEFINE pc == IF rec[p].need THEN "restatus" ELSE "judge"
           q == [rec[p] EXCEPT !.pc = pc]
<1>1. /\ rec[p].pc = "apply" /\ Becomes(p, q)
      /\ isvc' = IF rec[p].need THEN Applied(rec[p].dep.desired, 100) ELSE isvc
      /\ UNCHANGED <<dep, endp, revs, ver, rollout, abt, calls, faults, intent, asked, proven>>
  BY DEF Apply, rows, bounds, history
<1>2. rec[p] \in DeploymentPass /\ DeploymentOK(rec[p]) /\ dep.status # "DELETED"
  BY <1>1, UnderWay DEF OnDeployment
<1>3. /\ q \in DeploymentPass /\ q.pc = pc /\ pc \in {"restatus", "judge"}
      /\ q.seen = rec[p].seen /\ q.dep = rec[p].dep /\ q.endp = rec[p].endp
  BY <1>2 DEF DeploymentPass
<1>4. rec'[p] = q /\ rec' \in [Reconcilers -> {Idle} \cup DeploymentPass \cup RolloutPass]
  BY <1>1, <1>3, OnePass DEF IInv
<1>5. /\ isvc' \in Resource
      /\ \/ isvc' = isvc
         \/ isvc'.rev = rec[p].dep.desired /\ isvc'.state # "Absent" /\ pc = "restatus"
  <2>1. rec[p].dep.desired \in Revision /\ 100 \in 0 .. 100 /\ TypeOK
    BY <1>2 DEF DeploymentPass, Deployment, IInv
  <2>2. CASE rec[p].need
    BY <2>1, <2>2, <1>1, AppliedSays
  <2>3. CASE ~ rec[p].need
    BY <2>1, <2>3, <1>1 DEF TypeOK
  <2> QED BY <2>2, <2>3
<1>6. TypeOK'
  BY <1>1, <1>4, <1>5 DEF IInv, TypeOK
<1>7. DeploymentOK(rec[p])'
  BY <1>1, <1>2, <1>3, <1>4, <1>5 DEF DeploymentOK, Live, Active
<1>8. (\A r \in Reconcilers : PassOK(r))'
  <2>1. PassOK(p)'
    BY <1>3, <1>4, <1>7 DEF PassOK, OnDeletion, OnDeployment, OnRollout
  <2> QED BY <2>1, UnderWay
<1>9. ClusterOK'
  <2>1. TrafficByTheBook'
    BY <1>1, <1>2, <1>5 DEF IInv, ClusterOK, TrafficByTheBook, RolloutOK, Between, DeploymentOK, Active
  <2>2. dep.status = "READY" => rec[p].dep.desired = dep.active
    BY <1>2 DEF DeploymentOK, IInv, ReadyIsReachable
  <2> QED BY <2>1, <2>2, <1>1, <1>2, <1>5 DEF IInv, ClusterOK, Absent
<1> QED BY <1>1, <1>6, <1>8, <1>9, Undisturbed DEF IInv, TypeOK

-----------------------------------------------------------------------------
(* Passes over a rollout. *)

LEMMA RolloutLoadKeeps ==
  ASSUME IInv, OneReconciler, NEW p \in Reconcilers, RolloutLoad(p)
  PROVE  IInv'
<1> DEFINE q == [pc |-> "candidate", row |-> rollout, goal |-> rollout]
<1>1. /\ Becomes(p, q) /\ Active(rollout)
      /\ UNCHANGED <<dep, endp, revs, ver, rollout, isvc, abt, calls, faults, intent, asked, proven>>
  BY DEF RolloutLoad, rows, bounds, history
<1>2. q \in RolloutPass
  BY DEF RolloutPass, IInv, TypeOK
<1>3. rec'[p] = q
  BY <1>1, <1>2, OnePass DEF IInv
<1>4. Live /\ dep.active = rollout.from
  BY <1>1 DEF IInv, RollsFromStable
<1>5. rollout.id <= rollout.id
  BY DEF IInv, TypeOK, Rollout, Revision
<1>6. RowOK(rec[p])'
  BY <1>1, <1>3, <1>4, <1>5 DEF RowOK, IInv, RolloutOK, Active, Between, StepOf, JudgedBefore
<1>7. GoalOK(rec[p])'
  BY <1>1, <1>3 DEF GoalOK, IInv, ClusterOK, TrafficByTheBook, ByTheBook, Active
<1>8. PassOK(p)'
  BY <1>3, <1>6, <1>7 DEF PassOK, OnDeletion, OnDeployment, OnRollout
<1> QED BY <1>1, <1>2, <1>4, <1>8, GoesOnKeeps DEF Live

(* A pass goes on with the row it has: only its goal is to be looked at.      *)
LEMMA SameRowKeeps ==
  ASSUME IInv, OneReconciler, NEW p \in Reconcilers, rec[p].pc \in OnRollout,
         NEW pc \in OnRollout, NEW goal \in Rollout,
         Becomes(p, [rec[p] EXCEPT !.pc = pc, !.goal = goal]),
         proven \subseteq proven',
         UNCHANGED <<dep, endp, revs, rollout>>
  PROVE  /\ rec' \in [Reconcilers -> {Idle} \cup DeploymentPass \cup RolloutPass]
         /\ rec'[p].pc = pc /\ rec'[p].row = rec[p].row /\ rec'[p].goal = goal
         /\ dep.status # "DELETED"
         /\ RowOK(rec[p])'
         /\ GoalOK(rec[p])' => (\A r \in Reconcilers : PassOK(r))'
<1> DEFINE q == [rec[p] EXCEPT !.pc = pc, !.goal = goal]
<1>1. rec[p] \in RolloutPass /\ RowOK(rec[p]) /\ dep.status # "DELETED"
  BY UnderWay DEF OnRollout
<1>2. q \in RolloutPass /\ q.pc = pc /\ q.row = rec[p].row /\ q.goal = goal
  BY <1>1 DEF RolloutPass, OnRollout
<1>3. rec'[p] = q /\ rec' \in [Reconcilers -> {Idle} \cup DeploymentPass \cup RolloutPass]
  BY <1>2, OnePass DEF IInv
<1>4. RowOK(rec[p])'
  BY <1>1, <1>2, <1>3 DEF RowOK, Active, Between, StepOf, JudgedBefore
<1>5. ASSUME GoalOK(rec[p])' PROVE (\A r \in Reconcilers : PassOK(r))'
  <2>1. PassOK(p)'
    BY <1>2, <1>3, <1>4, <1>5 DEF PassOK, OnDeletion, OnDeployment, OnRollout
  <2> QED BY <2>1, UnderWay
<1> QED BY <1>1, <1>2, <1>3, <1>4, <1>5

LEMMA NotPromotedKeeps ==
  ASSUME IInv, OneReconciler, NEW p \in Reconcilers, NotPromoted(p)
  PROVE  IInv'
<1>1. /\ rec[p].pc = "succeed"
      /\ Becomes(p, Idle) \/ Becomes(p, [rec[p] EXCEPT !.pc = "repair"])
      /\ UNCHANGED <<dep, endp, revs, ver, rollout, isvc, abt, calls, faults, intent, asked, proven>>
  BY DEF NotPromoted, rows, bounds, history
<1>2. CASE Becomes(p, Idle)
  BY <1>1, <1>2, EndKeeps DEF IInv, TypeOK
<1>3. CASE Becomes(p, [rec[p] EXCEPT !.pc = "repair"])
  <2> DEFINE q == [rec[p] EXCEPT !.pc = "repair"]
  <2>1. rec[p] \in RolloutPass
    BY <1>1, UnderWay DEF OnRollout
  <2>2. q \in RolloutPass /\ q = [rec[p] EXCEPT !.pc = "repair", !.goal = rec[p].goal] /\ rec[p].goal \in Rollout
    BY <2>1 DEF RolloutPass
  <2>3. rec'[p].pc = "repair" /\ dep.status # "DELETED" /\ (GoalOK(rec[p])' => (\A r \in Reconcilers : PassOK(r))')
    BY <1>1, <1>3, <2>2, SameRowKeeps DEF OnRollout
  <2>4. GoalOK(rec[p])'
    BY <2>3 DEF GoalOK
  <2>5. PassOK(p)'
    BY <2>3, <2>4
  <2> QED BY <1>1, <1>3, <2>2, <2>3, <2>5, GoesOnKeeps
<1> QED BY <1>1, <1>2, <1>3

LEMMA CheckCandidateKeeps ==
  ASSUME IInv, OneReconciler, NEW p \in Reconcilers, CheckCandidate(p)
  PROVE  IInv'
<1>1. /\ rec[p].pc = "candidate"
      /\ UNCHANGED <<dep, endp, revs, ver, rollout, isvc, abt, calls, faults, intent, asked, proven>>
  BY DEF CheckCandidate, rows, bounds, history
<1>2. rec[p] \in RolloutPass /\ RowOK(rec[p]) /\ GoalOK(rec[p]) /\ dep.status # "DELETED"
  BY <1>1, UnderWay DEF OnRollout
<1>3. rec[p].row \in Rollout /\ rec[p].goal \in Rollout /\ AtStep(rec[p].row, 1) \in Rollout
  BY <1>2, AtStepSays, Plan DEF RolloutPass, StepIndex
<1>4. \E pc \in {"repair", "shift", "look"}, goal \in Rollout :
        /\ Becomes(p, [rec[p] EXCEPT !.pc = pc, !.goal = goal])
        /\ pc # "repair" => ~ rec[p].row.abort
        /\ pc = "shift" => rec[p].row.status = "PENDING" /\ goal = AtStep(rec[p].row, 1)
        /\ pc = "look" => rec[p].row.status # "PENDING"
  <2>1. [rec[p] EXCEPT !.pc = "repair"] = [rec[p] EXCEPT !.pc = "repair", !.goal = rec[p].goal]
    BY <1>2 DEF RolloutPass
  <2>2. [rec[p] EXCEPT !.pc = "look"] = [rec[p] EXCEPT !.pc = "look", !.goal = rec[p].goal]
    BY <1>2 DEF RolloutPass
  <2>3. CASE ~ Deployable(revs[rec[p].row.to]) \/ rec[p].row.abort
    BY <2>1, <2>3, <1>3 DEF CheckCandidate
  <2>4. CASE ~ (~ Deployable(revs[rec[p].row.to]) \/ rec[p].row.abort) /\ rec[p].row.status = "PENDING"
    BY <2>4, <1>3 DEF CheckCandidate
  <2>5. CASE ~ (~ Deployable(revs[rec[p].row.to]) \/ rec[p].row.abort) /\ rec[p].row.status # "PENDING"
    BY <2>2, <2>5, <1>3 DEF CheckCandidate
  <2> QED BY <2>3, <2>4, <2>5
<1>5. PICK pc \in {"repair", "shift", "look"}, goal \in Rollout :
        /\ Becomes(p, [rec[p] EXCEPT !.pc = pc, !.goal = goal])
        /\ pc # "repair" => ~ rec[p].row.abort
        /\ pc = "shift" => rec[p].row.status = "PENDING" /\ goal = AtStep(rec[p].row, 1)
        /\ pc = "look" => rec[p].row.status # "PENDING"
  BY <1>4
<1>6. /\ rec'[p].pc = pc /\ rec'[p].row = rec[p].row /\ rec'[p].goal = goal
      /\ GoalOK(rec[p])' => (\A r \in Reconcilers : PassOK(r))'
  BY <1>1, <1>5, SameRowKeeps DEF OnRollout
<1>7. GoalOK(rec[p])'
  <2>1. rec[p].row.status = "PENDING" => rec[p].row.step = 0 /\ 0 < Len(Steps)
    BY <1>2, Plan DEF RowOK, StepOf
  <2>2. rec[p].row.status \in {"PENDING", "PROGRESSING"}
    BY <1>2 DEF RowOK, Active
  <2> QED BY <1>1, <1>2, <1>5, <1>6, <2>1, <2>2 DEF GoalOK, NextDue, ByTheBook
<1>8. PassOK(p)' /\ [rec[p] EXCEPT !.pc = pc, !.goal = goal] \in RolloutPass
  BY <1>2, <1>6, <1>7 DEF RolloutPass
<1> QED BY <1>1, <1>2, <1>5, <1>8, GoesOnKeeps

(* The canary is given the share of the step that is due, before the row says *)
(* so.                                                                     *)
LEMMA ShiftKeeps ==
  ASSUME IInv, OneReconciler, NEW p \in Reconcilers, Shift(p)
  PROVE  IInv'
<1> DEFINE row == rec[p].row
           share == Steps[row.step + 1]
           q == [rec[p] EXCEPT !.pc = "save"]
<1>1. /\ rec[p].pc = "shift" /\ Becomes(p, q)
      /\ isvc' = Applied(row.to, Share(rec[p].goal.step))
      /\ UNCHANGED <<dep, endp, revs, ver, rollout, abt, calls, faults, intent, asked, proven>>
  BY DEF Shift, rows, bounds, history
<1>2. rec[p] \in RolloutPass /\ RowOK(rec[p]) /\ GoalOK(rec[p]) /\ dep.status # "DELETED"
  BY <1>1, UnderWay DEF OnRollout
<1>3. /\ row \in Rollout /\ row.to \in Revision /\ row.id \in Nat /\ row.step \in Nat
      /\ rollout \in Rollout /\ rollout.id \in Nat
  <2>1. row \in Rollout /\ rollout \in Rollout
    BY <1>2 DEF RolloutPass, IInv, TypeOK
  <2>2. \A r \in Rollout : r.to \in Revision /\ r.id \in Nat /\ r.step \in Nat
    BY Plan DEF Rollout, Revision, StepIndex
  <2> QED BY <2>1, <2>2
<1>4. /\ NextDue(rec[p]) /\ ~ row.abort
      /\ row.step < Len(Steps) /\ row.step + 1 \in DOMAIN Steps /\ share \in 1 .. 100
  <2>1. NextDue(rec[p]) /\ ~ row.abort
    BY <1>1, <1>2 DEF GoalOK
  <2>2. row.step < Len(Steps) /\ row.step + 1 \in DOMAIN Steps
    BY <2>1, <1>3, Plan DEF NextDue
  <2> QED BY <2>1, <2>2, Plan
<1>5. rec[p].goal.step = row.step + 1 /\ Share(rec[p].goal.step) = share
  BY <1>3, <1>4, AtStepSays, Plan DEF NextDue, StepIndex, Share
<1>6. /\ isvc' \in Resource /\ isvc'.state # "Absent"
      /\ isvc'.rev = row.to /\ isvc'.share = share
  <2>1. share \in 0 .. 100 /\ TypeOK
    BY <1>4 DEF IInv
  <2>2. isvc' = Applied(row.to, share)
    BY <1>1, <1>5
  <2> QED BY <2>1, <2>2, <1>3, AppliedSays
<1>7. /\ rec' \in [Reconcilers -> {Idle} \cup DeploymentPass \cup RolloutPass]
      /\ rec'[p].pc = "save" /\ rec'[p].row = row /\ rec'[p].goal = rec[p].goal
      /\ GoalOK(rec[p])' => (\A r \in Reconcilers : PassOK(r))'
  <2>1. q = [rec[p] EXCEPT !.pc = "save", !.goal = rec[p].goal] /\ rec[p].goal \in Rollout
    BY <1>2 DEF RolloutPass
  <2> QED BY <2>1, <1>1, SameRowKeeps DEF OnRollout
<1>8. TypeOK'
  BY <1>1, <1>6, <1>7 DEF IInv, TypeOK
<1>9. GoalOK(rec[p])'
  <2>1. NextDue(rec[p])'
    BY <1>1, <1>4, <1>7 DEF NextDue
  <2>2. ByTheBook(row.step)'
    BY <1>4, <1>6, <1>7 DEF ByTheBook
  <2> QED BY <2>1, <2>2, <1>4, <1>6, <1>7 DEF GoalOK
<1>10. ClusterOK'
  <2>1. dep.status = "READY" /\ rollout.status # "PROGRESSING" => share = Steps[1]
    BY <1>2 DEF RowOK, StepOf, Active
  <2>2. ASSUME Active(rollout), ~ rollout.abort, rollout.to = row.to
        PROVE  \E step \in {rollout.step, rollout.step + 1} \cap DOMAIN Steps : isvc'.share = Steps[step]
    <3>1. CASE row.id = rollout.id
      BY <2>2, <3>1, <1>2, <1>4, <1>6 DEF RowOK
    <3>2. CASE row.id # rollout.id
      <4>1. row.step = 0 /\ rollout.step = 0
        BY <2>2, <3>2, <1>2 DEF RowOK, Active, StepOf, IInv, RolloutOK
      <4> QED BY <4>1, <1>4, <1>6
    <3> QED BY <3>1, <3>2
  <2>3. TrafficByTheBook'
    BY <2>2, <1>1, <1>6 DEF TrafficByTheBook, Active
  <2> QED BY <2>1, <2>3, <1>1, <1>2, <1>6 DEF ClusterOK
<1> QED BY <1>1, <1>7, <1>8, <1>9, <1>10, Undisturbed DEF IInv, TypeOK

LEMMA SaveKeeps ==
  ASSUME IInv, OneReconciler, NEW p \in Reconcilers, Save(p)
  PROVE  IInv'
<1> DEFINE row == rec[p].row
           goal == rec[p].goal
<1>1. /\ rec[p].pc = "save" /\ Becomes(p, Idle)
      /\ rollout.id = row.id /\ rollout.status = row.status /\ rollout' = goal
      /\ UNCHANGED <<dep, endp, revs, ver, isvc, abt, calls, faults, intent, asked, proven>>
  BY DEF Save, bounds, history
<1>2. rec[p] \in RolloutPass /\ RowOK(rec[p]) /\ GoalOK(rec[p]) /\ dep.status # "DELETED"
  BY <1>1, UnderWay DEF OnRollout
<1>3. /\ row \in Rollout /\ goal \in Rollout /\ row.step \in Nat
      /\ rollout.from = row.from /\ rollout.to = row.to /\ JudgedBefore(row.step)
      /\ Active(rollout) /\ Active(row) /\ Between(row) /\ ~ row.abort
  BY <1>1, <1>2 DEF RolloutPass, Rollout, StepIndex, RowOK, GoalOK, Active
<1>4. /\ goal.id = row.id /\ goal.from = row.from /\ goal.to = row.to /\ goal.abort = row.abort
      /\ goal.status = "PROGRESSING" /\ goal.step # 0
      /\ JudgedBefore(goal.step)
      /\ isvc.rev = row.to => ByTheBook(goal.step)
  <2>1. CASE NextDue(rec[p]) /\ (isvc.rev = row.to => isvc.share = Steps[row.step + 1])
    <3>1. row.step + 1 \in StepIndex /\ row.step + 1 \in DOMAIN Steps /\ goal = AtStep(row, row.step + 1)
      BY <2>1, <1>3, Plan DEF NextDue, StepIndex
    <3>2. /\ goal.id = row.id /\ goal.from = row.from /\ goal.to = row.to /\ goal.abort = row.abort
          /\ goal.status = "PROGRESSING" /\ goal.step = row.step + 1
      BY <3>1, <1>3, AtStepSays
    <3>3. JudgedBefore(row.step + 1)
      <4>1. row.step = 0 \/ row.step \in proven
        BY <2>1, <1>2 DEF NextDue, RowOK, StepOf, Active
      <4> QED BY <4>1, <1>3 DEF JudgedBefore
    <3>4. isvc.rev = row.to => ByTheBook(row.step + 1)
      BY <2>1, <3>1 DEF ByTheBook
    <3> QED BY <3>2, <3>3, <3>4, <1>3
  <2>2. CASE row.status = "PROGRESSING" /\ goal = [row EXCEPT !.observing = TRUE]
    <3>1. /\ goal.id = row.id /\ goal.from = row.from /\ goal.to = row.to /\ goal.abort = row.abort
          /\ goal.status = "PROGRESSING" /\ goal.step = row.step
      BY <2>2, <1>3 DEF Rollout
    <3>2. row.step # 0
      BY <2>2, <1>2 DEF RowOK, StepOf
    <3> QED BY <3>1, <3>2, <1>1, <1>2, <1>3 DEF GoalOK
  <2> QED BY <2>1, <2>2, <1>1, <1>2 DEF GoalOK
<1>5. TypeOK' /\ Counted'
  BY <1>1, <1>3, <1>4, PassEnds DEF IInv, TypeOK, Counted
<1>6. RollsFromStable'
  BY <1>1, <1>2, <1>3, <1>4 DEF IInv, RollsFromStable, Live, Active
<1>7. RolloutOK'
  BY <1>1, <1>3, <1>4 DEF RolloutOK, Between, Active, JudgedBefore, StepOf, SuccessIsProven
<1>8. AbortOK'
  BY <1>1, <1>3, <1>4 DEF IInv, AbortOK, JudgedBefore, NoRollout
<1>9. ClusterOK'
  <2>1. TrafficByTheBook'
    BY <1>1, <1>3, <1>4 DEF TrafficByTheBook, ByTheBook
  <2> QED BY <2>1, <1>1, <1>2, <1>4 DEF IInv, ClusterOK
<1> QED BY <1>1, <1>5, <1>6, <1>7, <1>8, <1>9, PassEnds, Undisturbed DEF IInv

(* Serving is repaired before the rollout is marked rolled back.             *)
LEMMA RepairKeeps ==
  ASSUME IInv, OneReconciler, NEW p \in Reconcilers, Repair(p)
  PROVE  IInv'
<1> DEFINE row == rec[p].row
           q == [rec[p] EXCEPT !.pc = "rollback"]
<1>1. /\ rec[p].pc = "repair" /\ Becomes(p, q) /\ isvc' = Applied(row.from, 100)
      /\ UNCHANGED <<dep, endp, revs, ver, rollout, abt, calls, faults, intent, asked, proven>>
  BY DEF Repair, Repaired, rows, bounds, history
<1>2. rec[p] \in RolloutPass /\ RowOK(rec[p]) /\ dep.status # "DELETED"
  BY <1>1, UnderWay DEF OnRollout
<1>3. /\ row.from \in Revision /\ dep.active = row.from
      /\ isvc' \in Resource /\ isvc'.state # "Absent" /\ isvc'.rev = row.from
  <2>1. row.from \in Revision /\ 100 \in 0 .. 100
    BY <1>2 DEF RolloutPass, Rollout
  <2> QED BY <2>1, <1>1, <1>2, AppliedSays DEF IInv, RowOK
<1>4. /\ rec' \in [Reconcilers -> {Idle} \cup DeploymentPass \cup RolloutPass]
      /\ rec'[p].pc = "rollback" /\ rec'[p].row = row
      /\ GoalOK(rec[p])' => (\A r \in Reconcilers : PassOK(r))'
  <2>1. q = [rec[p] EXCEPT !.pc = "rollback", !.goal = rec[p].goal] /\ rec[p].goal \in Rollout
    BY <1>2 DEF RolloutPass
  <2> QED BY <2>1, <1>1, SameRowKeeps DEF OnRollout
<1>5. TypeOK'
  BY <1>1, <1>3, <1>4 DEF IInv, TypeOK
<1>6. GoalOK(rec[p])'
  BY <1>3, <1>4 DEF GoalOK
<1>7. ClusterOK'
  <2>1. TrafficByTheBook'
    BY <1>1, <1>3 DEF IInv, TrafficByTheBook, RollsFromStable, RolloutOK, Between, Active
  <2> QED BY <2>1, <1>1, <1>2, <1>3 DEF ClusterOK
<1> QED BY <1>1, <1>4, <1>5, <1>6, <1>7, Undisturbed DEF IInv, TypeOK

LEMMA RollBackKeeps ==
  ASSUME IInv, OneReconciler, NEW p \in Reconcilers, RollBack(p)
  PROVE  IInv'
<1> DEFINE row == rec[p].row
<1>1. /\ rec[p].pc = "rollback" /\ Becomes(p, Idle) /\ Unchanged(rec[p])
      /\ rollout' = [row EXCEPT !.status = "ROLLED_BACK"]
      /\ ver' \in {ver, [ver EXCEPT ![revs[row.to]] = "REJECTED"]}
      /\ UNCHANGED <<dep, endp, revs, isvc, abt, calls, faults, intent, asked, proven>>
  BY DEF RollBack, bounds, history
<1>2. rec[p] \in RolloutPass /\ RowOK(rec[p]) /\ GoalOK(rec[p]) /\ dep.status # "DELETED"
  BY <1>1, UnderWay DEF OnRollout
<1>3. /\ rollout.id = row.id /\ rollout.from = row.from /\ rollout.to = row.to
      /\ Active(row) /\ StepOf(row) /\ row \in Rollout
  BY <1>1, <1>2 DEF Unchanged, RowOK, RolloutPass
<1>4. /\ rollout' \in Rollout /\ rollout'.id = rollout.id /\ rollout'.status = "ROLLED_BACK"
      /\ rollout'.from = rollout.from /\ rollout'.to = rollout.to
  BY <1>1, <1>3 DEF Rollout, RolloutStatus
<1>5. TypeOK' /\ Counted'
  BY <1>1, <1>4, PassEnds DEF IInv, TypeOK, Counted, ModelStatus
<1>6. RollsFromStable' /\ RolloutOK'
  BY <1>4 DEF RollsFromStable, RolloutOK, Active, StepOf, SuccessIsProven
<1>7. AbortOK' /\ ClusterOK'
  BY <1>1, <1>2, <1>4 DEF IInv, AbortOK, JudgedBefore, ClusterOK, TrafficByTheBook, Active, NoRollout,
                          GoalOK, RowOK
<1> QED BY <1>1, <1>5, <1>6, <1>7, PassEnds, Undisturbed DEF IInv

LEMMA SucceedKeeps ==
  ASSUME IInv, OneReconciler, NEW p \in Reconcilers, Succeed(p)
  PROVE  IInv'
<1> DEFINE row == rec[p].row
<1>1. /\ rec[p].pc = "succeed" /\ Becomes(p, Idle) /\ Unchanged(rec[p])
      /\ rollout' = [row EXCEPT !.status = "SUCCEEDED"]
      /\ dep' = [status |-> dep.status, desired |-> row.to, active |-> row.to]
      /\ ver' \in {ver, Crowned(revs[row.to])} /\ intent' = row.to
      /\ UNCHANGED <<endp, revs, isvc, abt, calls, faults, asked, proven>>
  BY DEF Succeed, bounds
<1>2. rec[p] \in RolloutPass /\ RowOK(rec[p]) /\ GoalOK(rec[p]) /\ dep.status # "DELETED"
  BY <1>1, UnderWay DEF OnRollout
<1>3. /\ rollout.id = row.id /\ rollout.from = row.from /\ rollout.to = row.to
      /\ Active(row) /\ StepOf(row) /\ row \in Rollout /\ row.to \in DOMAIN revs /\ Active(rollout)
  BY <1>1, <1>2 DEF Unchanged, RowOK, RolloutPass, Between, Active
<1>4. /\ rollout' \in Rollout /\ rollout'.id = rollout.id /\ rollout'.status = "SUCCEEDED"
      /\ rollout'.from = rollout.from /\ rollout'.to = rollout.to
  BY <1>1, <1>3 DEF Rollout, RolloutStatus
<1>5. /\ row.to \in Revision /\ row.to # 0 /\ row.to <= Len(revs)
      /\ dep' \in Deployment /\ dep'.status = dep.status /\ dep'.desired = row.to /\ dep'.active = row.to
  BY <1>1, <1>3 DEF Rollout, IInv, TypeOK, Deployment
<1>6. ver' \in [Versions -> ModelStatus]
  <2>1. revs[row.to] \in Versions
    BY <1>3, ElementOfSeq DEF IInv, TypeOK
  <2> QED BY <2>1, <1>1, CrownedSays DEF IInv, TypeOK
<1>7. TypeOK' /\ Counted'
  BY <1>1, <1>4, <1>5, <1>6, PassEnds DEF IInv, TypeOK, Counted
<1>8. ReadyIsReachable' /\ RollsFromStable'
  BY <1>1, <1>4, <1>5 DEF IInv, ReadyIsReachable, RollsFromStable, Active
<1>9. RolloutOK'
  <2>1. JudgedBefore(Len(Steps)) /\ Len(Steps) \in proven /\ proven \subseteq DOMAIN Steps
    BY <1>1, <1>2, <1>3 DEF RowOK, GoalOK, IInv, TypeOK
  <2>2. ASSUME NEW i \in DOMAIN Steps PROVE i \in proven
    <3>1. i = Len(Steps) \/ i \in 1 .. Len(Steps) - 1
      BY Plan
    <3> QED BY <3>1, <2>1 DEF JudgedBefore
  <2> QED BY <2>1, <2>2, <1>1, <1>4 DEF RolloutOK, Active, StepOf, SuccessIsProven
<1>10. AbortOK' /\ ClusterOK'
  BY <1>1, <1>2, <1>4, <1>5 DEF IInv, AbortOK, JudgedBefore, ClusterOK, TrafficByTheBook, Active, NoRollout,
                                GoalOK
<1> QED BY <1>1, <1>7, <1>8, <1>9, <1>10, PassEnds DEF IInv

(* What comes of a look at the canary: nothing, a rollback, an observation, a  *)
(* step that is due, or success. The last two only on a verdict that counts. *)
LEMMA LookSays ==
  ASSUME IInv, OneReconciler, NEW p \in Reconcilers, Look(p)
  PROVE  /\ rec[p].pc = "look"
         /\ UNCHANGED <<dep, endp, revs, ver, rollout, isvc, abt, calls, faults, intent, asked>>
         /\ \/ Becomes(p, Idle) /\ UNCHANGED proven
            \/ \E pc \in {"repair", "save", "shift", "succeed"}, goal \in Rollout :
                 /\ Becomes(p, [rec[p] EXCEPT !.pc = pc, !.goal = goal])
                 /\ pc \in {"repair", "save"} => UNCHANGED proven
                 /\ pc = "save" => goal = [rec[p].row EXCEPT !.observing = TRUE]
                 /\ pc \in {"shift", "succeed"} =>
                      /\ proven' = proven \cup {rec[p].row.step}
                      /\ isvc.rev = rec[p].row.to
                 /\ pc = "shift" =>
                      rec[p].row.step < Len(Steps) /\ goal = AtStep(rec[p].row, rec[p].row.step + 1)
                 /\ pc = "succeed" => ~ (rec[p].row.step < Len(Steps))
<1> DEFINE row == rec[p].row
           Next_(pc, goal) == [rec[p] EXCEPT !.pc = pc, !.goal = goal]
<1>1. /\ rec[p].pc = "look"
      /\ UNCHANGED <<dep, endp, revs, ver, rollout, isvc, abt, calls, faults, intent, asked>>
  BY DEF Look, rows, bounds
<1>2. rec[p] \in RolloutPass /\ RowOK(rec[p]) /\ GoalOK(rec[p])
  BY <1>1, UnderWay DEF OnRollout
<1>3. /\ row \in Rollout /\ rec[p].goal \in Rollout /\ row.step \in 1 .. Len(Steps)
      /\ row.status = "PROGRESSING" /\ ~ row.abort /\ row.id = rollout.id
  <2>1. row \in Rollout /\ rec[p].goal \in Rollout
    BY <1>2 DEF RolloutPass
  <2>2. row.status = "PROGRESSING" /\ ~ row.abort /\ row.step # 0 /\ row.id = rollout.id
    BY <1>1, <1>2 DEF GoalOK, RowOK, StepOf
  <2>3. row.step \in 0 .. Len(Steps)
    BY <2>1 DEF Rollout, StepIndex
  <2> QED BY <2>1, <2>2, <2>3, Plan
<1>4. \A pc \in {"repair", "succeed"} : [rec[p] EXCEPT !.pc = pc] = Next_(pc, rec[p].goal)
  BY <1>2 DEF RolloutPass
<1>5. CASE Becomes(p, [rec[p] EXCEPT !.pc = "repair"]) /\ UNCHANGED proven
  BY <1>1, <1>3, <1>4, <1>5
<1>6. CASE Becomes(p, Idle) /\ UNCHANGED proven
  BY <1>1, <1>6
<1>7. ASSUME CanaryServes(row), NEW verdict \in Verdicts(row),
             Becomes(p, AfterVerdict(rec[p], verdict)),
             proven' = IF verdict = "PASS" /\ row.observing /\ row.id = rollout.id
                            /\ isvc.share >= Share(row.step)
                         THEN proven \cup {row.step} ELSE proven
      PROVE  \/ Becomes(p, Idle) /\ UNCHANGED proven
             \/ \E pc \in {"repair", "save", "shift", "succeed"}, goal \in Rollout :
                  /\ Becomes(p, Next_(pc, goal))
                  /\ pc \in {"repair", "save"} => UNCHANGED proven
                  /\ pc = "save" => goal = [row EXCEPT !.observing = TRUE]
                  /\ pc \in {"shift", "succeed"} => proven' = proven \cup {row.step} /\ isvc.rev = row.to
                  /\ pc = "shift" => row.step < Len(Steps) /\ goal = AtStep(row, row.step + 1)
                  /\ pc = "succeed" => ~ (row.step < Len(Steps))
  <2>1. isvc.rev = row.to
    BY <1>7, StatusSays DEF CanaryServes, CanaryLost, IInv
  <2>2. CASE verdict = "OBSERVE"
    <3>1. [row EXCEPT !.observing = TRUE] \in Rollout
      BY <1>3 DEF Rollout
    <3> QED BY <3>1, <2>2, <1>7 DEF AfterVerdict
  <2>3. CASE verdict = "FAIL"
    BY <2>3, <1>3, <1>4, <1>7 DEF AfterVerdict
  <2>4. CASE verdict = "WAIT"
    BY <2>4, <1>7 DEF AfterVerdict
  <2>5. CASE verdict = "PASS"
    <3>1. row.observing
      BY <2>5, <1>7 DEF Verdicts
    <3>2. isvc.share >= Share(row.step)
      <4>1. PICK s \in {row.step, row.step + 1} \cap DOMAIN Steps : isvc.share = Steps[s]
        BY <2>1, <1>1, <1>2, <1>3 DEF GoalOK, ByTheBook
      <4>2. Steps[row.step] <= Steps[s] /\ Steps[row.step] \in 1 .. 100 /\ Steps[s] \in 1 .. 100
        <5>1. row.step \in DOMAIN Steps /\ s \in DOMAIN Steps /\ row.step <= s
          BY <4>1, <1>3, Plan
        <5> QED BY <5>1, Plan
      <4>3. Share(row.step) = Steps[row.step]
        BY <1>3 DEF Share
      <4> QED BY <4>1, <4>2, <4>3
    <3>3. proven' = proven \cup {row.step}
      BY <3>1, <3>2, <2>5, <1>3, <1>7
    <3>4. CASE row.step < Len(Steps)
      <4>1. AtStep(row, row.step + 1) \in Rollout
        <5>1. row.step + 1 \in StepIndex
          BY <3>4, <1>3, Plan DEF StepIndex
        <5> QED BY <5>1, <1>3, AtStepSays
      <4> QED BY <4>1, <3>3, <3>4, <2>1, <2>5, <1>7 DEF AfterVerdict, NextStep
    <3>5. CASE ~ (row.step < Len(Steps))
      BY <3>3, <3>5, <2>1, <2>5, <1>3, <1>4, <1>7 DEF AfterVerdict
    <3> QED BY <3>4, <3>5
  <2>6. Verdicts(row) \subseteq {"OBSERVE", "FAIL", "WAIT", "PASS"}
    BY DEF Verdicts
  <2> QED BY <2>2, <2>3, <2>4, <2>5, <2>6
<1> QED BY <1>1, <1>5, <1>6, <1>7 DEF Look

LEMMA LookKeeps ==
  ASSUME IInv, OneReconciler, NEW p \in Reconcilers, Look(p)
  PROVE  IInv'
<1> DEFINE row == rec[p].row
<1>1. /\ rec[p].pc = "look"
      /\ UNCHANGED <<dep, endp, revs, ver, rollout, isvc, abt, calls, faults, intent, asked>>
  BY LookSays
<1>2. /\ rec[p] \in RolloutPass /\ RowOK(rec[p]) /\ GoalOK(rec[p]) /\ dep.status # "DELETED"
      /\ row.status = "PROGRESSING" /\ ~ row.abort
  BY <1>1, UnderWay DEF OnRollout, GoalOK
<1>3. row.step \in 1 .. Len(Steps) /\ rollout.status = "PROGRESSING"
  <2>1. row.step # 0 /\ rollout.status = "PROGRESSING" /\ row \in Rollout
    BY <1>2 DEF RowOK, StepOf, RolloutPass
  <2> QED BY <2>1, Plan DEF Rollout, StepIndex
<1>4. CASE Becomes(p, Idle) /\ UNCHANGED proven
  BY <1>1, <1>4, EndKeeps DEF IInv, TypeOK
<1>5. ASSUME NEW pc \in {"repair", "save", "shift", "succeed"}, NEW goal \in Rollout,
             Becomes(p, [rec[p] EXCEPT !.pc = pc, !.goal = goal]),
             pc \in {"repair", "save"} => UNCHANGED proven,
             pc = "save" => goal = [row EXCEPT !.observing = TRUE],
             pc \in {"shift", "succeed"} => proven' = proven \cup {row.step} /\ isvc.rev = row.to,
             pc = "shift" => row.step < Len(Steps) /\ goal = AtStep(row, row.step + 1),
             pc = "succeed" => ~ (row.step < Len(Steps))
      PROVE  IInv'
  <2>1. proven' \in {proven, proven \cup {row.step}}
    BY <1>5
  <2>2. /\ rec' \in [Reconcilers -> {Idle} \cup DeploymentPass \cup RolloutPass]
        /\ rec'[p].pc = pc /\ rec'[p].row = row /\ rec'[p].goal = goal
        /\ GoalOK(rec[p])' => (\A r \in Reconcilers : PassOK(r))'
    BY <2>1, <1>1, <1>5, SameRowKeeps DEF OnRollout
  <2>3. TypeOK'
    BY <2>1, <2>2, <1>1, <1>3, Plan DEF IInv, TypeOK
  <2>4. GoalOK(rec[p])'
    <3>1. isvc.rev = row.to => ByTheBook(row.step)
      BY <1>1, <1>2 DEF GoalOK
    <3>2. pc = "succeed" => row.step = Len(Steps)
      BY <1>3, <1>5, Plan
    <3> QED BY <3>1, <3>2, <2>2, <1>1, <1>2, <1>5 DEF GoalOK, NextDue, ByTheBook
  <2>5. RolloutOK' /\ AbortOK'
    BY <2>1, <1>1, <1>3 DEF IInv, RolloutOK, AbortOK, Active, Between, JudgedBefore, StepOf,
                            SuccessIsProven, NoRollout
  <2>6. ClusterOK'
    BY <1>1, <1>2 DEF IInv, ClusterOK, TrafficByTheBook, Active, Absent
  <2> QED BY <2>2, <2>3, <2>4, <2>5, <2>6, <1>1, Undisturbed DEF IInv, TypeOK
<1> QED BY <1>4, <1>5, LookSays

-----------------------------------------------------------------------------
(* The specification. *)

LEMMA Initially == Init => IInv
<1> SUFFICES ASSUME Init PROVE IInv
  OBVIOUS
<1>1. TypeOK
  <2>1. rollout \in Rollout /\ abt \in Rollout /\ isvc \in Resource /\ dep \in Deployment
    BY Plan DEF Init, NoRollout, Rollout, RolloutStatus, StepIndex, Absent, Resource, Revision,
                Blank, Deployment, DeploymentStatus
  <2> QED BY <2>1, Plan DEF Init, TypeOK, EndpointStatus, ModelStatus, Revision
<1>2. Counted
  BY DEF Init, Counted, NoRollout, Blank
<1>3. ReadyIsReachable /\ RollsFromStable
  BY DEF Init, ReadyIsReachable, RollsFromStable, NoRollout, Blank, Active
<1>4. RolloutOK /\ AbortOK
  BY DEF Init, RolloutOK, AbortOK, NoRollout, Active, StepOf, SuccessIsProven
<1>5. ClusterOK
  BY DEF Init, ClusterOK, Blank, Absent, NoRollout, TrafficByTheBook, Active
<1>6. \A p \in Reconcilers : PassOK(p)
  BY DEF Init, Idle, PassOK, OnDeletion, OnDeployment, OnRollout
<1> QED BY <1>1, <1>2, <1>3, <1>4, <1>5, <1>6 DEF IInv

LEMMA Stutters == IInv /\ UNCHANGED vars => IInv'
<1> SUFFICES ASSUME IInv, UNCHANGED vars PROVE IInv'
  OBVIOUS
<1>1. UNCHANGED <<dep, endp, revs, ver, rollout, isvc, rec, abt, calls, faults, intent, asked, proven>>
  BY DEF vars, rows, bounds, history
<1> QED BY <1>1, Undisturbed DEF IInv, TypeOK

LEMMA EveryStepKeeps ==
  ASSUME IInv, OneReconciler, [Next]_vars
  PROVE  IInv'
<1>1. CASE Request
  BY <1>1, DeployKeeps, EnsureRevisionKeeps, PromoteKeeps, StartKeeps, RollbackKeeps, AbortReadKeeps,
     AbortWriteKeeps, RequestDeleteKeeps DEF Request
<1>2. CASE Settle \/ Outage \/ Removed
  BY <1>2, ClusterKeeps
<1>3. ASSUME NEW p \in Reconcilers, DeploymentLoad(p) \/ RolloutLoad(p) \/ PassStep(p) \/ Crash(p)
      PROVE  IInv'
  <2>1. CASE DeploymentLoad(p) \/ RolloutLoad(p) \/ Crash(p) \/ Conflict(p)
    BY <2>1, DeploymentLoadKeeps, RolloutLoadKeeps, CrashKeeps
  <2>2. CASE Delete(p) \/ CheckGone(p) \/ MarkDeleted(p)
    BY <2>2, DeleteKeeps, CheckGoneKeeps, MarkDeletedKeeps
  <2>3. CASE GetStatus(p) \/ Compare(p) \/ Degrade(p) \/ Redeploy(p) \/ Apply(p)
    BY <2>3, GetStatusKeeps, CompareKeeps, DegradeKeeps, RedeployKeeps, ApplyKeeps
  <2>4. CASE StatusAgain(p) \/ Judge(p) \/ MarkReady(p) \/ MarkFailed(p)
    BY <2>4, GetStatusKeeps, JudgeKeeps, MarkReadyKeeps, MarkFailedKeeps
  <2>5. CASE CheckCandidate(p) \/ Shift(p) \/ Save(p) \/ Look(p)
    BY <2>5, CheckCandidateKeeps, ShiftKeeps, SaveKeeps, LookKeeps
  <2>6. CASE Succeed(p) \/ NotPromoted(p) \/ Repair(p) \/ RollBack(p)
    BY <2>6, SucceedKeeps, NotPromotedKeeps, RepairKeeps, RollBackKeeps
  <2> QED BY <1>3, <2>1, <2>2, <2>3, <2>4, <2>5, <2>6 DEF PassStep
<1> QED BY <1>1, <1>2, <1>3, Stutters DEF Next

(* IInv is an inductive invariant of a single reconciler.                    *)
THEOREM Inductive == ASSUME OneReconciler PROVE Spec => []IInv
<1>1. Init => IInv
  BY Initially
<1>2. IInv /\ [Next]_vars => IInv'
  BY EveryStepKeeps
<1> QED BY <1>1, <1>2, PTL DEF Spec

(* A deployment is READY only while its endpoint is and serves what is        *)
(* desired, a deleted one has left nothing behind, and an active rollout      *)
(* would return to the active revision: deployments.py and rollouts.py, their *)
(* requests and both of their passes, wherever these are cut off.            *)
THEOREM EndpointHolds == ASSUME OneReconciler PROVE Spec => []EndpointIsTrue
<1>1. IInv => EndpointIsTrue
  BY DEF IInv, ClusterOK, EndpointIsTrue, DeletedServesNothing
<1> QED BY <1>1, Inductive, PTL

(* A canary never has more traffic than the step after the recorded one, and  *)
(* a rollout succeeds only when its canary has passed the gate at every step: *)
(* _apply before _save, and the verdicts of _progress.                       *)
THEOREM CanaryHolds == ASSUME OneReconciler PROVE Spec => []CanaryByTheBook
<1>1. IInv => CanaryByTheBook
  BY DEF IInv, ClusterOK, RolloutOK, CanaryByTheBook
<1> QED BY <1>1, Inductive, PTL

(* A rollout is marked rolled back when the canary has no traffic left.       *)
LEMMA RepairedFirst ==
  ASSUME IInv, OneReconciler, [Next]_vars
  PROVE  RolledBackAfterRepair
<1> SUFFICES ASSUME rollout.status = "PROGRESSING", rollout'.status = "ROLLED_BACK"
             PROVE  isvc.rev # rollout.to
  BY DEF RolledBackAfterRepair
<1>1. \E p \in Reconcilers : Save(p) \/ Succeed(p) \/ RollBack(p)
  <2>1. rollout' # rollout
    OBVIOUS
  <2>2. ~ AbortWrite
    <3>1. SUFFICES ASSUME AbortWrite PROVE FALSE
      OBVIOUS
    <3>2. abt \in Rollout
      BY DEF IInv, TypeOK
    <3> QED BY <3>1, <3>2 DEF AbortWrite, Rollout
  <2>3. \A r : ~ Start(r)
    BY DEF Start, CanStart, Active
  <2> QED BY <2>1, <2>2, <2>3
          DEF Next, Request, PassStep, vars, rows, Deploy, EnsureRevision, Promote, Rollback, AbortRead,
              AbortGiveUp, RequestDelete, Settle, Outage, Removed, DeploymentLoad, RolloutLoad, Crash,
              Delete, CheckGone, MarkDeleted, GetStatus, Compare, Degrade, Redeploy, Apply, StatusAgain,
              Judge, MarkReady, MarkFailed, CheckCandidate, Shift, Look, NotPromoted, Repair, Conflict
<1>2. PICK p \in Reconcilers : Save(p) \/ Succeed(p) \/ RollBack(p)
  BY <1>1
<1>3. /\ rec[p].pc \in {"save", "succeed", "rollback"} /\ rollout.id = rec[p].row.id
      /\ rollout' \in {rec[p].goal, [rec[p].row EXCEPT !.status = "SUCCEEDED"],
                       [rec[p].row EXCEPT !.status = "ROLLED_BACK"]}
      /\ Save(p) => rec[p].pc = "save" /\ rollout' = rec[p].goal
      /\ Succeed(p) => rollout' = [rec[p].row EXCEPT !.status = "SUCCEEDED"]
      /\ RollBack(p) => rec[p].pc = "rollback"
  BY <1>2 DEF Save, Succeed, RollBack, Unchanged
<1>4. rec[p] \in RolloutPass /\ RowOK(rec[p]) /\ GoalOK(rec[p])
  BY <1>3, UnderWay DEF OnRollout
<1>5. rec[p].row \in Rollout /\ rec[p].goal \in Rollout /\ rec[p].row.step \in Nat
  BY <1>4, Plan DEF RolloutPass, Rollout, StepIndex
<1>6. ~ Succeed(p)
  BY <1>3, <1>5 DEF Rollout
<1>7. ~ Save(p)
  <2>1. SUFFICES ASSUME Save(p) PROVE FALSE
    OBVIOUS
  <2>2. CASE NextDue(rec[p])
    <3>1. rec[p].row.step + 1 \in StepIndex
      BY <2>2, <1>5, Plan DEF NextDue, StepIndex
    <3> QED BY <2>1, <2>2, <3>1, <1>3, <1>5, AtStepSays DEF NextDue
  <2>3. CASE rec[p].row.status = "PROGRESSING" /\ rec[p].goal = [rec[p].row EXCEPT !.observing = TRUE]
    BY <2>1, <2>3, <1>3, <1>5 DEF Rollout
  <2> QED BY <2>1, <2>2, <2>3, <1>3, <1>4 DEF GoalOK
<1>8. isvc.rev \in {0, rec[p].row.from}
  BY <1>2, <1>3, <1>4, <1>6, <1>7 DEF GoalOK
<1>9. rollout.to = rec[p].row.to /\ rollout.to # 0 /\ rollout.to # rec[p].row.from
  BY <1>3, <1>4 DEF RowOK, Between, IInv, TypeOK
<1> QED BY <1>8, <1>9

(* Nobody but the rollout decides about its candidate.                       *)
LEMMA Reserved ==
  ASSUME IInv, OneReconciler, [Next]_vars
  PROVE  CandidateReserved
<1> DEFINE v == revs[rollout.to]
<1> SUFFICES ASSUME Active(rollout), ver[v] = "CANDIDATE", ver'[v] # ver[v]
             PROVE  \/ ver'[v] = "CHAMPION" /\ rollout'.status = "SUCCEEDED"
                    \/ ver'[v] = "REJECTED" /\ rollout'.status = "ROLLED_BACK"
  BY DEF CandidateReserved
<1>1. v \in Versions /\ ver \in [Versions -> ModelStatus]
  BY ElementOfSeq DEF IInv, TypeOK, RolloutOK, Between
<1>2. \/ \E w \in Versions : Promote(w)
      \/ \E p \in Reconcilers : Succeed(p) \/ RollBack(p)
  <2>1. ver' # ver
    OBVIOUS
  <2>2. \A r : ~ Rollback(r)
    BY DEF Rollback
  <2> QED BY <2>1, <2>2
          DEF Next, Request, PassStep, vars, rows, Deploy, EnsureRevision, Start, AbortRead, AbortWrite,
              AbortGiveUp, RequestDelete, Settle, Outage, Removed, DeploymentLoad, RolloutLoad, Crash,
              Delete, CheckGone, MarkDeleted, GetStatus, Compare, Degrade, Redeploy, Apply, StatusAgain,
              Judge, MarkReady, MarkFailed, CheckCandidate, Shift, Save, Look, NotPromoted, Repair, Conflict
<1>3. ASSUME NEW w \in Versions, Promote(w) PROVE FALSE
  <2>1. v # w /\ ver' = Crowned(w)
    BY <1>3 DEF Promote, CanPromote
  <2> QED BY <2>1, <1>1 DEF Crowned
<1>4. ASSUME NEW p \in Reconcilers, Succeed(p) \/ RollBack(p)
      PROVE  \/ ver'[v] = "CHAMPION" /\ rollout'.status = "SUCCEEDED"
             \/ ver'[v] = "REJECTED" /\ rollout'.status = "ROLLED_BACK"
  <2>1. rec[p].pc \in {"succeed", "rollback"} /\ rollout.id = rec[p].row.id
    BY <1>4 DEF Succeed, RollBack, Unchanged
  <2>2. rec[p] \in RolloutPass /\ RowOK(rec[p])
    BY <2>1, UnderWay DEF OnRollout
  <2>3. rec[p].row \in Rollout /\ revs[rec[p].row.to] = v
    BY <2>1, <2>2 DEF RolloutPass, RowOK
  <2>4. CASE Succeed(p)
    <3>1. rollout' = [rec[p].row EXCEPT !.status = "SUCCEEDED"] /\ ver' = Crowned(v)
      BY <2>3, <2>4 DEF Succeed
    <3> QED BY <3>1, <2>3, <1>1 DEF Rollout, Crowned
  <2>5. CASE RollBack(p)
    <3>1. rollout' = [rec[p].row EXCEPT !.status = "ROLLED_BACK"] /\ ver' = [ver EXCEPT ![v] = "REJECTED"]
      BY <2>3, <2>5 DEF RollBack
    <3> QED BY <3>1, <2>3, <1>1 DEF Rollout
  <2> QED BY <1>4, <2>4, <2>5
<1> QED BY <1>2, <1>3, <1>4

(* A rollout ends in the right order: the traffic before the record, and the  *)
(* candidate is nobody else's business before both (_rollback, _succeed, and  *)
(* the guard of PromotionService.promote).                                 *)
THEOREM EndsInOrder == ASSUME OneReconciler PROVE Spec => RolloutEndsInOrder
<1>1. IInv /\ [Next]_vars => [RolledBackAfterRepair /\ CandidateReserved]_vars
  BY RepairedFirst, Reserved
<1> QED BY <1>1, Inductive, PTL DEF Spec, RolloutEndsInOrder

============================================================================
