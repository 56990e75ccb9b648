------------------------ MODULE ServicesProofs -------------------------
(***************************************************************************)
(* Theorems about MCServices: PipelineRun, for every pipeline and any       *)
(* number of reconcilers that overlap, and then SignIn, EndpointAccess,     *)
(* Backup, Definitions and Catalog, for any number of clients.             *)
(***************************************************************************)
EXTENDS MCServices, FiniteSetTheorems, TLAPS

(* The workflow is gone and no submission under way can bring it back.      *)
Lost == phase = "Gone" /\ run.status # "PENDING" /\ \A p \in Reconcilers : rec[p].pc # "submit"

(* A step whose container has not succeeded and never will: that it is what  *)
(* an older picture of the workflow says too makes old pictures harmless.    *)
NeverDone(s) == s \notin done /\ (node[s] \in {"Failed", "Skipped"} \/ Lost)
Omitted(s)   == NeverDone(s) /\ \E d \in Needs[s] : NeverDone(d)

RowsOK ==
  /\ run.ref => run.status # "PENDING"
  /\ run.status = "PENDING" => step = Blank
  /\ \A s \in Steps : step[s] = "CANCELLED" => RunEnded(run.status)
  /\ \A s \in Steps : step[s] = "SKIPPED" => Omitted(s) \/ run.status \in {"SUCCEEDED", "FAILED"}

WorkflowOK ==
  /\ phase = "Gone" => node = NoNodes
  /\ phase = "Succeeded" => \A s \in Steps : node[s] = "Succeeded"
  /\ \A s \in Steps : node[s] = "Succeeded" => s \in done
  /\ \A s \in done : node[s] = "Succeeded" \/ Lost
  /\ \A s \in Steps : node[s] = "Skipped" => \E d \in Needs[s] : node[d] \in {"Failed", "Skipped"}

(* What a pass remembers of the run, of the workflow and of the steps is not *)
(* always so any more, but never unsays what has become final.              *)
RunRemembered(p) ==
  /\ rec[p].run.status # "PENDING" => run.status # "PENDING"
  /\ rec[p].pc \notin {"submit", "write"} => rec[p].run.status # "PENDING"
  /\ rec[p].pc \in {"closing", "close"} => RunEnded(run.status) /\ rec[p].run.status = run.status

NewsReal(p) ==
  /\ \A s \in Steps : rec[p].news[s] = "SUCCEEDED" => s \in done
  /\ \A s \in Steps : rec[p].news[s] = "SKIPPED" => Omitted(s)
  /\ \A s \in Steps : rec[p].news[s] # "CANCELLED"
  /\ rec[p].pc \in {"stop", "list", "steps"} /\ rec[p].goal = "SUCCEEDED"
       => \A s \in Steps : rec[p].news[s] = "SUCCEEDED"

StepsRemembered(p) ==
  /\ \A s \in Steps : StepEnded(rec[p].seen[s]) => step[s] = rec[p].seen[s]
  /\ rec[p].pc = "write" /\ rec[p].goal = "SUCCEEDED"
       => RunEnded(run.status) \/ \A s \in Steps : step[s] = "SUCCEEDED"

PassOK(p) == RunRemembered(p) /\ NewsReal(p) /\ StepsRemembered(p)

(* Whoever ends the run goes on to close its steps, or is interrupted.       *)
SomebodyCloses ==
  RunEnded(run.status) /\ ~ interrupted
    => \/ \A s \in Steps : StepEnded(step[s])
       \/ \E p \in Reconcilers : rec[p].pc \in {"closing", "close"}

IInv ==
  /\ TypeOK
  /\ RowsOK
  /\ WorkflowOK
  /\ \A p \in Reconcilers : rec[p] # Idle => PassOK(p)
  /\ SomebodyCloses
  /\ OutcomesAreReal

-----------------------------------------------------------------------------
(* A reconciler at a step other than "idle" holds a well-typed pass.         *)
LEMMA PassTyped ==
  ASSUME TypeOK, NEW p \in Reconcilers, rec[p] # Idle
  PROVE  rec[p] \in Pass
BY DEF TypeOK

LEMMA NotIdle ==
  ASSUME NEW p, rec[p].pc # "idle"
  PROVE  rec[p] # Idle
BY DEF Idle

(* What the workflow system says of a step and of the run.                  *)
LEMMA StepNewsSays ==
  ASSUME NEW s
  PROVE  /\ StepNews(s) \in StepStatus /\ StepNews(s) # "CANCELLED"
         /\ StepNews(s) = "SUCCEEDED" => node[s] = "Succeeded"
         /\ StepNews(s) = "SKIPPED" => node[s] = "Skipped"
         /\ node[s] = "Succeeded" => StepNews(s) = "SUCCEEDED"
BY DEF StepNews, NoNews, StepStatus

LEMMA RunNewsSays ==
  /\ RunNews \in RunStatus
  /\ RunNews = "SUCCEEDED" => phase = "Succeeded"
BY DEF RunNews, NoNews, RunStatus

(* The state machines of steps and runs, spelled out.                       *)
LEMMA StepEdgesSpelled ==
  ASSUME NEW s, NEW t, <<s, t>> \in StepEdges
  PROVE  /\ s \in StepStatus /\ t \in StepStatus
         /\ ~ StepEnded(s) /\ t # "PENDING" /\ t # s
BY DEF StepEdges, StepStatus, StepEnded

LEMMA RunEdgesSpelled ==
  ASSUME NEW s, NEW t, <<s, t>> \in RunEdges
  PROVE  /\ s \in RunStatus /\ t \in RunStatus
         /\ ~ RunEnded(s) /\ t # "PENDING" /\ t # s
         /\ t = "SUCCEEDED" => s = "RUNNING"
BY DEF RunEdges, RunStatus, RunEnded

(* A pass one step further on is a pass.                                    *)
LEMMA PassesTyped ==
  ASSUME TypeOK, NEW p \in Reconcilers, rec[p] # Idle
  PROVE  /\ \A next \in {"submit", "cancel", "observe", "stop", "list", "steps", "verdict",
                        "write", "closing", "close"} :
              At(rec[p], next) \in Pass /\ Reading(rec[p], next) \in Pass
         /\ \A goal \in RunStatus : Deciding(rec[p], goal) \in Pass
<1>1. rec[p] \in Pass /\ step \in [Steps -> StepStatus] /\ Blank \in [Steps -> StepStatus]
  BY DEF TypeOK, Blank, StepStatus
<1>2. QED
  BY <1>1 DEF At, Reading, Deciding, Pass

(* What the reconciler remembers once its row is stored.                    *)
LEMMA AfterWriteTyped ==
  ASSUME NEW q \in Pass, NEW stored \in RunRow
  PROVE  AfterWrite(q, stored) \in Pass \cup {Idle}
BY DEF AfterWrite, Pass, RunRow, RunStatus

LEMMA AfterWriteSays ==
  ASSUME NEW q \in Pass, q.pc = "write", NEW stored, AfterWrite(q, stored) # Idle
  PROVE  LET next == AfterWrite(q, stored) IN
         /\ next.run = stored /\ next.news = q.news /\ next.seen = q.seen
         /\ next.pc \in {"closing", "cancel", "write"}
         /\ next.pc = "closing" => RunEnded(stored.status)
         /\ next.pc = "write" => next.goal = q.goal
<1>1. CASE RunEnded(stored.status)
  BY <1>1 DEF AfterWrite, Pass
<1>2. CASE ~ RunEnded(stored.status) /\ stored.status = "SUBMITTED"
  BY <1>2 DEF AfterWrite, Pass
<1>3. CASE ~ RunEnded(stored.status) /\ stored.status # "SUBMITTED"
  BY <1>3 DEF AfterWrite, Pass
<1>4. QED
  BY <1>1, <1>2, <1>3

LEMMA MovedTyped ==
  ASSUME TypeOK, NEW p \in Reconcilers, rec[p] # Idle, NEW s \in Steps, NEW to,
         MoveStep(p, s, to)
  PROVE  /\ step' \in [Steps -> StepStatus]
         /\ published' \subseteq Publishing
         /\ rec' \in [Reconcilers -> Pass \cup {Idle}]
<1>1. rec[p] \in Pass
  BY PassTyped
<1>2. PICK status : /\ <<rec[p].seen[s], status>> \in StepEdges
                    /\ step' = [step EXCEPT ![s] = status]
                    /\ published' = published \cup StepResult(s, status)
                    /\ rec' = [rec EXCEPT ![p] = [rec[p] EXCEPT !.seen[s] = status]]
  BY DEF MoveStep
<1>3. status \in StepStatus
  BY <1>2, StepEdgesSpelled
<1>4. [rec[p] EXCEPT !.seen[s] = status] \in Pass
  BY <1>1, <1>3 DEF Pass
<1>5. QED
  BY <1>2, <1>3, <1>4 DEF TypeOK, StepResult

LEMMA TypeStep == TypeOK /\ [Next]_vars => TypeOK'
<1> SUFFICES ASSUME TypeOK, [Next]_vars PROVE TypeOK'
  OBVIOUS
<1> USE DEF rows, workflow, history
<1>1. CASE UNCHANGED vars
  BY <1>1 DEF TypeOK, vars
<1>2. CASE CancelStep
  <2>1. CASE CancelRead
    BY <2>1 DEF CancelRead, TypeOK, RunRow
  <2>2. CASE CancelWrite
    <3>1. canc \in RunStatus /\ step \in [Steps -> StepStatus]
      BY <2>2 DEF CancelWrite, TypeOK
    <3>2. run' \in RunRow
      <4>1. \/ run' = [status |-> "CANCELLED", ref |-> FALSE, cancel |-> FALSE]
            \/ run' = [status |-> canc, ref |-> TRUE, cancel |-> TRUE]
        BY <2>2 DEF CancelWrite
      <4>2. [status |-> "CANCELLED", ref |-> FALSE, cancel |-> FALSE] \in RunRow
        BY DEF RunRow, RunStatus
      <4>3. [status |-> canc, ref |-> TRUE, cancel |-> TRUE] \in RunRow
        BY <3>1 DEF RunRow
      <4>4. QED
        BY <4>1, <4>2, <4>3
    <3>3. step' \in [Steps -> StepStatus]
      BY <2>2, <3>1 DEF CancelWrite, CancelledSteps, StepStatus
    <3>4. canc' \in {"idle"} \cup RunStatus
      BY <2>2 DEF CancelWrite
    <3>5. QED
      BY <2>2, <3>2, <3>3, <3>4 DEF CancelWrite, TypeOK
  <2>3. CASE CancelGiveUp
    BY <2>3 DEF CancelGiveUp, TypeOK
  <2>4. QED
    BY <1>2, <2>1, <2>2, <2>3 DEF CancelStep
<1>3. CASE WorkflowStep
  <2>1. CASE WorkflowBegin
    BY <2>1 DEF WorkflowBegin, TypeOK, Phase
  <2>2. CASE WorkflowEnd
    BY <2>2 DEF WorkflowEnd, TypeOK, Phase
  <2>3. CASE WorkflowKilled
    BY <2>3 DEF WorkflowKilled, TypeOK, Phase, NodePhase
  <2>4. CASE WorkflowVanish
    BY <2>4 DEF WorkflowVanish, TypeOK, Phase, NodePhase, NoNodes
  <2>5. ASSUME NEW s \in Steps, NodeStart(s) \/ NodeEnd(s) \/ NodeSkip(s) PROVE TypeOK'
    BY <2>5 DEF NodeStart, NodeEnd, NodeSkip, TypeOK, NodePhase
  <2>6. QED
    BY <1>3, <2>1, <2>2, <2>3, <2>4, <2>5 DEF WorkflowStep
<1>4. ASSUME NEW p \in Reconcilers, ReconcilerStep(p) PROVE TypeOK'
  <2>1. CASE Load(p)
    <3>1. rec'[p] \in Pass /\ rec' = [rec EXCEPT ![p] = rec'[p]]
      BY <2>1 DEF Load, TypeOK, Pass, Blank, StepStatus, RunRow
    <3>2. QED
      BY <2>1, <3>1 DEF Load, TypeOK
  <2>2. CASE Submit(p)
    <3>1. rec[p] # Idle
      BY <2>2, NotIdle DEF Submit
    <3>2. rec' \in [Reconcilers -> Pass \cup {Idle}]
      BY <2>2, <3>1, PassesTyped DEF Submit, TypeOK, RunStatus
    <3>3. QED
      BY <2>2, <3>2 DEF Submit, TypeOK, Phase
  <2>3. CASE PassCancel(p) \/ Stop(p)
    <3>1. rec[p] # Idle
      BY <2>3, NotIdle DEF PassCancel, Stop
    <3>2. rec' \in [Reconcilers -> Pass \cup {Idle}]
      BY <2>3, <3>1, PassesTyped DEF PassCancel, Stop, TypeOK
    <3>3. rec[p].run.cancel \in BOOLEAN
      BY <3>1, PassTyped DEF Pass, RunRow
    <3>4. QED
      BY <2>3, <3>2, <3>3 DEF PassCancel, Stop, TypeOK
  <2>4. CASE Observe(p)
    <3>1. rec[p] # Idle
      BY <2>4, NotIdle DEF Observe
    <3>2. [rec[p] EXCEPT !.pc = IF Unstartable THEN "stop" ELSE "list",
                         !.goal = RunNews,
                         !.news = [s \in Steps |-> StepNews(s)]] \in Pass
      BY <3>1, PassTyped, StepNewsSays, RunNewsSays DEF Pass
    <3>3. Deciding(rec[p], "FAILED") \in Pass
      BY <3>1, PassesTyped DEF RunStatus
    <3>4. rec' \in [Reconcilers -> Pass \cup {Idle}]
      BY <2>4, <3>2, <3>3 DEF Observe, TypeOK
    <3>5. QED
      BY <2>4, <3>4 DEF Observe, TypeOK
  <2>5. CASE ListSteps(p) \/ ListOpen(p)
    <3>1. rec[p] # Idle
      BY <2>5, NotIdle DEF ListSteps, ListOpen
    <3>2. rec' \in [Reconcilers -> Pass \cup {Idle}]
      BY <2>5, <3>1, PassesTyped DEF ListSteps, ListOpen, TypeOK
    <3>3. QED
      BY <2>5, <3>2 DEF ListSteps, ListOpen, TypeOK
  <2>6. CASE Judge(p)
    <3>1. rec[p] # Idle
      BY <2>6, NotIdle DEF Judge
    <3>2. Outcome(rec[p]) \in RunStatus
      BY <3>1, PassTyped DEF Outcome, Pass, RunStatus
    <3>3. rec' \in [Reconcilers -> Pass \cup {Idle}]
      BY <2>6, <3>1, <3>2, PassesTyped DEF Judge, TypeOK
    <3>4. QED
      BY <2>6, <3>3 DEF Judge, TypeOK
  <2>7. CASE Write(p)
    <3>1. rec[p] \in Pass
      BY <2>7, NotIdle, PassTyped DEF Write
    <3>2. run' \in RunRow
      BY <2>7, <3>1, RunEdgesSpelled DEF Write, Pass, RunRow
    <3>3. rec' \in [Reconcilers -> Pass \cup {Idle}]
      BY <2>7, <3>1, <3>2, AfterWriteTyped DEF Write, TypeOK
    <3>4. QED
      BY <2>7, <3>2, <3>3 DEF Write, TypeOK
  <2>8. CASE Finished(p) \/ Abandon(p)
    BY <2>8 DEF Finished, Abandon, TypeOK
  <2>9. ASSUME NEW s \in Steps, SyncStep(p, s) \/ CloseStep(p, s) PROVE TypeOK'
    <3>1. rec[p] # Idle
      BY <2>9, NotIdle DEF SyncStep, CloseStep
    <3>2. PICK to : MoveStep(p, s, to)
      BY <2>9 DEF SyncStep, CloseStep
    <3>3. QED
      BY <2>9, <3>1, <3>2, MovedTyped DEF SyncStep, CloseStep, TypeOK
  <2>10. QED
    BY <1>4, <2>1, <2>2, <2>3, <2>4, <2>5, <2>6, <2>7, <2>8, <2>9 DEF ReconcilerStep
<1>5. QED
  BY <1>1, <1>2, <1>3, <1>4 DEF Next

-----------------------------------------------------------------------------
(* One step row moves along an edge, from what the pass has seen of it.      *)
Moved(p, s, status, to) ==
  /\ status \in {to, "FAILED"}
  /\ <<step[s], status>> \in StepEdges
  /\ step' = [step EXCEPT ![s] = status]
  /\ published' = published \cup StepResult(s, status)
  /\ rec' = [rec EXCEPT ![p] = rec'[p]]
  /\ rec'[p].pc = rec[p].pc /\ rec'[p].run = rec[p].run
  /\ rec'[p].goal = rec[p].goal /\ rec'[p].news = rec[p].news
  /\ rec'[p].seen = [rec[p].seen EXCEPT ![s] = status]

LEMMA MoveSpelled ==
  ASSUME TypeOK, NEW p \in Reconcilers, rec[p] # Idle, NEW s \in Steps, NEW to,
         MoveStep(p, s, to)
  PROVE  \E status \in StepStatus : Moved(p, s, status, to)
<1>1. rec[p] \in Pass
  BY PassTyped
<1>2. PICK status : /\ status \in {to, "FAILED"}
                    /\ <<rec[p].seen[s], status>> \in StepEdges
                    /\ StepUnmoved(rec[p], s)
                    /\ step' = [step EXCEPT ![s] = status]
                    /\ published' = published \cup StepResult(s, status)
                    /\ rec' = [rec EXCEPT ![p] = [rec[p] EXCEPT !.seen[s] = status]]
  BY DEF MoveStep
<1>3. status \in StepStatus
  BY <1>2, StepEdgesSpelled
<1>4. rec'[p] = [rec[p] EXCEPT !.seen[s] = status] /\ rec' = [rec EXCEPT ![p] = rec'[p]]
  BY <1>2 DEF TypeOK
<1>5. /\ rec'[p].pc = rec[p].pc /\ rec'[p].run = rec[p].run
      /\ rec'[p].goal = rec[p].goal /\ rec'[p].news = rec[p].news
      /\ rec'[p].seen = [rec[p].seen EXCEPT ![s] = status]
  BY <1>1, <1>4 DEF Pass
<1>6. <<step[s], status>> \in StepEdges
  BY <1>2 DEF StepUnmoved
<1>7. QED
  BY <1>2, <1>3, <1>4, <1>5, <1>6 DEF Moved

(* A reconciler step is a step of one pass; a submission begins only while   *)
(* the run is PENDING, and only the end of its work ends a pass that closes. *)
LEMMA OnePass ==
  ASSUME TypeOK, NEW p \in Reconcilers, ReconcilerStep(p)
  PROVE  /\ rec' = [rec EXCEPT ![p] = rec'[p]]
         /\ rec'[p].pc = "submit" => run.status = "PENDING"
         /\ rec[p].pc \in {"closing", "close"} =>
              \/ rec'[p].pc \in {"closing", "close"}
              \/ Finished(p) \/ interrupted'
<1>1. CASE Load(p) \/ Abandon(p)
  BY <1>1 DEF Load, Abandon, TypeOK, Idle
<1>2. CASE Submit(p)
  BY <1>2 DEF Submit, TypeOK, Deciding
<1>3. CASE PassCancel(p) \/ Stop(p) \/ ListSteps(p) \/ ListOpen(p)
  <2>1. rec[p] \in Pass
    BY <1>3, NotIdle, PassTyped DEF PassCancel, Stop, ListSteps, ListOpen
  <2>2. \A next : At(rec[p], next).pc = next /\ Reading(rec[p], next).pc = next
    BY <2>1 DEF At, Reading, Pass
  <2>3. CASE PassCancel(p) \/ Stop(p) \/ ListSteps(p)
    BY <2>2, <2>3 DEF PassCancel, Stop, ListSteps, TypeOK
  <2>4. CASE ListOpen(p)
    BY <2>2, <2>4 DEF ListOpen, TypeOK
  <2>5. QED
    BY <1>3, <2>3, <2>4
<1>4. CASE Observe(p)
  <2>1. rec[p] \in Pass
    BY <1>4, NotIdle, PassTyped DEF Observe
  <2>2. QED
    BY <1>4, <2>1 DEF Observe, TypeOK, Deciding, Pass
<1>5. CASE Judge(p) \/ Finished(p)
  BY <1>5 DEF Judge, Finished, TypeOK, Deciding, Idle
<1>6. CASE Write(p)
  <2>1. rec[p] \in Pass
    BY <1>6, NotIdle, PassTyped DEF Write
  <2>2. PICK stored : rec' = [rec EXCEPT ![p] = AfterWrite(rec[p], stored)]
    BY <1>6 DEF Write
  <2>3. AfterWrite(rec[p], stored).pc # "submit"
    BY <1>6, <2>1 DEF Write, AfterWrite, Pass, Idle
  <2>4. rec[p].pc = "write"
    BY <1>6 DEF Write
  <2>5. QED
    BY <2>2, <2>3, <2>4 DEF TypeOK
<1>7. ASSUME NEW s \in Steps, SyncStep(p, s) \/ CloseStep(p, s)
      PROVE  /\ rec' = [rec EXCEPT ![p] = rec'[p]]
             /\ rec'[p].pc = rec[p].pc /\ rec[p].pc # "submit"
  <2>1. PICK to : MoveStep(p, s, to)
    BY <1>7 DEF SyncStep, CloseStep
  <2>2. PICK status \in StepStatus : Moved(p, s, status, to)
    BY <1>7, <2>1, NotIdle, MoveSpelled DEF SyncStep, CloseStep
  <2>3. QED
    BY <1>7, <2>2 DEF Moved, SyncStep, CloseStep
<1>8. QED
  BY <1>1, <1>2, <1>3, <1>4, <1>5, <1>6, <1>7 DEF ReconcilerStep

(* What no step takes back.                                                 *)
Forward ==
  /\ done \subseteq done'
  /\ \A s \in Steps : NeverDone(s) => NeverDone(s)'
  /\ \A s \in Steps : StepEnded(step[s]) => step'[s] = step[s]
  /\ RunEnded(run.status) => run'.status = run.status
  /\ run.status # "PENDING" => run'.status # "PENDING"

(* The run row is written by the cancel request and by a pass that writes.   *)
LEMMA RunChanges ==
  [Next]_vars => UNCHANGED run \/ CancelWrite \/ \E p \in Reconcilers : Write(p)
BY DEF Next, vars, rows, CancelStep, CancelRead, CancelGiveUp, WorkflowStep, WorkflowBegin,
       WorkflowEnd, WorkflowKilled, WorkflowVanish, NodeStart, NodeEnd, NodeSkip,
       ReconcilerStep, Load, Submit, PassCancel, Observe, Stop, ListSteps, Judge, ListOpen,
       Finished, SyncStep, CloseStep, Abandon

LEMMA RunForward ==
  IInv /\ [Next]_vars =>
    /\ RunEnded(run.status) => run'.status = run.status
    /\ run.status # "PENDING" => run'.status # "PENDING"
<1> SUFFICES ASSUME IInv, [Next]_vars
             PROVE  /\ RunEnded(run.status) => run'.status = run.status
                    /\ run.status # "PENDING" => run'.status # "PENDING"
  OBVIOUS
<1>1. CASE CancelWrite
  BY <1>1 DEF CancelWrite, RunEnded
<1>2. ASSUME NEW p \in Reconcilers, Write(p)
      PROVE  ~ RunEnded(run.status) /\ run'.status # "PENDING"
  BY <1>2, RunEdgesSpelled DEF Write
<1>3. CASE UNCHANGED run
  BY <1>3
<1>4. UNCHANGED run \/ CancelWrite \/ \E p \in Reconcilers : Write(p)
  BY RunChanges
<1>5. QED
  BY <1>1, <1>2, <1>3, <1>4

(* A step row changes along an edge, from what a pass has seen of it, or is   *)
(* cancelled with its PENDING run.                                         *)
LEMMA StepChanges ==
  IInv /\ [Next]_vars =>
    \/ UNCHANGED <<step, published>>
    \/ /\ CancelWrite /\ run.status = "PENDING" /\ run'.status = "CANCELLED"
       /\ step = Blank /\ step' = [s \in Steps |-> "CANCELLED"] /\ UNCHANGED published
    \/ \E p \in Reconcilers, s \in Steps, status \in StepStatus :
         /\ SyncStep(p, s) \/ CloseStep(p, s)
         /\ rec[p] # Idle
         /\ Moved(p, s, status, IF rec[p].pc = "steps" THEN StepTarget(rec[p], s)
                                                       ELSE Closing(rec[p], s))
<1> SUFFICES ASSUME IInv, [Next]_vars, ~ UNCHANGED <<step, published>>
             PROVE  \/ /\ CancelWrite /\ run.status = "PENDING" /\ run'.status = "CANCELLED"
                       /\ step = Blank /\ step' = [s \in Steps |-> "CANCELLED"]
                       /\ UNCHANGED published
                    \/ \E p \in Reconcilers, s \in Steps, status \in StepStatus :
                         /\ SyncStep(p, s) \/ CloseStep(p, s)
                         /\ rec[p] # Idle
                         /\ Moved(p, s, status, IF rec[p].pc = "steps" THEN StepTarget(rec[p], s)
                                                                       ELSE Closing(rec[p], s))
  OBVIOUS
<1>1. CASE CancelWrite
  BY <1>1 DEF CancelWrite, CancelledSteps, IInv, RowsOK
<1>2. ASSUME NEW p \in Reconcilers, NEW s \in Steps, SyncStep(p, s) \/ CloseStep(p, s)
      PROVE  /\ rec[p] # Idle
             /\ \E status \in StepStatus :
                  Moved(p, s, status, IF rec[p].pc = "steps" THEN StepTarget(rec[p], s)
                                                             ELSE Closing(rec[p], s))
  <2>1. rec[p] # Idle
    BY <1>2, NotIdle DEF SyncStep, CloseStep
  <2>2. MoveStep(p, s, IF rec[p].pc = "steps" THEN StepTarget(rec[p], s)
                                              ELSE Closing(rec[p], s))
    BY <1>2 DEF SyncStep, CloseStep
  <2>3. QED
    BY <2>1, <2>2, MoveSpelled DEF IInv
<1>3. CancelWrite \/ \E p \in Reconcilers, s \in Steps : SyncStep(p, s) \/ CloseStep(p, s)
  BY DEF Next, vars, rows, CancelStep, CancelRead, CancelGiveUp, WorkflowStep, WorkflowBegin,
         WorkflowEnd, WorkflowKilled, WorkflowVanish, NodeStart, NodeEnd, NodeSkip,
         ReconcilerStep, Load, Submit, PassCancel, Observe, Stop, ListSteps, Judge, Write,
         ListOpen, Finished, Abandon
<1>4. QED
  BY <1>1, <1>2, <1>3

LEMMA LostForGood == IInv /\ [Next]_vars /\ Lost => Lost'
<1> SUFFICES ASSUME IInv, [Next]_vars, Lost PROVE Lost'
  OBVIOUS
<1>1. run'.status # "PENDING"
  BY RunForward DEF Lost
<1>2. ASSUME NEW p \in Reconcilers, ReconcilerStep(p)
      PROVE  phase' = "Gone" /\ \A q \in Reconcilers : rec'[q].pc # "submit"
  <2>1. \A q \in Reconcilers : rec'[q].pc # "submit"
    BY <1>2, OnePass DEF Lost, IInv, TypeOK
  <2>2. phase' = "Gone"
    BY <1>2 DEF Lost, ReconcilerStep, Load, Submit, PassCancel, Observe, Stop, ListSteps, Judge,
           Write, ListOpen, Finished, SyncStep, CloseStep, Abandon, workflow
  <2>3. QED
    BY <2>1, <2>2
<1>3. CASE UNCHANGED <<phase, rec>>
  BY <1>1, <1>3 DEF Lost
<1>4. CASE WorkflowStep
  BY <1>1, <1>4 DEF Lost, WorkflowStep, WorkflowBegin, WorkflowEnd, WorkflowKilled,
         WorkflowVanish, NodeStart, NodeEnd, NodeSkip, workflow
<1>5. CASE CancelStep
  BY <1>3, <1>5 DEF CancelStep, CancelRead, CancelWrite, CancelGiveUp, workflow
<1>6. CASE UNCHANGED vars
  BY <1>3, <1>6 DEF vars, workflow
<1>7. QED
  BY <1>1, <1>2, <1>4, <1>5, <1>6 DEF Next, Lost

(* The nodes and the containers change in the steps of the workflow only.     *)
LEMMA NodesChange ==
  [Next]_vars => UNCHANGED <<node, done>> \/ WorkflowStep
BY DEF Next, vars, workflow, history, CancelStep, CancelRead, CancelWrite, CancelGiveUp,
       ReconcilerStep, Load, Submit, PassCancel, Observe, Stop, ListSteps, Judge, Write, ListOpen,
       Finished, SyncStep, CloseStep, Abandon

LEMMA NeverDoneForGood ==
  ASSUME IInv, [Next]_vars, NEW s \in Steps, NeverDone(s)
  PROVE  NeverDone(s)'
<1>1. CASE UNCHANGED <<node, done>>
  BY <1>1, LostForGood DEF NeverDone
<1>2. CASE WorkflowBegin \/ WorkflowEnd
  BY <1>2, <1>1 DEF WorkflowBegin, WorkflowEnd, history
<1>3. CASE WorkflowKilled
  BY <1>3, LostForGood DEF WorkflowKilled, NeverDone, history, IInv, TypeOK
<1>4. CASE WorkflowVanish
  BY <1>4 DEF WorkflowVanish, NeverDone, Lost, IInv, RowsOK, rows, history
<1>5. ASSUME NEW t \in Steps, NodeStart(t) \/ NodeEnd(t) \/ NodeSkip(t)
      PROVE  NeverDone(s)'
  <2>1. t # s \/ node[t] \notin {"Pending", "Running"}
    BY <1>5 DEF NodeStart, NodeEnd, NodeSkip, NeverDone, Lost
  <2>2. t # s
    BY <1>5, <2>1 DEF NodeStart, NodeEnd, NodeSkip
  <2>3. node'[s] = node[s] /\ s \notin done'
    BY <1>5, <2>2 DEF NodeStart, NodeEnd, NodeSkip, NeverDone, IInv, TypeOK, history
  <2>4. QED
    BY <2>3, LostForGood DEF NeverDone
<1>6. QED
  BY <1>1, <1>2, <1>3, <1>4, <1>5, NodesChange DEF WorkflowStep

LEMMA StepsForward ==
  ASSUME IInv, [Next]_vars, NEW s \in Steps, StepEnded(step[s])
  PROVE  step'[s] = step[s]
<1>1. CASE step = Blank
  BY <1>1 DEF Blank, StepEnded
<1>2. ASSUME NEW p \in Reconcilers, NEW t \in Steps, NEW status, NEW to,
             Moved(p, t, status, to)
      PROVE  step'[s] = step[s]
  BY <1>2, StepEdgesSpelled DEF Moved, IInv, TypeOK
<1>3. QED
  BY <1>1, <1>2, StepChanges

LEMMA ForwardStep == IInv /\ [Next]_vars => Forward
<1> SUFFICES ASSUME IInv, [Next]_vars PROVE Forward
  OBVIOUS
<1>1. done \subseteq done'
  BY NodesChange DEF WorkflowStep, WorkflowBegin, WorkflowEnd, WorkflowKilled, WorkflowVanish,
         NodeStart, NodeEnd, NodeSkip, history
<1>2. QED
  BY <1>1, RunForward, NeverDoneForGood, StepsForward DEF Forward

(* StepsMoveForward, as a fact about one step.                              *)
LEMMA StepsMove ==
  IInv /\ [Next]_vars => \A s \in Steps : step'[s] # step[s] => <<step[s], step'[s]>> \in StepEdges
<1> SUFFICES ASSUME IInv, [Next]_vars, NEW s \in Steps, step'[s] # step[s]
             PROVE  <<step[s], step'[s]>> \in StepEdges
  OBVIOUS
<1>1. CASE step = Blank /\ step' = [t \in Steps |-> "CANCELLED"]
  BY <1>1 DEF Blank, StepEdges
<1>2. ASSUME NEW p \in Reconcilers, NEW t \in Steps, NEW status, NEW to,
             Moved(p, t, status, to)
      PROVE  <<step[s], step'[s]>> \in StepEdges
  BY <1>2 DEF Moved, IInv, TypeOK
<1>3. QED
  BY <1>1, <1>2, StepChanges

-----------------------------------------------------------------------------
LEMMA WorkflowStepOK == IInv /\ [Next]_vars => WorkflowOK'
<1> SUFFICES ASSUME IInv, [Next]_vars PROVE WorkflowOK'
  OBVIOUS
<1>1. CASE UNCHANGED <<phase, node, done>>
  BY <1>1, LostForGood DEF IInv, WorkflowOK
<1>2. ASSUME NEW p \in Reconcilers, Submit(p) PROVE WorkflowOK'
  <2>1. ~ Lost /\ UNCHANGED <<node, done>> /\ phase' \in {phase, "Pending"}
    BY <1>2 DEF Lost, Submit, history
  <2>2. \A s \in done : node[s] = "Succeeded"
    BY <2>1 DEF IInv, WorkflowOK
  <2>3. phase' = "Gone" => phase = "Gone"
    BY <2>1
  <2>4. phase' = "Succeeded" => phase = "Succeeded"
    BY <2>1
  <2>5. QED
    BY <2>1, <2>2, <2>3, <2>4 DEF IInv, WorkflowOK, NoNodes
<1>3. CASE WorkflowBegin \/ WorkflowEnd
  BY <1>3, LostForGood DEF WorkflowBegin, WorkflowEnd, history, IInv, WorkflowOK
<1>4. CASE WorkflowKilled
  <2>1. node' = [s \in Steps |-> IF node[s] \in {"Running", "Stuck"} THEN "Failed" ELSE node[s]]
        /\ phase' = "Failed" /\ done' = done /\ phase # "Gone"
    BY <1>4 DEF WorkflowKilled, history
  <2>2. \A s \in Steps : node[s] = "Succeeded" <=> node'[s] = "Succeeded"
    BY <2>1
  <2>3. \A s \in Steps : node[s] \in {"Failed", "Skipped"} => node'[s] \in {"Failed", "Skipped"}
    BY <2>1
  <2>4. \A s \in Steps : node'[s] = "Skipped" => node[s] = "Skipped"
    BY <2>1
  <2>5. \A s \in Steps : Needs[s] \subseteq Steps
    BY PipelineAssumption
  <2>6. done \subseteq Steps
    BY DEF IInv, TypeOK
  <2>7. QED
    BY <2>1, <2>2, <2>3, <2>4, <2>5, <2>6, LostForGood DEF IInv, WorkflowOK
<1>5. CASE WorkflowVanish
  BY <1>5 DEF WorkflowVanish, IInv, WorkflowOK, RowsOK, Lost, NoNodes, rows, history
<1>6. ASSUME NEW t \in Steps, NodeStart(t) \/ NodeEnd(t) \/ NodeSkip(t) PROVE WorkflowOK'
  <2>1. /\ phase' = phase /\ phase = "Running"
        /\ node[t] \in {"Pending", "Running"}
        /\ node' = [node EXCEPT ![t] = node'[t]]
        /\ node'[t] = "Succeeded" => t \in done'
        /\ node'[t] = "Skipped" => \E d \in Needs[t] : node[d] \in {"Failed", "Skipped"}
        /\ done' = IF node'[t] = "Succeeded" THEN done \cup {t} ELSE done
    BY <1>6 DEF NodeStart, NodeEnd, NodeSkip, IInv, TypeOK, history
  <2>2. \A s \in Steps : Needs[s] \subseteq Steps
    BY PipelineAssumption
  <2>3. \A s \in Steps : node[s] \in {"Failed", "Skipped", "Succeeded"} => node'[s] = node[s]
    BY <2>1 DEF IInv, TypeOK
  <2>4. \A s \in Steps : s # t => node'[s] = node[s]
    BY <2>1 DEF IInv, TypeOK
  <2>5. done \subseteq Steps /\ ~ Lost
    BY <2>1 DEF IInv, TypeOK, Lost
  <2>6. \A s \in Steps : node'[s] = "Succeeded" => s \in done'
    BY <2>1, <2>4 DEF IInv, WorkflowOK
  <2>7. \A s \in done' : node'[s] = "Succeeded"
    BY <2>1, <2>3, <2>5 DEF IInv, WorkflowOK
  <2>8. \A s \in Steps : node'[s] = "Skipped" => \E d \in Needs[s] : node'[d] \in {"Failed", "Skipped"}
    BY <2>1, <2>2, <2>3, <2>4 DEF IInv, WorkflowOK
  <2>9. QED
    BY <2>1, <2>6, <2>7, <2>8 DEF WorkflowOK
<1>7. UNCHANGED <<phase, node, done>> \/ WorkflowStep \/ \E p \in Reconcilers : Submit(p)
  BY DEF Next, vars, workflow, history, CancelStep, CancelRead, CancelWrite, CancelGiveUp,
       ReconcilerStep, Load, PassCancel, Observe, Stop, ListSteps, Judge, Write, ListOpen,
       Finished, SyncStep, CloseStep, Abandon
<1>8. QED
  BY <1>1, <1>2, <1>3, <1>4, <1>5, <1>6, <1>7 DEF WorkflowStep

-----------------------------------------------------------------------------
LEMMA OmittedForGood ==
  ASSUME Forward, NEW s \in Steps, Omitted(s)
  PROVE  Omitted(s)'
<1>1. Needs[s] \subseteq Steps
  BY PipelineAssumption
<1>2. QED
  BY <1>1 DEF Forward, Omitted

(* What a pass remembers stays as good as it was.                           *)
LEMMA RunKept ==
  ASSUME TypeOK, Forward, NEW p \in Reconcilers, RunRemembered(p), rec'[p].run = rec[p].run,
         rec'[p].pc \notin {"submit", "write"} => rec[p].run.status # "PENDING",
         rec'[p].pc \in {"closing", "close"} => rec[p].pc \in {"closing", "close"}
  PROVE  RunRemembered(p)'
BY DEF RunRemembered, Forward

LEMMA NewsKept ==
  ASSUME Forward, NEW p \in Reconcilers, NewsReal(p), rec'[p].news = rec[p].news,
         rec'[p].pc \in {"stop", "list", "steps"} /\ rec'[p].goal = "SUCCEEDED"
           => rec[p].pc \in {"stop", "list", "steps"} /\ rec[p].goal = "SUCCEEDED"
  PROVE  NewsReal(p)'
BY OmittedForGood DEF NewsReal, Forward

LEMMA StepsKept ==
  ASSUME Forward, NEW p \in Reconcilers, StepsRemembered(p), rec'[p].seen = rec[p].seen,
         rec'[p].pc = "write" /\ rec'[p].goal = "SUCCEEDED"
           => rec[p].pc = "write" /\ rec[p].goal = "SUCCEEDED"
  PROVE  StepsRemembered(p)'
BY DEF StepsRemembered, Forward, StepEnded

LEMMA PassKept ==
  ASSUME TypeOK, Forward, NEW p \in Reconcilers, PassOK(p), rec'[p] = rec[p]
  PROVE  PassOK(p)'
<1>1. RunRemembered(p)'
  BY RunKept DEF PassOK, RunRemembered
<1>2. NewsReal(p)' /\ StepsRemembered(p)'
  BY NewsKept, StepsKept DEF PassOK
<1>3. QED
  BY <1>1, <1>2 DEF PassOK

(* A pass that knows nothing of the steps.                                  *)
LEMMA BlankOK ==
  ASSUME NEW p \in Reconcilers, rec'[p].news = Blank, rec'[p].seen = Blank,
         rec'[p].pc \notin {"stop", "list", "steps"},
         rec'[p].pc = "write" /\ rec'[p].goal = "SUCCEEDED" =>
           RunEnded(run'.status) \/ \A s \in Steps : step'[s] = "SUCCEEDED"
  PROVE  NewsReal(p)' /\ StepsRemembered(p)'
BY DEF NewsReal, StepsRemembered, Blank, StepEnded

(* Deciding an outcome other than success.                                  *)
LEMMA DecidedOK ==
  ASSUME IInv, [Next]_vars, NEW p \in Reconcilers, rec[p] # Idle,
         NEW goal, rec'[p] = Deciding(rec[p], goal),
         goal = "SUCCEEDED" => RunEnded(run.status) \/ \A s \in Steps : step[s] = "SUCCEEDED"
  PROVE  PassOK(p)'
<1>1. Forward /\ PassOK(p) /\ TypeOK
  BY ForwardStep DEF IInv
<1>2. /\ rec'[p].pc = "write" /\ rec'[p].run = rec[p].run /\ rec'[p].goal = goal
      /\ rec'[p].news = Blank /\ rec'[p].seen = Blank
  BY DEF Deciding
<1>3. RunRemembered(p)'
  BY <1>1, <1>2, RunKept DEF PassOK
<1>4. goal = "SUCCEEDED" => RunEnded(run'.status) \/ \A s \in Steps : step'[s] = "SUCCEEDED"
  BY <1>1 DEF Forward, StepEnded
<1>5. NewsReal(p)' /\ StepsRemembered(p)'
  BY <1>2, <1>4, BlankOK
<1>6. QED
  BY <1>3, <1>5 DEF PassOK

LEMMA LoadOK ==
  ASSUME IInv, [Next]_vars, NEW p \in Reconcilers, Load(p)
  PROVE  PassOK(p)'
<1>1. /\ rec'[p].pc \in {"submit", "cancel"} /\ rec'[p].run = run /\ run' = run
      /\ rec'[p].news = Blank /\ rec'[p].seen = Blank
      /\ rec'[p].pc # "submit" => run.status # "PENDING"
  BY DEF Load, IInv, TypeOK, rows
<1>2. RunRemembered(p)'
  BY <1>1 DEF RunRemembered
<1>3. QED
  BY <1>1, <1>2, BlankOK DEF PassOK

LEMMA SubmitOK ==
  ASSUME IInv, [Next]_vars, NEW p \in Reconcilers, Submit(p)
  PROVE  PassOK(p)'
<1>1. rec[p] # Idle
  BY NotIdle DEF Submit
<1>2. PICK goal \in {"SUBMITTED", "FAILED", "CANCELLED"} : rec'[p] = Deciding(rec[p], goal)
  BY DEF Submit, IInv, TypeOK
<1>3. QED
  BY <1>1, <1>2, DecidedOK

(* PassCancel, Stop and ListSteps go on with what they have.                 *)
LEMMA GoOnOK ==
  ASSUME IInv, [Next]_vars, NEW p \in Reconcilers, PassCancel(p) \/ Stop(p)
  PROVE  PassOK(p)'
<1>1. rec[p] \in Pass /\ rec[p] # Idle
  BY NotIdle, PassTyped DEF PassCancel, Stop, IInv
<1>2. Forward /\ PassOK(p) /\ TypeOK
  BY <1>1, ForwardStep DEF IInv
<1>3. PICK next \in {"observe", "list"} :
        /\ rec' = [rec EXCEPT ![p] = At(rec[p], next)]
        /\ rec[p].pc \in {"cancel", "stop"} /\ (next = "list" => rec[p].pc = "stop")
  BY DEF PassCancel, Stop
<1>4. rec'[p] = At(rec[p], next)
  BY <1>2, <1>3 DEF TypeOK
<1>5. /\ rec'[p].pc = next /\ rec'[p].run = rec[p].run /\ rec'[p].goal = rec[p].goal
      /\ rec'[p].news = rec[p].news /\ rec'[p].seen = rec[p].seen
  BY <1>1, <1>4 DEF At, Pass
<1>6. RunRemembered(p)'
  BY <1>2, <1>3, <1>5, RunKept DEF PassOK, RunRemembered
<1>7. NewsReal(p)' /\ StepsRemembered(p)'
  BY <1>2, <1>3, <1>5, NewsKept, StepsKept DEF PassOK
<1>8. QED
  BY <1>6, <1>7 DEF PassOK

(* A pass that looks at the step rows now knows which have ended.            *)
LEMMA ReadOK ==
  ASSUME IInv, [Next]_vars, NEW p \in Reconcilers, ListSteps(p) \/ ListOpen(p)
  PROVE  PassOK(p)'
<1>1. rec[p] \in Pass /\ rec[p] # Idle
  BY NotIdle, PassTyped DEF ListSteps, ListOpen, IInv
<1>2. Forward /\ PassOK(p) /\ TypeOK
  BY <1>1, ForwardStep DEF IInv
<1>3. PICK next \in {"steps", "close"} :
        /\ rec' = [rec EXCEPT ![p] = Reading(rec[p], next)]
        /\ next = "steps" => rec[p].pc = "list"
        /\ next = "close" => rec[p].pc = "closing"
        /\ step' = step
  BY DEF ListSteps, ListOpen, rows
<1>4. rec'[p] = Reading(rec[p], next)
  BY <1>2, <1>3 DEF TypeOK
<1>5. /\ rec'[p].pc = next /\ rec'[p].run = rec[p].run /\ rec'[p].goal = rec[p].goal
      /\ rec'[p].news = rec[p].news /\ rec'[p].seen = step
  BY <1>1, <1>4 DEF Reading, Pass
<1>6. RunRemembered(p)'
  BY <1>2, <1>3, <1>5, RunKept DEF PassOK, RunRemembered
<1>7. NewsReal(p)'
  BY <1>2, <1>3, <1>5, NewsKept DEF PassOK
<1>8. StepsRemembered(p)'
  BY <1>3, <1>5 DEF StepsRemembered
<1>9. QED
  BY <1>6, <1>7, <1>8 DEF PassOK

(* Looking at the workflow: its nodes tell what has happened, or never will. *)
LEMMA ObserveOK ==
  ASSUME IInv, [Next]_vars, NEW p \in Reconcilers, Observe(p)
  PROVE  PassOK(p)'
<1>1. rec[p] \in Pass /\ rec[p] # Idle
  BY NotIdle, PassTyped DEF Observe, IInv
<1>2. Forward /\ PassOK(p) /\ TypeOK /\ WorkflowOK
  BY <1>1, ForwardStep DEF IInv
<1>3. CASE phase = "Gone"
  <2>1. rec'[p] = Deciding(rec[p], "FAILED")
    BY <1>2, <1>3 DEF Observe, TypeOK
  <2>2. QED
    BY <1>1, <2>1, DecidedOK
<1>4. CASE phase # "Gone"
  <2>1. rec'[p] = [rec[p] EXCEPT !.pc = IF Unstartable THEN "stop" ELSE "list",
                                 !.goal = RunNews,
                                 !.news = [s \in Steps |-> StepNews(s)]]
    BY <1>2, <1>4 DEF Observe, TypeOK
  <2>2. /\ rec'[p].pc \in {"stop", "list"} /\ rec'[p].goal = RunNews
        /\ rec'[p].news = [s \in Steps |-> StepNews(s)]
        /\ rec'[p].run = rec[p].run /\ rec'[p].seen = rec[p].seen
    BY <1>1, <2>1 DEF Pass
  <2>3. rec[p].pc = "observe" /\ UNCHANGED <<phase, node, done>> /\ ~ Lost
    BY <1>4 DEF Observe, workflow, history, Lost
  <2>4. RunRemembered(p)'
    BY <1>2, <2>2, <2>3, RunKept DEF PassOK, RunRemembered
  <2>5. \A s \in Steps : node[s] \in {"Failed", "Skipped"} => NeverDone(s)
    BY <1>2, <2>3 DEF WorkflowOK, NeverDone
  <2>6. \A s \in Steps : node[s] = "Skipped" => Omitted(s)
    <3>1. \A s \in Steps : Needs[s] \subseteq Steps
      BY PipelineAssumption
    <3>2. QED
      BY <1>2, <2>5, <3>1 DEF WorkflowOK, Omitted
  <2>7. \A s \in Steps : rec'[p].news[s] = StepNews(s)
    BY <2>2
  <2>8. \A s \in Steps : rec'[p].news[s] = "SUCCEEDED" => s \in done'
    BY <1>2, <2>3, <2>7, StepNewsSays DEF WorkflowOK
  <2>9. \A s \in Steps : rec'[p].news[s] = "SKIPPED" => Omitted(s)'
    BY <1>2, <2>6, <2>7, StepNewsSays, OmittedForGood
  <2>10. rec'[p].goal = "SUCCEEDED" => \A s \in Steps : rec'[p].news[s] = "SUCCEEDED"
    BY <1>2, <2>2, <2>7, StepNewsSays, RunNewsSays DEF WorkflowOK
  <2>11. NewsReal(p)'
    BY <2>7, <2>8, <2>9, <2>10, StepNewsSays DEF NewsReal
  <2>12. StepsRemembered(p)'
    BY <1>2, <2>2, StepsKept DEF PassOK
  <2>13. QED
    BY <2>4, <2>11, <2>12 DEF PassOK
<1>5. QED
  BY <1>3, <1>4

(* A pass that has recorded all it knows finds a run successful only if every *)
(* step is: they have ended, none has failed, and none can have been cancelled *)
(* or skipped, since that needs the run to have ended or a step never done.  *)
LEMMA JudgeOK ==
  ASSUME IInv, [Next]_vars, NEW p \in Reconcilers, Judge(p), rec'[p] # Idle
  PROVE  PassOK(p)'
<1>1. rec[p] \in Pass /\ rec[p] # Idle
  BY NotIdle, PassTyped DEF Judge, IInv
<1>2. PassOK(p) /\ TypeOK
  BY <1>1 DEF IInv
<1>3. rec'[p] = Deciding(rec[p], Outcome(rec[p]))
  BY <1>2 DEF Judge, TypeOK
<1>4. ASSUME Outcome(rec[p]) = "SUCCEEDED", ~ RunEnded(run.status)
      PROVE  \A s \in Steps : step[s] = "SUCCEEDED"
  <2>1. rec[p].goal = "SUCCEEDED" /\ \A s \in Steps : step[s] # "FAILED"
    BY <1>4 DEF Outcome
  <2>2. rec[p].pc = "steps" /\ \A s \in Steps : s \notin Behind(rec[p])
    BY DEF Judge
  <2>3. \A s \in Steps : rec[p].news[s] = "SUCCEEDED"
    BY <1>2, <2>1, <2>2 DEF PassOK, NewsReal
  <2>4. \A s \in Steps : StepEnded(rec[p].seen[s])
    BY <2>2, <2>3 DEF Behind, NoNews, StepEnded
  <2>5. \A s \in Steps : step[s] = rec[p].seen[s]
    BY <1>2, <2>4 DEF PassOK, StepsRemembered
  <2>6. \A s \in Steps : s \in done
    BY <1>2, <2>3 DEF PassOK, NewsReal
  <2>7. \A s \in Steps : step[s] \notin {"CANCELLED", "SKIPPED"}
    BY <1>4, <2>6 DEF IInv, RowsOK, RunEnded, Omitted, NeverDone
  <2>8. QED
    BY <2>1, <2>4, <2>5, <2>7 DEF StepEnded
<1>5. QED
  BY <1>1, <1>3, <1>4, DecidedOK

(* The row a pass has stored is the row it goes on with.                     *)
LEMMA WriteOK ==
  ASSUME IInv, [Next]_vars, NEW p \in Reconcilers, Write(p), rec'[p] # Idle
  PROVE  PassOK(p)'
<1>1. rec[p] \in Pass /\ rec[p] # Idle
  BY NotIdle, PassTyped DEF Write, IInv
<1>2. Forward /\ PassOK(p) /\ TypeOK
  BY <1>1, ForwardStep DEF IInv
<1>3. /\ rec' = [rec EXCEPT ![p] = AfterWrite(rec[p], run')]
      /\ rec[p].pc = "write" /\ run'.status # "PENDING"
  BY RunEdgesSpelled DEF Write
<1>4. rec'[p] = AfterWrite(rec[p], run')
  BY <1>2, <1>3 DEF TypeOK
<1>5. /\ rec'[p].run = run'
      /\ rec'[p].news = rec[p].news /\ rec'[p].seen = rec[p].seen
      /\ rec'[p].pc \in {"closing", "cancel", "write"}
      /\ rec'[p].pc = "closing" => RunEnded(run'.status)
      /\ rec'[p].pc = "write" => rec'[p].goal = rec[p].goal
  BY <1>1, <1>3, <1>4, AfterWriteSays
<1>6. RunRemembered(p)'
  BY <1>3, <1>5 DEF RunRemembered
<1>7. NewsReal(p)' /\ StepsRemembered(p)'
  BY <1>2, <1>3, <1>5, NewsKept, StepsKept DEF PassOK
<1>8. QED
  BY <1>6, <1>7 DEF PassOK

LEMMA MovedOK ==
  ASSUME IInv, [Next]_vars, NEW p \in Reconcilers, rec[p] # Idle,
         NEW s \in Steps, NEW status, NEW to, Moved(p, s, status, to)
  PROVE  PassOK(p)'
<1>1. Forward /\ PassOK(p) /\ TypeOK /\ rec[p] \in Pass
  BY ForwardStep, PassTyped DEF IInv
<1>2. /\ rec'[p].pc = rec[p].pc /\ rec'[p].run = rec[p].run
      /\ rec'[p].goal = rec[p].goal /\ rec'[p].news = rec[p].news
  BY DEF Moved
<1>3. RunRemembered(p)' /\ NewsReal(p)'
  BY <1>1, <1>2, RunKept, NewsKept DEF PassOK, RunRemembered
<1>4. \A t \in Steps : StepEnded(rec'[p].seen[t]) => step'[t] = rec'[p].seen[t]
  BY <1>1 DEF Moved, PassOK, StepsRemembered, Forward, TypeOK, Pass
<1>5. StepsRemembered(p)'
  BY <1>1, <1>2, <1>4 DEF StepsRemembered, PassOK, Forward, StepEnded
<1>6. QED
  BY <1>3, <1>5 DEF PassOK

LEMMA PassesStep ==
  IInv /\ [Next]_vars => \A p \in Reconcilers : rec'[p] # Idle => PassOK(p)'
<1> SUFFICES ASSUME IInv, [Next]_vars, NEW p \in Reconcilers, rec'[p] # Idle
             PROVE  PassOK(p)'
  OBVIOUS
<1>1. CASE rec'[p] = rec[p]
  BY <1>1, ForwardStep, PassKept DEF IInv
<1>2. ASSUME NEW q \in Reconcilers, ReconcilerStep(q), rec'[p] # rec[p]
      PROVE  ReconcilerStep(p)
  BY <1>2, OnePass DEF IInv, TypeOK
<1>3. CASE ReconcilerStep(p)
  <2>1. ASSUME NEW s \in Steps, SyncStep(p, s) \/ CloseStep(p, s) PROVE PassOK(p)'
    <3>1. rec[p] # Idle
      BY <2>1, NotIdle DEF SyncStep, CloseStep
    <3>2. PICK to : MoveStep(p, s, to)
      BY <2>1 DEF SyncStep, CloseStep
    <3>3. QED
      BY <3>1, <3>2, MoveSpelled, MovedOK DEF IInv
  <2>2. CASE Finished(p) \/ Abandon(p)
    BY <2>2 DEF Finished, Abandon, IInv, TypeOK
  <2>3. QED
    BY <1>3, <2>1, <2>2, LoadOK, SubmitOK, GoOnOK, ReadOK, ObserveOK, JudgeOK, WriteOK
       DEF ReconcilerStep
<1>4. CASE ~ \E q \in Reconcilers : ReconcilerStep(q)
  BY <1>1, <1>4 DEF Next, vars, CancelStep, CancelRead, CancelWrite, CancelGiveUp, WorkflowStep,
         WorkflowBegin, WorkflowEnd, WorkflowKilled, WorkflowVanish, NodeStart, NodeEnd, NodeSkip
<1>5. QED
  BY <1>1, <1>2, <1>3, <1>4

-----------------------------------------------------------------------------
(* What moves a step row, besides the cancelling of a PENDING run: news of its *)
(* node, while the run is under way or over, or the closing of a run that has  *)
(* ended.                                                                  *)
LEMMA WhyMoved ==
  ASSUME IInv, NEW p \in Reconcilers, rec[p] # Idle, NEW s \in Steps, NEW status,
         SyncStep(p, s) \/ CloseStep(p, s),
         Moved(p, s, status, IF rec[p].pc = "steps" THEN StepTarget(rec[p], s)
                                                    ELSE Closing(rec[p], s))
  PROVE  /\ run.status # "PENDING" /\ run' = run
         /\ status = "SUCCEEDED" => s \in done
         /\ status = "CANCELLED" => RunEnded(run.status)
         /\ status = "SKIPPED" => Omitted(s) \/ run.status \in {"SUCCEEDED", "FAILED"}
<1>1. PassOK(p)
  BY DEF IInv
<1>2. run' = run /\ rec[p].pc \in {"steps", "close"}
  BY DEF SyncStep, CloseStep
<1>3. run.status # "PENDING"
  BY <1>1, <1>2 DEF PassOK, RunRemembered
<1>4. CASE rec[p].pc = "steps"
  <2>1. status \in {StepTarget(rec[p], s), "FAILED"}
    BY <1>4 DEF Moved
  <2>2. status \in {"RUNNING", "FAILED", rec[p].news[s]}
    BY <2>1 DEF StepTarget
  <2>3. QED
    BY <1>1, <1>2, <1>3, <2>2 DEF PassOK, NewsReal
<1>5. CASE rec[p].pc = "close"
  <2>1. status \in {Closing(rec[p], s), "FAILED"}
    BY <1>5 DEF Moved
  <2>2. RunEnded(run.status) /\ rec[p].run.status = run.status
    BY <1>1, <1>5 DEF PassOK, RunRemembered
  <2>3. status \in {"CANCELLED", "SKIPPED", "FAILED"}
        /\ (status = "SKIPPED" => run.status # "CANCELLED")
    BY <2>1, <2>2 DEF Closing
  <2>4. QED
    BY <1>2, <1>3, <2>2, <2>3 DEF RunEnded
<1>6. QED
  BY <1>2, <1>4, <1>5

LEMMA RowsStep == IInv /\ [Next]_vars => RowsOK'
<1> SUFFICES ASSUME IInv, [Next]_vars PROVE RowsOK'
  OBVIOUS
<1>1. Forward /\ RowsOK
  BY ForwardStep DEF IInv
<1>2. run'.ref => run'.status # "PENDING"
  <2>1. CASE CancelWrite
    BY <2>1 DEF CancelWrite
  <2>2. CASE UNCHANGED run
    BY <1>1, <2>2 DEF RowsOK
  <2>3. ASSUME NEW p \in Reconcilers, Write(p) PROVE run'.status # "PENDING"
    BY <2>3, RunEdgesSpelled DEF Write
  <2>4. UNCHANGED run \/ CancelWrite \/ \E p \in Reconcilers : Write(p)
    BY RunChanges
  <2>5. QED
    BY <2>1, <2>2, <2>3, <2>4
<1>3. run'.status = "PENDING" => step' = Blank
  BY <1>1, StepChanges, WhyMoved DEF Forward, RowsOK
<1>4. ASSUME NEW s \in Steps
      PROVE  /\ step'[s] = "CANCELLED" => RunEnded(run'.status)
             /\ step'[s] = "SKIPPED" => Omitted(s)' \/ run'.status \in {"SUCCEEDED", "FAILED"}
  <2>1. CASE step'[s] = step[s]
    BY <1>1, <2>1, OmittedForGood DEF Forward, RowsOK, RunEnded
  <2>2. CASE run'.status = "CANCELLED" /\ step' = [t \in Steps |-> "CANCELLED"]
    BY <2>2 DEF RunEnded
  <2>3. ASSUME NEW p \in Reconcilers, NEW t \in Steps, NEW status, rec[p] # Idle,
               SyncStep(p, t) \/ CloseStep(p, t), step'[s] # step[s],
               Moved(p, t, status, IF rec[p].pc = "steps" THEN StepTarget(rec[p], t)
                                                          ELSE Closing(rec[p], t))
        PROVE  /\ step'[s] = "CANCELLED" => RunEnded(run'.status)
               /\ step'[s] = "SKIPPED" => Omitted(s)' \/ run'.status \in {"SUCCEEDED", "FAILED"}
    <3>1. t = s /\ step'[s] = status
      BY <2>3 DEF Moved, IInv, TypeOK
    <3>2. QED
      BY <1>1, <2>3, <3>1, WhyMoved, OmittedForGood
  <2>4. QED
    BY <2>1, <2>2, <2>3, StepChanges
<1>5. QED
  BY <1>2, <1>3, <1>4 DEF RowsOK

LEMMA OutcomesStep == IInv /\ [Next]_vars => OutcomesAreReal'
<1> SUFFICES ASSUME IInv, [Next]_vars PROVE OutcomesAreReal'
  OBVIOUS
<1>1. Forward /\ OutcomesAreReal /\ TypeOK
  BY ForwardStep DEF IInv
<1>2. StepSuccessIsReal' /\ PublishedWithStep'
  <2>1. CASE UNCHANGED <<step, published>>
    BY <1>1, <2>1 DEF OutcomesAreReal, StepSuccessIsReal, PublishedWithStep, Forward
  <2>2. CASE step = Blank /\ step' = [t \in Steps |-> "CANCELLED"] /\ UNCHANGED published
    <3>1. \A s \in Steps : step[s] # "SUCCEEDED" /\ step'[s] # "SUCCEEDED"
      BY <2>2 DEF Blank
    <3>2. Publishing \subseteq Steps
      BY PipelineAssumption
    <3>3. QED
      BY <1>1, <2>2, <3>1, <3>2 DEF OutcomesAreReal, StepSuccessIsReal, PublishedWithStep
  <2>3. ASSUME NEW p \in Reconcilers, NEW s \in Steps, NEW status, rec[p] # Idle,
               SyncStep(p, s) \/ CloseStep(p, s),
               Moved(p, s, status, IF rec[p].pc = "steps" THEN StepTarget(rec[p], s)
                                                          ELSE Closing(rec[p], s))
        PROVE  StepSuccessIsReal' /\ PublishedWithStep'
    <3>1. /\ step' = [step EXCEPT ![s] = status] /\ step[s] # "SUCCEEDED"
          /\ published' = published \cup StepResult(s, status)
      BY <2>3, StepEdgesSpelled DEF Moved, StepEnded
    <3>2. \A t \in Steps : step'[t] = IF t = s THEN status ELSE step[t]
      BY <1>1, <3>1 DEF TypeOK
    <3>3. status = "SUCCEEDED" => s \in done'
      BY <1>1, <2>3, WhyMoved DEF Forward
    <3>4. StepSuccessIsReal'
      BY <1>1, <3>2, <3>3 DEF OutcomesAreReal, StepSuccessIsReal, Forward
    <3>5. Publishing \subseteq Steps
      BY PipelineAssumption
    <3>6. PublishedWithStep'
      BY <1>1, <3>1, <3>2, <3>5 DEF OutcomesAreReal, PublishedWithStep, StepResult
    <3>7. QED
      BY <3>4, <3>6
  <2>4. QED
    BY <2>1, <2>2, <2>3, StepChanges
<1>3. SuccessIsComplete'
  <2> SUFFICES ASSUME run'.status = "SUCCEEDED", NEW s \in Steps PROVE step'[s] = "SUCCEEDED"
    BY DEF SuccessIsComplete
  <2>1. CASE step[s] = "SUCCEEDED"
    BY <1>1, <2>1 DEF Forward, StepEnded
  <2>2. CASE run.status = "SUCCEEDED"
    BY <1>1, <2>1, <2>2 DEF OutcomesAreReal, SuccessIsComplete
  <2>3. ASSUME NEW p \in Reconcilers, Write(p) PROVE step[s] = "SUCCEEDED"
    <3>1. rec[p] # Idle
      BY <2>3, NotIdle DEF Write
    <3>2. rec[p].pc = "write" /\ RunTarget(rec[p]) = "SUCCEEDED" /\ ~ RunEnded(run.status)
      BY <2>3, RunEdgesSpelled DEF Write
    <3>3. rec[p].goal = "SUCCEEDED"
      BY <3>2 DEF RunTarget
    <3>4. QED
      BY <3>1, <3>2, <3>3 DEF IInv, PassOK, StepsRemembered
  <2>4. CASE CancelWrite
    BY <2>2, <2>4 DEF CancelWrite
  <2>5. UNCHANGED run \/ CancelWrite \/ \E p \in Reconcilers : Write(p)
    BY RunChanges
  <2>6. QED
    BY <2>1, <2>2, <2>3, <2>4, <2>5
<1>4. QED
  BY <1>2, <1>3 DEF OutcomesAreReal

LEMMA ClosersStep == IInv /\ [Next]_vars => SomebodyCloses'
<1> SUFFICES ASSUME IInv, [Next]_vars, RunEnded(run'.status), ~ interrupted'
             PROVE  \/ \A s \in Steps : StepEnded(step'[s])
                    \/ \E p \in Reconcilers : rec'[p].pc \in {"closing", "close"}
  BY DEF SomebodyCloses
<1>1. Forward /\ TypeOK /\ SomebodyCloses
  BY ForwardStep DEF IInv
<1>2. ~ interrupted
  BY DEF Next, vars, history, CancelStep, CancelRead, CancelWrite, CancelGiveUp, WorkflowStep,
         WorkflowBegin, WorkflowEnd, WorkflowKilled, WorkflowVanish, NodeStart, NodeEnd, NodeSkip,
         ReconcilerStep, Load, Submit, PassCancel, Observe, Stop, ListSteps, Judge, Write,
         ListOpen, Finished, SyncStep, CloseStep, Abandon
<1>3. CASE \A s \in Steps : StepEnded(step[s])
  BY <1>1, <1>3 DEF Forward
<1>4. ASSUME NEW p \in Reconcilers, rec[p].pc \in {"closing", "close"},
             ~ \A s \in Steps : StepEnded(step[s])
      PROVE  rec'[p].pc \in {"closing", "close"}
  <2>1. CASE rec'[p] = rec[p]
    BY <1>4, <2>1
  <2>2. CASE ReconcilerStep(p)
    <3>1. ~ Finished(p)
      <4>1. PassOK(p)
        BY <1>4, NotIdle DEF IInv
      <4>2. QED
        BY <1>4, <4>1 DEF Finished, PassOK, StepsRemembered
    <3>2. QED
      BY <1>1, <1>4, <2>2, <3>1, OnePass
  <2>3. ASSUME NEW q \in Reconcilers, ReconcilerStep(q), q # p PROVE rec'[p] = rec[p]
    BY <1>1, <2>3, OnePass DEF TypeOK
  <2>4. CASE ~ \E q \in Reconcilers : ReconcilerStep(q)
    BY <2>1, <2>4 DEF Next, vars, CancelStep, CancelRead, CancelWrite, CancelGiveUp, WorkflowStep,
           WorkflowBegin, WorkflowEnd, WorkflowKilled, WorkflowVanish, NodeStart, NodeEnd, NodeSkip
  <2>5. QED
    BY <2>1, <2>2, <2>3, <2>4
<1>5. CASE ~ RunEnded(run.status)
  <2>1. CASE CancelWrite
    <3>1. step' = [s \in Steps |-> "CANCELLED"]
      BY <1>5, <2>1 DEF CancelWrite, CancelledSteps
    <3>2. QED
      BY <3>1 DEF StepEnded
  <2>2. ASSUME NEW p \in Reconcilers, Write(p) PROVE rec'[p].pc = "closing"
    <3>1. rec[p] \in Pass
      BY <1>1, <2>2, NotIdle, PassTyped DEF Write
    <3>2. rec' = [rec EXCEPT ![p] = AfterWrite(rec[p], run')]
      BY <2>2 DEF Write
    <3>3. QED
      BY <1>1, <3>1, <3>2 DEF TypeOK, AfterWrite, Pass
  <2>3. UNCHANGED run \/ CancelWrite \/ \E p \in Reconcilers : Write(p)
    BY RunChanges
  <2>4. QED
    BY <1>5, <2>1, <2>2, <2>3
<1>6. QED
  BY <1>1, <1>2, <1>3, <1>4, <1>5 DEF SomebodyCloses

LEMMA InitIInv == Init => IInv
<1> SUFFICES ASSUME Init PROVE IInv
  OBVIOUS
<1>1. TypeOK
  BY DEF Init, TypeOK, RunRow, RunStatus, Blank, StepStatus, Phase, NodePhase, NoNodes
<1>2. \A p \in Reconcilers : rec[p] = Idle
  BY DEF Init
<1>3. RowsOK /\ WorkflowOK /\ SomebodyCloses
  BY DEF Init, RowsOK, WorkflowOK, SomebodyCloses, Blank, NoNodes, RunEnded
<1>4. OutcomesAreReal
  BY PipelineAssumption
     DEF Init, OutcomesAreReal, SuccessIsComplete, PublishedWithStep, StepSuccessIsReal, Blank
<1>5. QED
  BY <1>1, <1>2, <1>3, <1>4 DEF IInv

LEMMA StepIInv == IInv /\ [Next]_vars => IInv'
BY TypeStep, RowsStep, WorkflowStepOK, PassesStep, ClosersStep, OutcomesStep DEF IInv, Idle

-----------------------------------------------------------------------------
(* Every reachable state of a pipeline run is well typed.                    *)
THEOREM TypeCorrect == Spec => []TypeOK
<1>1. Init => TypeOK
  BY InitIInv DEF IInv
<1>2. QED
  BY <1>1, TypeStep, PTL DEF Spec

(* IInv is an inductive invariant, whatever passes overlap.                  *)
THEOREM Inductive == Spec => []IInv
BY InitIInv, StepIInv, PTL DEF Spec

(* However many reconcilers overlap and whenever a pass is lost or the        *)
(* workflow disappears: a SUCCEEDED run has all its steps, a SUCCEEDED step a  *)
(* container that ended well and, if it publishes, its result.              *)
THEOREM Outcomes == Spec => []OutcomesAreReal
<1>1. IInv => OutcomesAreReal
  BY DEF IInv
<1>2. QED
  BY <1>1, Inductive, PTL

(* Each step left when its run ends is closed, unless a pass was interrupted, *)
(* and a cancelled run skips nothing its workflow had not omitted already.    *)
THEOREM Closed == Spec => []StepsAreClosed
<1>1. IInv => StepsAreClosed
  <2> SUFFICES ASSUME IInv PROVE StepsAreClosed
    OBVIOUS
  <2>1. ClosedUnlessInterrupted
    BY DEF IInv, SomebodyCloses, ClosedUnlessInterrupted, Idle
  <2>2. \A s \in Steps : NeverDone(s) => step[s] # "SUCCEEDED"
    BY DEF IInv, OutcomesAreReal, StepSuccessIsReal, NeverDone
  <2>3. \A s \in Steps : Needs[s] \subseteq Steps
    BY PipelineAssumption
  <2>4. CancelledNotSkipped
    BY <2>2, <2>3 DEF IInv, RowsOK, CancelledNotSkipped, Omitted
  <2>5. QED
    BY <2>1, <2>4 DEF StepsAreClosed
<1>2. QED
  BY <1>1, Inductive, PTL

(* A recorded step outcome is final and a step moves along the declared edges *)
(* only, whichever pass comes later with an older picture.                  *)
THEOREM Forwards == Spec => StepsMoveForward
<1>1. IInv /\ [Next]_vars =>
        [\A s \in Steps : step'[s] # step[s] => <<step[s], step'[s]>> \in StepEdges]_vars
  BY StepsMove
<1>2. QED
  BY <1>1, Inductive, PTL DEF Spec, StepsMoveForward

-----------------------------------------------------------------------------
(* Sign-in (SignIn.tla): a session never outlives the claims it was given for.         *)
LifetimesAreNatural ==
  /\ Configured \in Nat /\ SessionCap \in Nat /\ AdminCap \in Nat /\ CallLimit \in Nat /\ MaxTime \in Nat
  /\ Personal \in [Users -> DOMAIN Browser!Ranks]

(* A session that makes a claim ends in time, counted from when the claim was true.   *)
SessionOK(s) ==
  /\ s.user \in Users /\ s.exp \in Nat /\ s.chief \in BOOLEAN /\ s.group \in BOOLEAN
  /\ s.chief => left[s.user]["chief"] + s.exp <= time + Browser!Ttl(TRUE) + CallLimit
  /\ ~s.chief /\ s.group => left[s.user]["group"] + s.exp <= time + Browser!Ttl(FALSE) + CallLimit

(* The provider said so when it redeemed the code, a call ago at most.                *)
RedeemedOK(x) ==
  /\ x.by \in Users /\ x.since \in Nat /\ x.chief \in BOOLEAN /\ x.group \in BOOLEAN
  /\ x.since <= time /\ time <= x.since + CallLimit
  /\ x.chief => left[x.by]["chief"] + x.since <= time
  /\ x.group => left[x.by]["group"] + x.since <= time

ToldOK(x) ==
  /\ x.by = "chief" => x.stale <= Browser!Ttl(TRUE) + CallLimit
  /\ x.by = "group" => x.stale <= Browser!Ttl(FALSE) + CallLimit
  /\ x.rule = "platform-admin" => x.by \in {"chief", "denied"}

TabOK(x) ==
  /\ x.pc \in {"back", "failed", "redeemed", "answered"} => x.by \in Users
  /\ x.pc = "redeemed" => RedeemedOK(x)
  /\ x.pc \in {"answered", "asking"} => SessionOK(x.session)
  /\ x.pc = "told" => ToldOK(x)

BrowserInv ==
  /\ time \in Nat /\ account \in Users
  /\ left \in [Users -> [{"chief", "group"} -> Nat]]
  /\ \A u \in Users : (u \in chief => left[u]["chief"] = 0) /\ (u \in group => left[u]["group"] = 0)
  /\ session # Browser!Nobody => SessionOK(session)
  /\ DOMAIN tab = Tabs
  /\ \A t \in Tabs : TabOK(tab[t])

LEMMA LeastOfTwo ==
  ASSUME NEW m \in Nat, NEW n \in Nat
  PROVE  Browser!Least({m, n}) \in Nat /\ Browser!Least({m, n}) <= m /\ Browser!Least({m, n}) <= n
<1>1. \E x \in {m, n} : \A y \in {m, n} : x <= y
  <2>1. CASE m <= n
    BY <2>1
  <2>2. CASE n <= m
    BY <2>2
  <2> QED
    BY <2>1, <2>2
<1>2. Browser!Least({m, n}) \in {m, n} /\ \A y \in {m, n} : Browser!Least({m, n}) <= y
  BY <1>1 DEF Browser!Least
<1> QED
  BY <1>2

LEMMA Lifetimes ==
  ASSUME LifetimesAreNatural
  PROVE  /\ Browser!Ttl(TRUE) = Browser!Least({AdminCap, Configured})
         /\ Browser!Ttl(FALSE) = Browser!Least({SessionCap, Configured})
         /\ \A c \in BOOLEAN : Browser!Ttl(c) \in Nat
<1>1. Browser!Ttl(TRUE) = Browser!Least({Configured, AdminCap}) /\ Browser!Ttl(FALSE) = Browser!Least({Configured, SessionCap})
  BY DEF Browser!Ttl
<1>2. {Configured, AdminCap} = {AdminCap, Configured} /\ {Configured, SessionCap} = {SessionCap, Configured}
  OBVIOUS
<1>3. Browser!Least({AdminCap, Configured}) \in Nat /\ Browser!Least({SessionCap, Configured}) \in Nat
  BY LeastOfTwo DEF LifetimesAreNatural
<1> QED
  BY <1>1, <1>2, <1>3

(* Sessions and answers are judged by the clock and by what the provider knows.        *)
LEMMA SameHour ==
  ASSUME UNCHANGED <<time, left>>, NEW x
  PROVE  /\ SessionOK(x)' <=> SessionOK(x)
         /\ TabOK(x)' <=> TabOK(x)
BY DEF SessionOK, TabOK, RedeemedOK, ToldOK

LEMMA InitBrowser == LifetimesAreNatural /\ Browser!Init => BrowserInv
<1> SUFFICES ASSUME LifetimesAreNatural, Browser!Init PROVE BrowserInv
  OBVIOUS
<1>1. left \in [Users -> [{"chief", "group"} -> Nat]]
  BY DEF Browser!Init, LifetimesAreNatural, Browser!Claims
<1>2. \A u \in Users : (u \in chief => left[u]["chief"] = 0) /\ (u \in group => left[u]["group"] = 0)
  BY DEF Browser!Init, Browser!Claims
<1>3. \A t \in Tabs : tab[t].pc = "idle"
  BY DEF Browser!Init, Browser!Idle
<1>4. \A t \in Tabs : TabOK(tab[t])
  BY <1>3 DEF TabOK
<1> QED
  BY <1>1, <1>2, <1>4 DEF Browser!Init, BrowserInv

(* One tab moves, and the cookie of the browser may be replaced.                       *)
LEMMA OneTab ==
  ASSUME BrowserInv, NEW t \in Tabs, NEW x, Browser!Go(t, x), TabOK(x),
         UNCHANGED <<time, account, left, chief, group>>,
         NEW z, session' = z, z # Browser!Nobody => SessionOK(z)
  PROVE  BrowserInv'
<1>1. /\ time' \in Nat
      /\ account' \in Users
      /\ left' \in [Users -> [{"chief", "group"} -> Nat]]
      /\ \A u \in Users : (u \in chief' => left'[u]["chief"] = 0) /\ (u \in group' => left'[u]["group"] = 0)
  BY DEF BrowserInv
<1>2. session' # Browser!Nobody => SessionOK(z)'
  BY SameHour
<1>3. (session # Browser!Nobody => SessionOK(session))'
  BY <1>2 DEF SessionOK, Browser!Nobody
<1>4. DOMAIN tab' = Tabs
  BY DEF BrowserInv, Browser!Go
<1>5. ASSUME NEW u \in Tabs PROVE TabOK(tab[u])'
  <2>1. PICK y : y = tab'[u]
    OBVIOUS
  <2>2. TabOK(y)
    BY <2>1 DEF BrowserInv, Browser!Go
  <2>3. TabOK(y)'
    BY <2>2, SameHour
  <2> QED
    BY <2>1, <2>3 DEF TabOK, RedeemedOK, ToldOK, SessionOK
<1> QED
  BY <1>1, <1>3, <1>4, <1>5 DEF BrowserInv

(* A tab that says what it said of its user.                                           *)
LEMMA PlainTab ==
  ASSUME NEW x, x.pc \in {"idle", "away"} \/ (x.pc \in {"back", "failed"} /\ x.by \in Users)
  PROVE  TabOK(x)
BY DEF TabOK

LEMMA IdleTab == TabOK(Browser!Idle)
<1>1. PICK x : x = Browser!Idle
  OBVIOUS
<1>2. x.pc = "idle"
  BY <1>1 DEF Browser!Idle
<1> QED
  BY <1>1, <1>2, PlainTab

LEMMA StartStep ==
  ASSUME BrowserInv, NEW t \in Tabs, Browser!Start(t)
  PROVE  BrowserInv'
<1>1. PICK x : x = [pc |-> "away", id |-> starts']
  OBVIOUS
<1>2. Browser!Go(t, x) /\ UNCHANGED <<time, account, left, chief, group, session>>
  BY <1>1 DEF Browser!Start, Browser!people
<1>3. x.pc = "away"
  BY <1>1
<1>4. TabOK(x)
  BY <1>3, PlainTab
<1> QED
  BY <1>2, <1>4, OneTab DEF BrowserInv

LEMMA ComeBackStep ==
  ASSUME BrowserInv, NEW t \in Tabs, Browser!ComeBack(t)
  PROVE  BrowserInv'
<1>1. PICK x : x = [pc |-> "back", id |-> tab[t].id, by |-> account, login |-> login]
  OBVIOUS
<1>2. Browser!Go(t, x) /\ UNCHANGED <<time, account, left, chief, group, session>>
  BY <1>1 DEF Browser!ComeBack, Browser!people, Browser!cookies
<1>3. x.pc = "back" /\ x.by \in Users
  BY <1>1 DEF BrowserInv
<1>4. TabOK(x)
  BY <1>3, PlainTab
<1> QED
  BY <1>2, <1>4, OneTab DEF BrowserInv

LEMMA CallbackStep ==
  ASSUME LifetimesAreNatural, BrowserInv, NEW t \in Tabs, Browser!Callback(t)
  PROVE  BrowserInv'
<1>1. UNCHANGED <<time, account, left, chief, group, session>> /\ tab[t].by \in Users /\ time \in Nat
  BY DEF Browser!Callback, Browser!people, Browser!cookies, BrowserInv, TabOK
<1>2. CASE Browser!Go(t, [pc |-> "failed", id |-> tab[t].id, by |-> tab[t].by])
  <2>1. PICK x : x = [pc |-> "failed", id |-> tab[t].id, by |-> tab[t].by]
    OBVIOUS
  <2>2. TabOK(x)
    BY <1>1, <2>1, PlainTab
  <2> QED
    BY <1>1, <1>2, <2>1, <2>2, OneTab DEF BrowserInv
<1>3. CASE Browser!Go(t, [pc |-> "redeemed", id |-> tab[t].id, by |-> tab[t].by, since |-> time,
                          chief |-> tab[t].by \in chief, group |-> tab[t].by \in group])
  <2>1. PICK x : x = [pc |-> "redeemed", id |-> tab[t].id, by |-> tab[t].by, since |-> time,
                      chief |-> tab[t].by \in chief, group |-> tab[t].by \in group]
    OBVIOUS
  <2>2. /\ x.pc = "redeemed" /\ x.by = tab[t].by /\ x.since = time
        /\ x.chief = (tab[t].by \in chief) /\ x.group = (tab[t].by \in group)
    BY <2>1
  <2>3. x.chief \in BOOLEAN /\ x.group \in BOOLEAN
    BY <2>2
  <2>4. (x.chief => left[x.by]["chief"] = 0) /\ (x.group => left[x.by]["group"] = 0)
    BY <1>1, <2>2 DEF BrowserInv
  <2>5. RedeemedOK(x)
    BY <1>1, <2>2, <2>3, <2>4 DEF RedeemedOK, LifetimesAreNatural
  <2>6. TabOK(x)
    BY <1>1, <2>2, <2>5 DEF TabOK
  <2> QED
    BY <1>1, <1>3, <2>1, <2>6, OneTab DEF BrowserInv
<1> QED
  BY <1>2, <1>3 DEF Browser!Callback

LEMMA IssueStep ==
  ASSUME LifetimesAreNatural, BrowserInv, NEW t \in Tabs, Browser!Issue(t)
  PROVE  BrowserInv'
<1>1. UNCHANGED <<time, account, left, chief, group, session>> /\ time \in Nat /\ CallLimit \in Nat
  BY DEF Browser!Issue, Browser!people, Browser!cookies, BrowserInv, LifetimesAreNatural
<1>2. PICK o : o = tab[t]
  OBVIOUS
<1>3. RedeemedOK(o)
  BY <1>2 DEF Browser!Issue, BrowserInv, TabOK
<1>4. PICK l : l = Browser!Ttl(o.chief)
  OBVIOUS
<1>5. l \in Nat /\ (o.chief => l = Browser!Ttl(TRUE)) /\ (~o.chief => l = Browser!Ttl(FALSE))
  <2>1. o.chief \in BOOLEAN
    BY <1>3 DEF RedeemedOK
  <2> QED
    BY <1>4, <2>1, Lifetimes
<1>6. PICK s : s = [user |-> o.by, exp |-> time + l, chief |-> o.chief, group |-> o.group]
  OBVIOUS
<1>7. s.user = o.by /\ s.exp = time + l /\ s.chief = o.chief /\ s.group = o.group
  BY <1>6
<1>8. left[o.by]["chief"] \in Nat /\ left[o.by]["group"] \in Nat
  BY <1>3 DEF BrowserInv, RedeemedOK
<1>9. SessionOK(s)
  <2>1. s.user \in Users /\ s.exp \in Nat /\ s.chief \in BOOLEAN /\ s.group \in BOOLEAN
    BY <1>1, <1>3, <1>5, <1>7 DEF RedeemedOK
  <2>2. ASSUME s.chief PROVE left[s.user]["chief"] + s.exp <= time + Browser!Ttl(TRUE) + CallLimit
    <3>1. PICK n : n = left[o.by]["chief"]
      OBVIOUS
    <3>2. n \in Nat /\ n + o.since <= time /\ time <= o.since + CallLimit /\ o.since \in Nat
      BY <1>3, <1>7, <1>8, <2>2, <3>1 DEF RedeemedOK
    <3>3. n + (time + l) <= time + l + CallLimit
      BY <1>1, <1>5, <3>2
    <3> QED
      BY <1>3, <1>5, <1>7, <2>2, <3>1, <3>3 DEF RedeemedOK
  <2>3. ASSUME ~s.chief /\ s.group PROVE left[s.user]["group"] + s.exp <= time + Browser!Ttl(FALSE) + CallLimit
    <3>1. PICK n : n = left[o.by]["group"]
      OBVIOUS
    <3>2. n \in Nat /\ n + o.since <= time /\ time <= o.since + CallLimit /\ o.since \in Nat
      BY <1>3, <1>7, <1>8, <2>3, <3>1 DEF RedeemedOK
    <3>3. n + (time + l) <= time + l + CallLimit
      BY <1>1, <1>5, <3>2
    <3> QED
      BY <1>3, <1>5, <1>7, <2>3, <3>1, <3>3 DEF RedeemedOK
  <2> QED
    BY <2>1, <2>2, <2>3 DEF SessionOK
<1>10. PICK x : x = [pc |-> "answered", id |-> o.id, by |-> o.by, session |-> s]
  OBVIOUS
<1>11. x.pc = "answered" /\ x.by = o.by /\ x.session = s
  BY <1>10
<1>12. TabOK(x)
  BY <1>3, <1>9, <1>11 DEF TabOK, RedeemedOK
<1>13. Browser!Go(t, x)
  BY <1>2, <1>4, <1>6, <1>10 DEF Browser!Issue
<1> QED
  BY <1>1, <1>12, <1>13, OneTab DEF BrowserInv

LEMMA ArriveStep ==
  ASSUME BrowserInv, NEW t \in Tabs, Browser!Arrive(t)
  PROVE  BrowserInv'
<1>1. UNCHANGED <<time, account, left, chief, group>> /\ tab[t].by \in Users /\ SessionOK(tab[t].session)
  BY DEF Browser!Arrive, Browser!people, BrowserInv, TabOK
<1>2. CASE session' = tab[t].session /\ Browser!Go(t, Browser!Idle)
  <2>1. TabOK(Browser!Idle)
    BY IdleTab
  <2>2. PICK z : z = tab[t].session
    OBVIOUS
  <2>3. SessionOK(z)
    BY <1>1, <2>2
  <2> QED
    BY <1>1, <1>2, <2>1, <2>2, <2>3, OneTab
<1>3. CASE Browser!Go(t, [pc |-> "failed", id |-> tab[t].id, by |-> tab[t].by]) /\ UNCHANGED session
  <2>1. PICK x : x = [pc |-> "failed", id |-> tab[t].id, by |-> tab[t].by]
    OBVIOUS
  <2>2. TabOK(x)
    BY <1>1, <2>1, PlainTab
  <2> QED
    BY <1>1, <1>3, <2>1, <2>2, OneTab DEF BrowserInv
<1> QED
  BY <1>2, <1>3 DEF Browser!Arrive, Browser!cookies

LEMMA ReloadStep ==
  ASSUME BrowserInv, NEW t \in Tabs, Browser!Reload(t)
  PROVE  BrowserInv'
<1>1. UNCHANGED <<time, account, left, chief, group, session>> /\ tab[t].by \in Users
  BY DEF Browser!Reload, Browser!people, Browser!cookies, BrowserInv, TabOK
<1>2. PICK x : x \in {Browser!Idle, [pc |-> "back", id |-> tab[t].id, by |-> tab[t].by, login |-> login]} /\ Browser!Go(t, x)
  BY DEF Browser!Reload
<1>3. x = Browser!Idle \/ (x.pc = "back" /\ x.by = tab[t].by)
  BY <1>2
<1>4. TabOK(x)
  BY <1>1, <1>3, IdleTab, PlainTab
<1> QED
  BY <1>1, <1>2, <1>4, OneTab DEF BrowserInv

LEMMA AskStep ==
  ASSUME BrowserInv, NEW t \in Tabs, Browser!Ask(t)
  PROVE  BrowserInv'
<1>1. UNCHANGED <<time, account, left, chief, group, session>> /\ SessionOK(session)
  BY DEF Browser!Ask, Browser!people, Browser!cookies, BrowserInv
<1>2. PICK rule \in Rules : Browser!Go(t, [pc |-> "asking", rule |-> rule, session |-> session])
  BY DEF Browser!Ask
<1>3. PICK s : s = session
  OBVIOUS
<1>4. PICK x : x = [pc |-> "asking", rule |-> rule, session |-> s]
  OBVIOUS
<1>5. x.pc = "asking" /\ x.session = s /\ SessionOK(s)
  BY <1>1, <1>3, <1>4
<1>6. TabOK(x)
  BY <1>5 DEF TabOK
<1> QED
  BY <1>1, <1>2, <1>3, <1>4, <1>6, OneTab DEF BrowserInv

LEMMA ReadStep ==
  ASSUME BrowserInv, NEW t \in Tabs, Browser!Read(t)
  PROVE  BrowserInv'
<1>1. UNCHANGED <<time, account, left, chief, group, session>> /\ Browser!Go(t, Browser!Idle)
  BY DEF Browser!Read, Browser!people, Browser!cookies
<1>2. TabOK(Browser!Idle)
  BY IdleTab
<1> QED
  BY <1>1, <1>2, OneTab DEF BrowserInv

LEMMA LogoutStep ==
  ASSUME BrowserInv, NEW t \in Tabs, Browser!Logout(t)
  PROVE  BrowserInv'
<1>1. UNCHANGED <<time, account, left, chief, group, tab>> /\ session' = Browser!Nobody
  BY DEF Browser!Logout, Browser!people
<1>2. \A u \in Tabs : TabOK(tab[u])'
  BY <1>1 DEF BrowserInv, TabOK, RedeemedOK, ToldOK, SessionOK
<1> QED
  BY <1>1, <1>2 DEF BrowserInv, Browser!Nobody

(* A request passes as a platform admin, or by the group, by a session that says so    *)
(* and has not expired; only the former may do what is the platform admin's.           *)
LEMMA VerdictSays ==
  ASSUME LifetimesAreNatural, NEW s, SessionOK(s), NEW rule
  PROVE  LET by == Browser!Verdict(s, rule) IN
           /\ by = "chief" => s.chief /\ time <= s.exp
           /\ by = "group" => ~s.chief /\ s.group /\ time <= s.exp
           /\ rule = "platform-admin" => by \in {"chief", "denied"}
<1> DEFINE by == Browser!Verdict(s, rule)
<1>1. s.user \in Users /\ s.exp \in Nat /\ s.chief \in BOOLEAN /\ s.group \in BOOLEAN
  BY DEF SessionOK
<1>2. CASE ~Browser!Loads(s)
  <2>1. by = "denied"
    BY <1>2 DEF Browser!Verdict
  <2> QED
    BY <2>1
<1>3. CASE Browser!Loads(s) /\ rule = "signed-in"
  <2>1. by = "signed-in"
    BY <1>3 DEF Browser!Verdict
  <2> QED
    BY <1>3, <2>1
<1>4. CASE Browser!Loads(s) /\ rule # "signed-in" /\ s.chief
  <2>1. by = "chief"
    BY <1>4 DEF Browser!Verdict
  <2>2. time <= s.exp
    BY <1>1, <1>4 DEF Browser!Loads
  <2> QED
    BY <1>4, <2>1, <2>2
<1>5. CASE Browser!Loads(s) /\ rule # "signed-in" /\ ~s.chief /\ rule = "platform-admin"
  <2>1. by = "denied"
    BY <1>5 DEF Browser!Verdict
  <2> QED
    BY <2>1
<1>6. CASE Browser!Loads(s) /\ rule # "signed-in" /\ ~s.chief /\ rule # "platform-admin"
  <2>1. by = IF ~Browser!Includes(Browser!RoleIn(s), rule) THEN "denied"
             ELSE IF Browser!Ranks[Personal[s.user]] >= Browser!Ranks[rule] THEN "personal" ELSE "group"
    BY <1>6 DEF Browser!Verdict
  <2>2. by = "group" => s.group
    <3> SUFFICES ASSUME by = "group", ~s.group PROVE FALSE
      BY <1>1
    <3>1. Browser!Includes(Browser!RoleIn(s), rule) /\ ~(Browser!Ranks[Personal[s.user]] >= Browser!Ranks[rule])
      BY <2>1
    <3>2. Browser!RoleIn(s) = Browser!Best(Personal[s.user], "none")
      BY <1>1 DEF Browser!RoleIn, Browser!None
    <3>3. PICK p : p = Browser!Ranks[Personal[s.user]]
      OBVIOUS
    <3>4. p \in Nat /\ p >= 0 /\ Browser!Ranks["none"] = 0
      BY <1>1, <3>3 DEF LifetimesAreNatural, Browser!Ranks
    <3>5. Browser!RoleIn(s) = Personal[s.user]
      BY <3>2, <3>3, <3>4 DEF Browser!Best
    <3> QED
      BY <3>1, <3>5 DEF Browser!Includes
  <2>3. time <= s.exp
    BY <1>1, <1>6 DEF Browser!Loads
  <2> QED
    BY <1>6, <2>1, <2>2, <2>3
<1> QED
  BY <1>1, <1>2, <1>3, <1>4, <1>5, <1>6

LEMMA DecideStep ==
  ASSUME LifetimesAreNatural, BrowserInv, NEW t \in Tabs, Browser!Decide(t)
  PROVE  BrowserInv'
<1>1. UNCHANGED <<time, account, left, chief, group, session>> /\ SessionOK(tab[t].session) /\ time \in Nat /\ CallLimit \in Nat
  BY DEF Browser!Decide, Browser!people, Browser!cookies, BrowserInv, TabOK, LifetimesAreNatural
<1>2. PICK s : s = tab[t].session
  OBVIOUS
<1>3. PICK rule : rule = tab[t].rule
  OBVIOUS
<1>4. PICK by : by = Browser!Verdict(s, rule)
  OBVIOUS
<1>5. PICK stale : stale = IF by \in Browser!Claims THEN left[s.user][by] ELSE 0
  OBVIOUS
<1>6. PICK x : x = [pc |-> "told", rule |-> rule, by |-> by, stale |-> stale]
  OBVIOUS
<1>7. Browser!Go(t, x)
  BY <1>2, <1>3, <1>4, <1>5, <1>6 DEF Browser!Decide
<1>8. x.pc = "told" /\ x.rule = rule /\ x.by = by /\ x.stale = stale
  BY <1>6
<1>9. SessionOK(s)
  BY <1>1, <1>2
<1>10. /\ by = "chief" => s.chief /\ time <= s.exp
       /\ by = "group" => ~s.chief /\ s.group /\ time <= s.exp
       /\ rule = "platform-admin" => by \in {"chief", "denied"}
  BY <1>4, <1>9, VerdictSays
<1>11. ASSUME by = "chief" PROVE stale <= Browser!Ttl(TRUE) + CallLimit
  <2>1. stale = left[s.user]["chief"] /\ stale \in Nat
    BY <1>5, <1>9, <1>11 DEF Browser!Claims, BrowserInv, SessionOK
  <2>2. PICK e, l : e = s.exp /\ l = Browser!Ttl(TRUE)
    OBVIOUS
  <2>3. stale + e <= time + l + CallLimit /\ time <= e /\ e \in Nat /\ l \in Nat
    BY <1>9, <1>10, <1>11, <2>1, <2>2, Lifetimes DEF SessionOK
  <2>4. stale \in Nat
    BY <2>1
  <2>5. stale <= l + CallLimit
    BY <1>1, <2>3, <2>4
  <2> QED
    BY <2>2, <2>5
<1>12. ASSUME by = "group" PROVE stale <= Browser!Ttl(FALSE) + CallLimit
  <2>1. stale = left[s.user]["group"] /\ stale \in Nat
    BY <1>5, <1>9, <1>12 DEF Browser!Claims, BrowserInv, SessionOK
  <2>2. PICK e, l : e = s.exp /\ l = Browser!Ttl(FALSE)
    OBVIOUS
  <2>3. stale + e <= time + l + CallLimit /\ time <= e /\ e \in Nat /\ l \in Nat
    BY <1>9, <1>10, <1>12, <2>1, <2>2, Lifetimes DEF SessionOK
  <2>4. stale \in Nat
    BY <2>1
  <2>5. stale <= l + CallLimit
    BY <1>1, <2>3, <2>4
  <2> QED
    BY <2>2, <2>5
<1>13. TabOK(x)
  BY <1>8, <1>10, <1>11, <1>12 DEF TabOK, ToldOK
<1> QED
  BY <1>1, <1>7, <1>13, OneTab DEF BrowserInv

LEMMA ChangeStep ==
  ASSUME BrowserInv, Browser!Change
  PROVE  BrowserInv'
<1>1. UNCHANGED <<time, left, session, tab>>
  BY DEF Browser!Change, Browser!cookies
<1>2. account' \in Users /\ chief' \subseteq chief /\ group' \subseteq group
  BY DEF Browser!Change, BrowserInv
<1>3. \A u \in Tabs : TabOK(tab[u])'
  BY <1>1 DEF BrowserInv, TabOK, RedeemedOK, ToldOK, SessionOK
<1>4. (session # Browser!Nobody => SessionOK(session))'
  BY <1>1 DEF BrowserInv, SessionOK, Browser!Nobody
<1> QED
  BY <1>1, <1>2, <1>3, <1>4 DEF BrowserInv

(* An hour more makes a claim an hour older at most.                                   *)
LEMMA TickStep ==
  ASSUME LifetimesAreNatural, BrowserInv, Browser!Tick
  PROVE  BrowserInv'
<1>1. UNCHANGED <<account, chief, group, session, tab>> /\ time' = time + 1 /\ time \in Nat /\ CallLimit \in Nat
  BY DEF Browser!Tick, Browser!people, Browser!cookies, BrowserInv, LifetimesAreNatural
<1>2. left' = [u \in Users |-> [c \in {"chief", "group"} |-> IF Browser!Holds(u, c) THEN 0 ELSE left[u][c] + 1]]
  BY DEF Browser!Tick, Browser!Claims
<1>3. left' \in [Users -> [{"chief", "group"} -> Nat]]
  BY <1>2 DEF BrowserInv
<1>4. \A u \in Users : (u \in chief' => left'[u]["chief"] = 0) /\ (u \in group' => left'[u]["group"] = 0)
  BY <1>1, <1>2 DEF Browser!Holds
<1>5. \A u \in Users, c \in {"chief", "group"} : left[u][c] \in Nat /\ left'[u][c] \in Nat /\ left'[u][c] <= left[u][c] + 1
  BY <1>2 DEF BrowserInv
<1>6. ASSUME NEW s, SessionOK(s) PROVE SessionOK(s)'
  <2>1. s.user \in Users /\ s.exp \in Nat /\ s.chief \in BOOLEAN /\ s.group \in BOOLEAN
    BY <1>6 DEF SessionOK
  <2>2. ASSUME NEW c \in {"chief", "group"}, NEW l \in Nat, left[s.user][c] + s.exp <= time + l + CallLimit
        PROVE  left'[s.user][c] + s.exp <= time' + l + CallLimit
    <3>1. PICK m, n : m = left[s.user][c] /\ n = left'[s.user][c]
      OBVIOUS
    <3>2. m \in Nat /\ n \in Nat /\ n <= m + 1
      BY <1>5, <2>1, <3>1
    <3> QED
      BY <1>1, <2>1, <2>2, <3>1, <3>2
  <2>3. Browser!Ttl(TRUE) \in Nat /\ Browser!Ttl(FALSE) \in Nat
    BY Lifetimes
  <2>4. /\ s.chief => left'[s.user]["chief"] + s.exp <= time' + Browser!Ttl(TRUE) + CallLimit
        /\ ~s.chief /\ s.group => left'[s.user]["group"] + s.exp <= time' + Browser!Ttl(FALSE) + CallLimit
    BY <1>6, <2>2, <2>3 DEF SessionOK
  <2> QED
    BY <2>1, <2>4 DEF SessionOK, Browser!Ttl, Browser!Least
<1>7. ASSUME NEW x, RedeemedOK(x), time - x.since < CallLimit PROVE RedeemedOK(x)'
  <2>1. x.by \in Users /\ x.since \in Nat /\ x.since <= time
    BY <1>7 DEF RedeemedOK
  <2>2. ASSUME NEW c \in {"chief", "group"}, left[x.by][c] + x.since <= time PROVE left'[x.by][c] + x.since <= time'
    <3>1. PICK m, n : m = left[x.by][c] /\ n = left'[x.by][c]
      OBVIOUS
    <3>2. m \in Nat /\ n \in Nat /\ n <= m + 1
      BY <1>5, <2>1, <3>1
    <3> QED
      BY <1>1, <2>1, <2>2, <3>1, <3>2
  <2>3. x.since <= time' /\ time' <= x.since + CallLimit
    BY <1>1, <1>7, <2>1
  <2> QED
    BY <1>7, <2>1, <2>2, <2>3 DEF RedeemedOK
<1>8. ASSUME NEW t \in Tabs PROVE TabOK(tab[t])'
  <2>1. PICK x : x = tab[t]
    OBVIOUS
  <2>2. TabOK(x) /\ (x.pc = "redeemed" => time - x.since < CallLimit)
    BY <2>1 DEF BrowserInv, Browser!Tick
  <2>3. x.pc = "redeemed" => RedeemedOK(x)'
    BY <1>7, <2>2 DEF TabOK
  <2>4. PICK s : s = x.session
    OBVIOUS
  <2>5. x.pc \in {"answered", "asking"} => SessionOK(s)'
    BY <1>6, <2>2, <2>4 DEF TabOK
  <2>6. TabOK(x)'
    BY <2>2, <2>3, <2>4, <2>5 DEF TabOK, ToldOK, SessionOK
  <2> QED
    BY <1>1, <2>1, <2>6 DEF TabOK, RedeemedOK, ToldOK, SessionOK
<1>9. (session # Browser!Nobody => SessionOK(session))'
  <2>1. PICK s : s = session
    OBVIOUS
  <2>2. s # Browser!Nobody => SessionOK(s)'
    BY <1>6, <2>1 DEF BrowserInv
  <2> QED
    BY <1>1, <2>1, <2>2 DEF SessionOK, Browser!Nobody
<1> QED
  BY <1>1, <1>3, <1>4, <1>8, <1>9 DEF BrowserInv

LEMMA BrowserStep == LifetimesAreNatural /\ BrowserInv /\ [Browser!Next]_(Browser!vars) => BrowserInv'
<1> SUFFICES ASSUME LifetimesAreNatural, BrowserInv, [Browser!Next]_(Browser!vars) PROVE BrowserInv'
  OBVIOUS
<1>1. ASSUME NEW t \in Tabs, Browser!Move(t) PROVE BrowserInv'
  BY <1>1, StartStep, ComeBackStep, CallbackStep, IssueStep, ArriveStep, ReloadStep, LogoutStep, AskStep, DecideStep, ReadStep
     DEF Browser!Move
<1>2. CASE UNCHANGED Browser!vars
  <2>1. UNCHANGED <<time, account, left, chief, group, session, tab>>
    BY <1>2 DEF Browser!vars, Browser!people, Browser!cookies
  <2>2. \A u \in Tabs : TabOK(tab[u])'
    BY <2>1 DEF BrowserInv, TabOK, RedeemedOK, ToldOK, SessionOK
  <2>3. (session # Browser!Nobody => SessionOK(session))'
    BY <2>1 DEF BrowserInv, SessionOK, Browser!Nobody
  <2> QED
    BY <2>1, <2>2, <2>3 DEF BrowserInv
<1> QED
  BY <1>1, <1>2, ChangeStep, TickStep DEF Browser!Next

LEMMA SessionsStayShort ==
  ASSUME LifetimesAreNatural PROVE Browser!Init /\ [][Browser!Next]_(Browser!vars) => []Browser!SessionsAreShort
<1>1. BrowserInv => Browser!SessionsAreShort
  BY Lifetimes DEF BrowserInv, TabOK, ToldOK, Browser!SessionsAreShort
<1> QED
  BY <1>1, InitBrowser, BrowserStep, PTL

-----------------------------------------------------------------------------
(* API access (EndpointAccess.tla): what a change of access leaves behind.            *)
OneKind == \A k, l \in Kinds : k = l
AccessSettings == "none" \notin Chosen

Row ==
  [status: {"PENDING", "READY", "UNAVAILABLE"}, kind: {"model"} \cup Kinds, exposure: {"internal", "public"},
   limits: {"default"} \cup Chosen \cup {Access!Starts(k) : k \in Kinds}, at: Nat]
Key == [revoked: BOOLEAN, used: Nat]

AdminOK(x) == x.pc = "read" => x.exposure \in {"internal", "public"} /\ x.limits \in Chosen

(* The deployer that holds the lock knows the kind; and, as long as nobody changed the  *)
(* access, the time of the row.                                                       *)
DeployerOK(x) ==
  /\ x.pc \in {"ask", "locked"} => x.kind \in Kinds
  /\ x.pc = "locked" =>
       /\ x.endpoint \in Row
       /\ x.endpoint.kind = endpoint.kind
       /\ accepted.limits = "none" => x.endpoint.at = endpoint.at

LookedOK(x) == x.pc = "loaded" => x.endpoint \in Row /\ x.endpoint.kind \in Kinds /\ endpoint.kind \in Kinds

AccessInv ==
  /\ endpoint \in Row /\ key \in Key /\ uses \in Nat
  /\ DOMAIN admin = Admins /\ DOMAIN deployer = Deployers /\ DOMAIN revoker = Revokers
  /\ deployment \in {"DEPLOYING", "READY"} => endpoint.kind \in Kinds
  /\ \A m \in Admins : AdminOK(admin[m])
  /\ \A d \in Deployers : DeployerOK(deployer[d])
  /\ \A d, e \in Deployers : deployer[d].pc = "locked" /\ deployer[e].pc = "locked" => d = e
  /\ \A k \in Revokers : revoker[k].pc = "read" => revoker[k].key \in Key
  /\ LookedOK(pass)
  /\ Access!AccessIsKept

LEMMA InitAccess == Access!Init => AccessInv
<1> SUFFICES ASSUME Access!Init PROVE AccessInv
  OBVIOUS
<1>1. endpoint \in Row /\ key \in Key /\ uses \in Nat
  BY DEF Access!Init, Row, Key, Access!Default
<1>2. /\ DOMAIN admin = Admins /\ DOMAIN deployer = Deployers /\ DOMAIN revoker = Revokers
      /\ deployment = "PENDING" /\ pass.pc = "idle"
      /\ \A m \in Admins : admin[m].pc = "idle"
      /\ \A d \in Deployers : deployer[d].pc = "idle"
      /\ \A k \in Revokers : revoker[k].pc = "idle"
  BY DEF Access!Init, Access!Idle
<1>3. Access!AccessIsKept
  BY DEF Access!Init, Access!AccessIsKept, Access!Default, Access!Starts
<1> QED
  BY <1>1, <1>2, <1>3 DEF AccessInv, AdminOK, DeployerOK, LookedOK

(* The life cycle of a row whose kind is that of the endpoint leaves the access alone. *)
LEMMA LifecycleSays ==
  ASSUME AccessInv, NEW r \in Row
  PROVE  LET f == Access!Lifecycle(r) IN
           /\ f \in Row /\ f.kind = r.kind /\ f.exposure = endpoint.exposure
           /\ f.limits = endpoint.limits
<1>1. PICK e : e = endpoint
  OBVIOUS
<1>2. e \in Row
  BY <1>1 DEF AccessInv
<1>3. PICK n \in Nat : n = e.at + 1
  BY <1>2 DEF Row
<1>4. PICK f : f = [e EXCEPT !.status = r.status, !.kind = r.kind, !.at = n]
  OBVIOUS
<1>5. Access!Lifecycle(r) = f
  BY <1>1, <1>3, <1>4 DEF Access!Lifecycle
<1>6. f \in Row /\ f.kind = r.kind /\ f.exposure = e.exposure /\ f.limits = e.limits
  BY <1>2, <1>4 DEF Row
<1> QED
  BY <1>1, <1>5, <1>6

(* The reconciler, or a deletion, writes the life cycle while nobody holds the lock.   *)
LEMMA LifecycleStep ==
  ASSUME AccessInv, NEW r \in Row, r.kind = endpoint.kind,
         endpoint' = Access!Lifecycle(r) \/ endpoint' = endpoint, Access!LockFree,
         deployment' \in {"DEPLOYING", "READY"} => endpoint.kind \in Kinds,
         pass' = pass \/ pass'.pc = "idle",
         UNCHANGED <<key, admin, deployer, revoker, accepted, was, uses>>
  PROVE  AccessInv'
<1>1. /\ endpoint' \in Row /\ endpoint'.kind = endpoint.kind /\ endpoint'.exposure = endpoint.exposure
      /\ endpoint'.limits = endpoint.limits
  BY LifecycleSays DEF AccessInv
<1>2. \A d \in Deployers : deployer[d].pc # "locked"
  BY DEF Access!LockFree
<1>3. \A m \in Admins : AdminOK(admin[m])'
  BY DEF AccessInv, AdminOK
<1>4. \A d \in Deployers : DeployerOK(deployer[d])'
  BY <1>2 DEF AccessInv, DeployerOK
<1>5. LookedOK(pass)'
  BY <1>1 DEF AccessInv, LookedOK
<1>6. Access!AccessIsKept'
  BY <1>1 DEF AccessInv, Access!AccessIsKept
<1> QED
  BY <1>1, <1>2, <1>3, <1>4, <1>5, <1>6 DEF AccessInv

LEMMA MarkStep ==
  ASSUME OneKind, AccessInv, Access!Mark
  PROVE  AccessInv'
<1>1. UNCHANGED <<key, admin, deployer, revoker, accepted, was, uses>> /\ pass'.pc = "idle" /\ Access!LockFree
  BY DEF Access!Mark, Access!history, Access!Idle
<1>2. PICK r : r = pass.endpoint
  OBVIOUS
<1>3. r \in Row /\ r.kind \in Kinds /\ endpoint.kind \in Kinds /\ r.kind = endpoint.kind
  BY <1>2 DEF Access!Mark, AccessInv, LookedOK, OneKind
<1>4. PICK up, down : up = [r EXCEPT !.status = "READY"] /\ down = [r EXCEPT !.status = "UNAVAILABLE"]
  OBVIOUS
<1>5. up \in Row /\ up.kind = endpoint.kind /\ down \in Row /\ down.kind = endpoint.kind
  BY <1>3, <1>4 DEF Row
<1>6. endpoint' = endpoint \/ endpoint' = Access!Lifecycle(up) \/ endpoint' = Access!Lifecycle(down)
  BY <1>2, <1>4 DEF Access!Mark
<1> QED
  BY <1>1, <1>3, <1>5, <1>6, LifecycleStep

LEMMA DeleteStep ==
  ASSUME AccessInv, Access!Delete
  PROVE  AccessInv'
<1>1. UNCHANGED <<key, admin, deployer, revoker, pass, accepted, was, uses>> /\ deployment' = "DELETING" /\ Access!LockFree
  BY DEF Access!Delete, Access!history
<1>2. PICK r : r = [endpoint EXCEPT !.status = "UNAVAILABLE"]
  OBVIOUS
<1>3. r \in Row /\ r.kind = endpoint.kind
  BY <1>2 DEF AccessInv, Row
<1>4. endpoint' = Access!Lifecycle(r)
  BY <1>2 DEF Access!Delete
<1> QED
  BY <1>1, <1>3, <1>4, LifecycleStep

LEMMA LoadStep ==
  ASSUME AccessInv, Access!Load
  PROVE  AccessInv'
<1>1. UNCHANGED <<endpoint, key, deployment, admin, deployer, revoker, accepted, was, uses>> /\ deployment \in {"DEPLOYING", "READY"}
  BY DEF Access!Load, Access!rows, Access!history
<1>2. pass'.endpoint = endpoint
  BY DEF Access!Load
<1>3. LookedOK(pass)'
  BY <1>1, <1>2 DEF AccessInv, LookedOK
<1> QED
  BY <1>1, <1>3 DEF AccessInv, AdminOK, DeployerOK, Access!AccessIsKept

LEMMA ReadAccessStep ==
  ASSUME AccessInv, NEW m \in Admins, Access!ReadAccess(m)
  PROVE  AccessInv'
<1>1. UNCHANGED <<endpoint, key, deployment, deployer, revoker, pass, accepted, was, uses>>
  BY DEF Access!ReadAccess, Access!rows, Access!history
<1>2. PICK exposure \in {"internal", "public"}, limits \in Chosen :
        admin' = [admin EXCEPT ![m] = [pc |-> "read", endpoint |-> endpoint, exposure |-> exposure, limits |-> limits]]
  BY DEF Access!ReadAccess
<1>3. DOMAIN admin' = Admins /\ \A n \in Admins : AdminOK(admin[n])'
  BY <1>2 DEF AccessInv, AdminOK
<1> QED
  BY <1>1, <1>3 DEF AccessInv, DeployerOK, LookedOK, Access!AccessIsKept

(* What an admin asked for is what is accepted, and it is what the row says.           *)
LEMMA ExposeStep ==
  ASSUME AccessSettings, AccessInv, NEW m \in Admins, Access!Expose(m)
  PROVE  AccessInv'
<1>1. /\ UNCHANGED <<key, deployment, deployer, revoker, pass, was, uses>>
      /\ admin' = [admin EXCEPT ![m] = [pc |-> "done"]]
  BY DEF Access!Expose
<1>2. PICK w : w = admin[m]
  OBVIOUS
<1>3. w.exposure \in {"internal", "public"} /\ w.limits \in Chosen
  BY <1>2 DEF Access!Expose, AccessInv, AdminOK
<1>4. DOMAIN admin' = Admins /\ \A n \in Admins : AdminOK(admin[n])'
  BY <1>1 DEF AccessInv, AdminOK
<1>5. CASE UNCHANGED <<endpoint, accepted>>
  BY <1>1, <1>4, <1>5 DEF AccessInv, DeployerOK, LookedOK, Access!AccessIsKept
<1>6. CASE /\ endpoint' = [endpoint EXCEPT !.exposure = w.exposure, !.limits = w.limits, !.at = @ + 1]
           /\ accepted' = [exposure |-> w.exposure, limits |-> w.limits]
  <2>1. /\ endpoint' \in Row /\ endpoint'.kind = endpoint.kind
        /\ endpoint'.exposure = w.exposure /\ endpoint'.limits = w.limits
    <3>1. PICK e : e = endpoint
      OBVIOUS
    <3>2. e \in Row
      BY <3>1 DEF AccessInv
    <3>3. PICK n \in Nat : n = e.at + 1
      BY <3>2 DEF Row
    <3>4. endpoint' = [e EXCEPT !.exposure = w.exposure, !.limits = w.limits, !.at = n]
      BY <1>6, <3>1, <3>3
    <3> QED
      BY <1>3, <3>1, <3>2, <3>4 DEF Row
  <2>2. accepted'.exposure = w.exposure /\ accepted'.limits = w.limits /\ w.limits # "none"
    BY <1>3, <1>6 DEF AccessSettings
  <2>3. Access!AccessIsKept'
    BY <1>1, <2>1, <2>2 DEF AccessInv, Access!AccessIsKept
  <2>4. \A d \in Deployers : DeployerOK(deployer[d])'
    BY <1>1, <2>1, <2>2 DEF AccessInv, DeployerOK
  <2>5. LookedOK(pass)'
    BY <1>1, <2>1 DEF AccessInv, LookedOK
  <2> QED
    BY <1>1, <1>4, <2>1, <2>3, <2>4, <2>5 DEF AccessInv
<1> QED
  BY <1>2, <1>5, <1>6 DEF Access!Expose

LEMMA AskToDeployStep ==
  ASSUME AccessInv, NEW d \in Deployers, Access!Ask(d)
  PROVE  AccessInv'
<1>1. UNCHANGED <<endpoint, key, deployment, admin, revoker, pass, accepted, was, uses>>
  BY DEF Access!Ask, Access!rows, Access!history
<1>2. PICK kind, x : kind \in Kinds /\ x.pc \in {"ask", "done"} /\ x.kind = kind /\ deployer' = [deployer EXCEPT ![d] = x]
  BY DEF Access!Ask
<1>3. DOMAIN deployer' = Deployers /\ \A e \in Deployers : DeployerOK(deployer[e])'
  BY <1>1, <1>2 DEF AccessInv, DeployerOK
<1>4. \A e, f \in Deployers : deployer'[e].pc = "locked" /\ deployer'[f].pc = "locked" => e = f
  BY <1>2 DEF AccessInv
<1> QED
  BY <1>1, <1>3, <1>4 DEF AccessInv, AdminOK, LookedOK, Access!AccessIsKept

LEMMA LockStep ==
  ASSUME AccessInv, NEW d \in Deployers, Access!LockDeployment(d)
  PROVE  AccessInv'
<1>1. /\ UNCHANGED <<endpoint, key, deployment, admin, revoker, pass, accepted, was, uses>>
      /\ \A e \in Deployers : deployer[e].pc # "locked"
  BY DEF Access!LockDeployment, Access!rows, Access!history, Access!LockFree
<1>2. PICK x : /\ x.pc = "done" \/ (x.pc = "locked" /\ x.kind = deployer[d].kind /\ x.endpoint = endpoint)
               /\ deployer' = [deployer EXCEPT ![d] = x]
  <2>1. PICK x : x = IF deployment = "DELETING" THEN [pc |-> "done"]
                     ELSE [pc |-> "locked", kind |-> deployer[d].kind, endpoint |-> endpoint]
    OBVIOUS
  <2>2. x.pc = "done" \/ (x.pc = "locked" /\ x.kind = deployer[d].kind /\ x.endpoint = endpoint)
    BY <2>1
  <2>3. deployer' = [deployer EXCEPT ![d] = x]
    BY <2>1 DEF Access!LockDeployment
  <2> QED
    BY <2>2, <2>3
<1>3. deployer[d].kind \in Kinds
  BY DEF Access!LockDeployment, AccessInv, DeployerOK
<1>4. DOMAIN deployer' = Deployers /\ \A e \in Deployers : DeployerOK(deployer[e])'
  BY <1>1, <1>2, <1>3 DEF AccessInv, DeployerOK
<1>5. \A e, f \in Deployers : deployer'[e].pc = "locked" /\ deployer'[f].pc = "locked" => e = f
  BY <1>1, <1>2 DEF AccessInv
<1> QED
  BY <1>1, <1>4, <1>5 DEF AccessInv, AdminOK, LookedOK, Access!AccessIsKept

(* The first revision brings its kind, and its limits where nobody chose any but the   *)
(* defaults: until a change of access is accepted the row is the one that was read.    *)
LEMMA ServedSays ==
  ASSUME OneKind, AccessSettings, AccessInv, NEW w \in Row, NEW kind \in Kinds, w.kind = endpoint.kind,
         accepted.limits = "none" => w.at = endpoint.at
  PROVE  LET f == Access!Served(w, kind) IN
           /\ f \in Row /\ f.kind \in Kinds /\ f.exposure = endpoint.exposure
           /\ IF accepted.limits = "none" THEN f.limits = Access!Starts(f.kind)
              ELSE f.limits \in {accepted.limits} \cup (IF accepted.limits = Access!Default THEN {Access!Starts(f.kind)} ELSE {})
<1>1. CASE w.kind = kind
  BY <1>1 DEF Access!Served, AccessInv, Access!AccessIsKept
<1>2. CASE w.kind # kind
  <2>1. PICK r : r = [w EXCEPT !.kind = kind]
    OBVIOUS
  <2>2. r \in Row /\ r.kind = kind
    BY <2>1 DEF Row
  <2>3. PICK f : f = Access!Lifecycle(r)
    OBVIOUS
  <2>4. f \in Row /\ f.kind = kind /\ f.exposure = endpoint.exposure /\ f.limits = endpoint.limits
    BY <2>2, <2>3, LifecycleSays
  <2>5. PICK g : g = [f EXCEPT !.limits = IF Access!Initializes(w) THEN Access!Starts(kind) ELSE @]
    OBVIOUS
  <2>6. /\ g \in Row /\ g.kind = kind /\ g.exposure = endpoint.exposure
        /\ g.limits = IF Access!Initializes(w) THEN Access!Starts(kind) ELSE endpoint.limits
    BY <2>4, <2>5 DEF Row
  <2>7. endpoint.kind = "model" /\ Access!Starts(endpoint.kind) = Access!Default
    BY <1>2 DEF AccessInv, Row, OneKind, Access!Starts
  <2>8. IF accepted.limits = "none" THEN g.limits = Access!Starts(kind)
        ELSE g.limits \in {accepted.limits} \cup (IF accepted.limits = Access!Default THEN {Access!Starts(kind)} ELSE {})
    BY <2>6, <2>7 DEF AccessInv, Access!AccessIsKept, Access!Initializes
  <2>9. Access!Served(w, kind) = g
    BY <1>2, <2>1, <2>3, <2>5 DEF Access!Served
  <2> QED
    BY <2>6, <2>8, <2>9
<1> QED
  BY <1>1, <1>2

LEMMA DeployStep ==
  ASSUME OneKind, AccessSettings, AccessInv, NEW d \in Deployers, Access!Deploy(d)
  PROVE  AccessInv'
<1>1. /\ UNCHANGED <<key, admin, revoker, pass, accepted, was, uses>>
      /\ deployer' = [deployer EXCEPT ![d] = [pc |-> "done"]]
      /\ deployer[d].pc = "locked"
  BY DEF Access!Deploy, Access!history
<1>2. PICK w, kind : w = deployer[d].endpoint /\ kind = deployer[d].kind
  OBVIOUS
<1>3. w \in Row /\ kind \in Kinds /\ w.kind = endpoint.kind /\ (accepted.limits = "none" => w.at = endpoint.at)
  BY <1>1, <1>2 DEF AccessInv, DeployerOK
<1>4. DOMAIN deployer' = Deployers /\ \A e \in Deployers : deployer'[e].pc # "locked"
  BY <1>1 DEF AccessInv
<1>5. \A e \in Deployers : DeployerOK(deployer[e])'
  <2> SUFFICES ASSUME NEW e \in Deployers, deployer'[e].pc \in {"ask", "locked"} PROVE deployer'[e].kind \in Kinds
    BY <1>4 DEF DeployerOK
  <2>1. e # d
    BY <1>1 DEF AccessInv
  <2>2. deployer'[e] = deployer[e]
    BY <1>1, <2>1 DEF AccessInv
  <2> QED
    BY <2>2 DEF AccessInv, DeployerOK
<1>6. \A m \in Admins : AdminOK(admin[m])'
  BY <1>1 DEF AccessInv, AdminOK
<1>7. CASE UNCHANGED <<endpoint, deployment>>
  BY <1>1, <1>4, <1>5, <1>6, <1>7 DEF AccessInv, LookedOK, Access!AccessIsKept
<1>8. CASE endpoint' = Access!Served(w, kind)
  <2>1. PICK f : f = Access!Served(w, kind)
    OBVIOUS
  <2>2. /\ f \in Row /\ f.kind \in Kinds /\ f.exposure = endpoint.exposure
        /\ IF accepted.limits = "none" THEN f.limits = Access!Starts(f.kind)
           ELSE f.limits \in {accepted.limits} \cup (IF accepted.limits = Access!Default THEN {Access!Starts(f.kind)} ELSE {})
    BY <1>3, <2>1, ServedSays
  <2>3. Access!AccessIsKept'
    BY <1>1, <1>8, <2>1, <2>2 DEF AccessInv, Access!AccessIsKept
  <2>4. LookedOK(pass)'
    BY <1>1, <1>8, <2>1, <2>2 DEF AccessInv, LookedOK
  <2> QED
    BY <1>1, <1>4, <1>5, <1>6, <1>8, <2>1, <2>2, <2>3, <2>4 DEF AccessInv
<1> QED
  BY <1>2, <1>7, <1>8 DEF Access!Deploy

LEMMA ReadKeyStep ==
  ASSUME AccessInv, NEW k \in Revokers, Access!ReadKey(k)
  PROVE  AccessInv'
<1>1. UNCHANGED <<endpoint, key, deployment, admin, deployer, pass, accepted, was, uses>>
  BY DEF Access!ReadKey, Access!rows, Access!history
<1>2. PICK x : x = [pc |-> IF key.revoked THEN "done" ELSE "read", key |-> key]
  OBVIOUS
<1>a. x.key = key /\ revoker' = [revoker EXCEPT ![k] = x]
  BY <1>2 DEF Access!ReadKey
<1>3. DOMAIN revoker' = Revokers /\ \A l \in Revokers : revoker'[l].pc = "read" => revoker'[l].key \in Key
  BY <1>a DEF AccessInv
<1> QED
  BY <1>1, <1>3 DEF AccessInv, AdminOK, DeployerOK, LookedOK, Access!AccessIsKept

LEMMA RevokeStep ==
  ASSUME AccessInv, NEW k \in Revokers, Access!Revoke(k)
  PROVE  AccessInv'
<1>1. UNCHANGED <<endpoint, deployment, admin, deployer, pass, accepted, uses>>
  BY DEF Access!Revoke
<1>2. PICK o : o = revoker[k].key
  OBVIOUS
<1>3. o \in Key /\ key' = [o EXCEPT !.revoked = TRUE]
  BY <1>2 DEF Access!Revoke, AccessInv
<1>4. key' \in Key /\ key'.revoked
  BY <1>3 DEF Key
<1>5. revoker' = [revoker EXCEPT ![k] = [pc |-> "done"]]
  BY DEF Access!Revoke
<1>6. DOMAIN revoker' = Revokers /\ \A l \in Revokers : revoker'[l].pc = "read" => revoker'[l].key \in Key
  BY <1>5 DEF AccessInv
<1> QED
  BY <1>1, <1>4, <1>6 DEF AccessInv, AdminOK, DeployerOK, LookedOK, Access!AccessIsKept

(* The gateway writes when the key was used, and nothing else.                         *)
LEMMA UseStep ==
  ASSUME AccessInv, Access!UseKey \/ Access!Touch
  PROVE  AccessInv'
<1>1. UNCHANGED <<endpoint, deployment, admin, deployer, revoker, pass, accepted, was>>
  BY DEF Access!UseKey, Access!Touch, Access!rows, Access!history
<1>2. uses' \in Nat /\ key' \in Key /\ key'.revoked = key.revoked
  BY DEF Access!UseKey, Access!Touch, Access!Touched, Access!rows, AccessInv, Key
<1> QED
  BY <1>1, <1>2 DEF AccessInv, AdminOK, DeployerOK, LookedOK, Access!AccessIsKept

LEMMA AccessStep == OneKind /\ AccessSettings /\ AccessInv /\ [Access!Next]_(Access!vars) => AccessInv'
<1> SUFFICES ASSUME OneKind, AccessSettings, AccessInv, [Access!Next]_(Access!vars) PROVE AccessInv'
  OBVIOUS
<1>1. CASE UNCHANGED Access!vars
  BY <1>1 DEF Access!vars, Access!rows, Access!history, AccessInv, AdminOK, DeployerOK, LookedOK, Access!AccessIsKept
<1>2. CASE Access!Next
  BY <1>2, ReadAccessStep, ExposeStep, AskToDeployStep, LockStep, DeployStep, ReadKeyStep, RevokeStep, LoadStep, MarkStep,
     DeleteStep, UseStep DEF Access!Next
<1> QED
  BY <1>1, <1>2

LEMMA AccessStaysKept ==
  ASSUME OneKind, AccessSettings PROVE Access!Init /\ [][Access!Next]_(Access!vars) => []Access!AccessIsKept
<1>1. AccessInv => Access!AccessIsKept
  BY DEF AccessInv
<1> QED
  BY <1>1, InitAccess, AccessStep, PTL

-----------------------------------------------------------------------------
(* Backup and restore (Backup.tla): what a manifest vouches for.                       *)
BackupSettings == "part" \notin Contents

(* How far a backup is: what it has written of the directory that is its own.          *)
Stage(x) ==
  /\ DOMAIN x = {"pc", "snapshot", "counts", "digest", "seen"}
  /\ x.pc \in {"snapshot", "dump", "dumping", "count", "digest", "manifest", "write"} => live \in x.seen
  /\ x.pc \in {"dump", "dumping", "count", "digest", "manifest", "write"} => x.snapshot \in x.seen
  /\ x.pc \in {"count", "digest", "manifest", "write"} => directory.dump = x.snapshot
  /\ x.pc \in {"digest", "manifest", "write"} => x.counts = Counts[x.snapshot]
  /\ x.pc \in {"manifest", "write"} => x.digest = x.snapshot
  /\ x.pc \in {"begin", "refused"} \/ (directory.manifest.state = "whole" <=> x.pc = "done")
  /\ x.pc = "done" => directory.manifest.dump \in x.seen /\ directory.manifest.counts = Counts[directory.manifest.dump]

Owns(z) == backup[z].pc \notin {"begin", "refused"}

Directory(d) == DOMAIN d = {"exists", "dump", "manifest"} /\ DOMAIN d.manifest = {"state", "dump", "counts"}

RestoreOK(y) ==
  /\ DOMAIN y = {"pc", "manifest", "loaded"}
  /\ y.pc \in {"verified", "load"} => Dump!Readable
  /\ y.loaded # "nothing" => \E z \in Backups : backup[z].pc = "done" /\ y.loaded \in backup[z].seen

DumpInv ==
  /\ Directory(directory) /\ DOMAIN backup = Backups /\ DOMAIN restore = Restores
  /\ \A z \in Backups : Stage(backup[z])
  /\ \A y, z \in Backups : Owns(y) /\ Owns(z) => y = z
  /\ \A z \in Backups : Owns(z) => directory.exists
  /\ directory.manifest.state = "whole" => \E z \in Backups : backup[z].pc = "done"
  /\ \A r \in Restores : RestoreOK(restore[r])
  /\ target # "part"

LEMMA InitDump == BackupSettings /\ Dump!Init => DumpInv
<1> SUFFICES ASSUME BackupSettings, Dump!Init PROVE DumpInv
  OBVIOUS
<1>1. Directory(directory) /\ DOMAIN backup = Backups /\ DOMAIN restore = Restores /\ directory.manifest.state = "nothing"
  BY DEF Dump!Init, Directory, Dump!NoManifest, Dump!Nothing
<1>2. \A z \in Backups : backup[z].pc = "begin" /\ DOMAIN backup[z] = {"pc", "snapshot", "counts", "digest", "seen"}
  BY DEF Dump!Init
<1>3. \A r \in Restores : restore[r].pc = "begin" /\ restore[r].loaded = "nothing" /\ DOMAIN restore[r] = {"pc", "manifest", "loaded"}
  BY DEF Dump!Init, Dump!Nothing
<1>4. target # "part"
  BY DEF Dump!Init, Dump!Nothing
<1> QED
  BY <1>1, <1>2, <1>3, <1>4 DEF DumpInv, Stage, Owns, RestoreOK

(* The directory is one backup's own, and until it is done there is nothing to verify. *)
LEMMA OwnDirectory ==
  ASSUME DumpInv, NEW z \in Backups, Dump!Running(z)
  PROVE  /\ \A y \in Backups : y # z => backup[y].pc \in {"begin", "refused"}
         /\ \A y \in Backups : backup[y].pc # "done"
         /\ \A r \in Restores : restore[r].pc \notin {"verified", "load"} /\ restore[r].loaded = "nothing"
         /\ directory.exists
<1>1. Owns(z) /\ backup[z].pc # "done"
  BY DEF Dump!Running, Owns
<1>2. \A y \in Backups : (y # z => backup[y].pc \in {"begin", "refused"}) /\ backup[y].pc # "done"
  BY <1>1 DEF DumpInv, Owns
<1>3. directory.manifest.state # "whole"
  BY <1>2 DEF DumpInv
<1>4. \A r \in Restores : restore[r].pc \notin {"verified", "load"} /\ restore[r].loaded = "nothing"
  BY <1>2, <1>3 DEF DumpInv, RestoreOK, Dump!Readable
<1> QED
  BY <1>1, <1>2, <1>4 DEF DumpInv

LEMMA OneStage ==
  ASSUME DumpInv, NEW z \in Backups, Dump!Running(z), NEW x, Stage(x)', backup' = [backup EXCEPT ![z] = x],
         x.pc \notin {"begin", "refused"}, Directory(directory)', directory'.exists = directory.exists,
         UNCHANGED <<target, restore>>
  PROVE  DumpInv'
<1>1. /\ \A y \in Backups : y # z => backup[y].pc \in {"begin", "refused"}
      /\ \A r \in Restores : restore[r].pc \notin {"verified", "load"} /\ restore[r].loaded = "nothing"
      /\ directory.exists
  BY OwnDirectory
<1>2. DOMAIN backup' = Backups /\ DOMAIN restore' = Restores /\ target' # "part"
  BY DEF DumpInv
<1>3. backup'[z] = x /\ \A y \in Backups : y # z => backup'[y] = backup[y] /\ backup'[y].pc \in {"begin", "refused"}
  BY <1>1 DEF DumpInv
<1>4. \A y \in Backups : Stage(backup[y])'
  BY <1>3 DEF DumpInv, Stage
<1>5. \A y \in Backups : Owns(y)' => y = z
  BY <1>3 DEF Owns
<1>6. \A r \in Restores : RestoreOK(restore[r])'
  BY <1>1 DEF DumpInv, RestoreOK
<1>7. directory'.manifest.state = "whole" => backup'[z].pc = "done"
  BY <1>3 DEF Stage
<1>8. directory'.exists
  BY <1>1
<1> QED
  BY <1>2, <1>4, <1>5, <1>6, <1>7, <1>8 DEF DumpInv

LEMMA MkdirStep ==
  ASSUME DumpInv, NEW z \in Backups, Dump!Mkdir(z)
  PROVE  DumpInv'
<1>1. UNCHANGED <<live, target, restore>> /\ backup[z].pc = "begin" /\ Stage(backup[z]) /\ Directory(directory)
  BY DEF Dump!Mkdir, DumpInv
<1>2. PICK o : o = backup[z]
  OBVIOUS
<1>3. CASE directory.exists
  <2>1. PICK x : x = [o EXCEPT !.pc = "refused"]
    OBVIOUS
  <2>2. x.pc = "refused" /\ DOMAIN x = {"pc", "snapshot", "counts", "digest", "seen"}
    BY <1>1, <1>2, <2>1 DEF Stage
  <2>3. backup' = [backup EXCEPT ![z] = x] /\ directory' = directory
    BY <1>2, <1>3, <2>1 DEF Dump!Mkdir, Dump!Goes
  <2>4. DOMAIN backup' = Backups /\ backup'[z] = x /\ \A y \in Backups : y # z => backup'[y] = backup[y]
    BY <2>3 DEF DumpInv
  <2>5. \A y \in Backups : Stage(backup[y])' /\ (Owns(y)' => Owns(y))
    BY <1>1, <2>2, <2>3, <2>4 DEF DumpInv, Stage, Owns
  <2>6. \A y \in Backups : backup[y].pc = "done" => backup'[y] = backup[y]
    BY <1>1, <2>4
  <2>7. \A r \in Restores : RestoreOK(restore[r])'
    BY <1>1, <2>3, <2>6 DEF DumpInv, RestoreOK, Dump!Readable, Dump!Genuine
  <2>8. directory'.manifest.state = "whole" => \E y \in Backups : backup'[y].pc = "done"
    BY <2>3, <2>6 DEF DumpInv
  <2> QED
    BY <1>1, <2>3, <2>4, <2>5, <2>7, <2>8 DEF DumpInv
<1>4. CASE ~directory.exists
  <2>1. PICK x : x = [o EXCEPT !.pc = "snapshot", !.seen = {live}]
    OBVIOUS
  <2>2. x.pc = "snapshot" /\ x.seen = {live} /\ DOMAIN x = {"pc", "snapshot", "counts", "digest", "seen"}
    BY <1>1, <1>2, <2>1 DEF Stage
  <2>3. backup' = [backup EXCEPT ![z] = x] /\ directory' = [directory EXCEPT !.exists = TRUE]
    BY <1>2, <1>4, <2>1 DEF Dump!Mkdir, Dump!Goes
  <2>4. DOMAIN backup' = Backups /\ backup'[z] = x /\ \A y \in Backups : y # z => backup'[y] = backup[y]
    BY <2>3 DEF DumpInv
  <2>5. \A y \in Backups : ~Owns(y)
    BY <1>4 DEF DumpInv
  <2>6. directory.manifest.state # "whole"
    BY <2>5 DEF DumpInv, Owns
  <2>7. Directory(directory)' /\ directory'.exists /\ directory'.manifest = directory.manifest /\ directory'.dump = directory.dump
    BY <1>1, <2>3 DEF Directory
  <2>8. \A y \in Backups : Stage(backup[y])'
    BY <1>1, <2>2, <2>4, <2>5, <2>6, <2>7 DEF DumpInv, Stage, Owns
  <2>9. \A r \in Restores : restore[r].pc \notin {"verified", "load"} /\ restore[r].loaded = "nothing"
    BY <2>5, <2>6 DEF DumpInv, RestoreOK, Dump!Readable, Owns
  <2>10. \A r \in Restores : RestoreOK(restore[r])'
    BY <1>1, <2>9 DEF DumpInv, RestoreOK
  <2>11. \A y \in Backups : Owns(y)' => y = z
    BY <2>4, <2>5 DEF Owns
  <2> QED
    BY <1>1, <2>4, <2>6, <2>7, <2>8, <2>10, <2>11 DEF DumpInv
<1> QED
  BY <1>3, <1>4

(* The steps of the backup that owns the directory.                                    *)
LEMMA BackupStep ==
  ASSUME DumpInv, NEW z \in Backups,
         Dump!Snapshot(z) \/ Dump!Touch(z) \/ Dump!Dump(z) \/ Dump!Count(z) \/ Dump!Digest(z)
           \/ Dump!TouchManifest(z) \/ Dump!WriteManifest(z) \/ Dump!Fail(z) \/ Dump!Kill(z)
  PROVE  DumpInv'
<1>1. UNCHANGED <<live, target, restore>> /\ Stage(backup[z]) /\ Directory(directory)
  BY DEF Dump!Snapshot, Dump!Touch, Dump!Dump, Dump!Count, Dump!Digest, Dump!TouchManifest, Dump!WriteManifest, Dump!Fail,
         Dump!Kill, DumpInv
<1>2. PICK o : o = backup[z]
  OBVIOUS
<1>3. PICK d : d = directory
  OBVIOUS
<1>4. PICK e : e = directory'
  OBVIOUS
<1>5. Stage(o) /\ Directory(d) /\ d.exists = directory.exists /\ d.dump = directory.dump /\ d.manifest = directory.manifest
  BY <1>1, <1>2, <1>3
<1>6. ASSUME Dump!Running(z), NEW x, backup' = [backup EXCEPT ![z] = x], x.pc \notin {"begin", "refused"},
             Stage(x)', Directory(e), e.exists = d.exists
      PROVE  DumpInv'
  BY <1>1, <1>3, <1>4, <1>6, OneStage DEF Directory
<1>7. CASE Dump!Snapshot(z)
  <2>1. PICK x : x = [o EXCEPT !.pc = "dump", !.snapshot = live]
    OBVIOUS
  <2>2. x.pc = "dump" /\ x.snapshot = live /\ x.seen = o.seen /\ DOMAIN x = DOMAIN o /\ o.pc = "snapshot"
    BY <1>2, <1>5, <1>7, <2>1 DEF Stage, Dump!Snapshot
  <2>3. backup' = [backup EXCEPT ![z] = x] /\ e = d /\ Dump!Running(z)
    BY <1>2, <1>3, <1>4, <1>7, <2>1 DEF Dump!Snapshot, Dump!Goes, Dump!Running
  <2>4. Stage(x)'
    BY <1>1, <1>3, <1>4, <1>5, <2>2, <2>3 DEF Stage
  <2> QED
    BY <1>5, <1>6, <2>2, <2>3, <2>4
<1>8. CASE Dump!Touch(z)
  <2>1. PICK x : x = [o EXCEPT !.pc = "dumping"]
    OBVIOUS
  <2>2. x.pc = "dumping" /\ x.snapshot = o.snapshot /\ x.seen = o.seen /\ DOMAIN x = DOMAIN o /\ o.pc = "dump"
    BY <1>2, <1>5, <1>8, <2>1 DEF Stage, Dump!Touch
  <2>3. backup' = [backup EXCEPT ![z] = x] /\ e = [d EXCEPT !.dump = "part"] /\ Dump!Running(z)
    BY <1>2, <1>3, <1>4, <1>8, <2>1 DEF Dump!Touch, Dump!Goes, Dump!Running, Dump!Part
  <2>4. Directory(e) /\ e.exists = d.exists /\ e.manifest = d.manifest
    BY <1>5, <2>3 DEF Directory
  <2>5. Stage(x)'
    BY <1>1, <1>3, <1>4, <1>5, <2>2, <2>4 DEF Stage
  <2> QED
    BY <1>6, <2>2, <2>3, <2>4, <2>5
<1>9. CASE Dump!Dump(z)
  <2>1. PICK x : x = [o EXCEPT !.pc = "count"]
    OBVIOUS
  <2>2. x.pc = "count" /\ x.snapshot = o.snapshot /\ x.seen = o.seen /\ DOMAIN x = DOMAIN o /\ o.pc = "dumping"
    BY <1>2, <1>5, <1>9, <2>1 DEF Stage, Dump!Dump
  <2>3. backup' = [backup EXCEPT ![z] = x] /\ e = [d EXCEPT !.dump = o.snapshot] /\ Dump!Running(z)
    BY <1>2, <1>3, <1>4, <1>9, <2>1 DEF Dump!Dump, Dump!Goes, Dump!Running
  <2>4. Directory(e) /\ e.exists = d.exists /\ e.manifest = d.manifest /\ e.dump = o.snapshot
    BY <1>5, <2>3 DEF Directory
  <2>5. Stage(x)'
    BY <1>1, <1>3, <1>4, <1>5, <2>2, <2>4 DEF Stage
  <2> QED
    BY <1>6, <2>2, <2>3, <2>4, <2>5
<1>10. CASE Dump!Count(z)
  <2>1. PICK x : x = [o EXCEPT !.pc = "digest", !.counts = Counts[o.snapshot]]
    OBVIOUS
  <2>2. /\ x.pc = "digest" /\ x.snapshot = o.snapshot /\ x.counts = Counts[o.snapshot] /\ x.seen = o.seen
        /\ DOMAIN x = DOMAIN o /\ o.pc = "count"
    BY <1>2, <1>5, <1>10, <2>1 DEF Stage, Dump!Count
  <2>3. backup' = [backup EXCEPT ![z] = x] /\ e = d /\ Dump!Running(z)
    BY <1>2, <1>3, <1>4, <1>10, <2>1 DEF Dump!Count, Dump!Counted, Dump!Goes, Dump!Running
  <2>4. Stage(x)'
    BY <1>1, <1>3, <1>4, <1>5, <2>2, <2>3 DEF Stage
  <2> QED
    BY <1>5, <1>6, <2>2, <2>3, <2>4
<1>11. CASE Dump!Digest(z)
  <2>1. PICK x : x = [o EXCEPT !.pc = "manifest", !.digest = d.dump]
    OBVIOUS
  <2>2. /\ x.pc = "manifest" /\ x.snapshot = o.snapshot /\ x.counts = o.counts /\ x.seen = o.seen /\ x.digest = d.dump
        /\ DOMAIN x = DOMAIN o /\ o.pc = "digest"
    BY <1>2, <1>5, <1>11, <2>1 DEF Stage, Dump!Digest
  <2>3. backup' = [backup EXCEPT ![z] = x] /\ e = d /\ Dump!Running(z)
    BY <1>2, <1>3, <1>4, <1>11, <2>1 DEF Dump!Digest, Dump!Goes, Dump!Running
  <2>4. Stage(x)'
    BY <1>1, <1>3, <1>4, <1>5, <2>2, <2>3 DEF Stage
  <2> QED
    BY <1>5, <1>6, <2>2, <2>3, <2>4
<1>12. CASE Dump!TouchManifest(z)
  <2>1. PICK x : x = [o EXCEPT !.pc = "write"]
    OBVIOUS
  <2>2. /\ x.pc = "write" /\ x.snapshot = o.snapshot /\ x.counts = o.counts /\ x.seen = o.seen /\ x.digest = o.digest
        /\ DOMAIN x = DOMAIN o /\ o.pc = "manifest"
    BY <1>2, <1>5, <1>12, <2>1 DEF Stage, Dump!TouchManifest
  <2>3. backup' = [backup EXCEPT ![z] = x] /\ e = [d EXCEPT !.manifest.state = "part"] /\ Dump!Running(z)
    BY <1>2, <1>3, <1>4, <1>12, <2>1 DEF Dump!TouchManifest, Dump!Goes, Dump!Running, Dump!Part
  <2>4. Directory(e) /\ e.exists = d.exists /\ e.manifest.state = "part" /\ e.dump = d.dump
    BY <1>5, <2>3 DEF Directory
  <2>5. Stage(x)'
    BY <1>1, <1>3, <1>4, <1>5, <2>2, <2>4 DEF Stage
  <2> QED
    BY <1>6, <2>2, <2>3, <2>4, <2>5
<1>13. CASE Dump!WriteManifest(z)
  <2>1. PICK x : x = [o EXCEPT !.pc = "done"]
    OBVIOUS
  <2>2. /\ x.pc = "done" /\ x.seen = o.seen /\ DOMAIN x = DOMAIN o /\ o.pc = "write"
    BY <1>2, <1>5, <1>13, <2>1 DEF Stage, Dump!WriteManifest
  <2>3. /\ backup' = [backup EXCEPT ![z] = x] /\ Dump!Running(z)
        /\ e = [d EXCEPT !.manifest = [state |-> "whole", dump |-> o.digest, counts |-> o.counts]]
    BY <1>2, <1>3, <1>4, <1>13, <2>1 DEF Dump!WriteManifest, Dump!Goes, Dump!Running
  <2>4. PICK f : f = [state |-> "whole", dump |-> o.digest, counts |-> o.counts]
    OBVIOUS
  <2>5. /\ Directory(e) /\ e.exists = d.exists /\ e.dump = d.dump
        /\ e.manifest.state = "whole" /\ e.manifest.dump = o.digest /\ e.manifest.counts = o.counts
    <3>1. e.manifest = f /\ e.exists = d.exists /\ e.dump = d.dump /\ DOMAIN e = DOMAIN d
      BY <1>5, <2>3, <2>4 DEF Directory
    <3> QED
      BY <1>5, <2>4, <3>1 DEF Directory
  <2>6. Stage(x)'
    BY <1>1, <1>3, <1>4, <1>5, <2>2, <2>5 DEF Stage
  <2> QED
    BY <1>6, <2>2, <2>3, <2>5, <2>6
<1>14. CASE Dump!Fail(z)
  <2>1. PICK x : x = [o EXCEPT !.pc = "failed"]
    OBVIOUS
  <2>2. x.pc = "failed" /\ DOMAIN x = DOMAIN o
    BY <1>5, <2>1 DEF Stage
  <2>3. backup' = [backup EXCEPT ![z] = x] /\ e = [d EXCEPT !.manifest = Dump!NoManifest] /\ Dump!Running(z)
    BY <1>2, <1>3, <1>4, <1>14, <2>1 DEF Dump!Fail, Dump!Goes
  <2>4. Directory(e) /\ e.exists = d.exists /\ e.manifest.state = "nothing"
    BY <1>5, <2>3 DEF Directory, Dump!NoManifest, Dump!Nothing
  <2>5. Stage(x)'
    BY <1>1, <1>3, <1>4, <1>5, <2>2, <2>4 DEF Stage
  <2> QED
    BY <1>6, <2>2, <2>3, <2>4, <2>5
<1>15. CASE Dump!Kill(z)
  <2>1. PICK x : x = [o EXCEPT !.pc = "killed"]
    OBVIOUS
  <2>2. x.pc = "killed" /\ DOMAIN x = DOMAIN o
    BY <1>5, <2>1 DEF Stage
  <2>3. backup' = [backup EXCEPT ![z] = x] /\ e = d /\ Dump!Running(z)
    BY <1>2, <1>3, <1>4, <1>15, <2>1 DEF Dump!Kill, Dump!Goes
  <2>4. e.manifest.state # "whole"
    BY <1>2, <1>5, <2>3 DEF Stage, Dump!Running
  <2>5. Stage(x)'
    BY <1>1, <1>3, <1>4, <1>5, <2>2, <2>4 DEF Stage
  <2> QED
    BY <1>5, <1>6, <2>2, <2>3, <2>5
<1> QED
  BY <1>7, <1>8, <1>9, <1>10, <1>11, <1>12, <1>13, <1>14, <1>15

(* A restore that has verified the directory has one that no backup writes any more.   *)
LEMMA RestoreStep ==
  ASSUME BackupSettings, DumpInv, NEW r \in Restores, Dump!Verify(r) \/ Dump!Look(r) \/ Dump!Load(r) \/ Dump!Compare(r)
  PROVE  DumpInv'
<1>1. UNCHANGED <<live, directory, backup>> /\ RestoreOK(restore[r])
  BY DEF Dump!Verify, Dump!Look, Dump!Load, Dump!Compare, DumpInv
<1>2. PICK o : o = restore[r]
  OBVIOUS
<1>3. ASSUME NEW y, restore' = [restore EXCEPT ![r] = y], RestoreOK(y), target' # "part" PROVE DumpInv'
  <2>1. DOMAIN restore' = Restores /\ restore'[r] = y /\ \A s \in Restores : s # r => restore'[s] = restore[s]
    BY <1>3 DEF DumpInv
  <2>2. \A s \in Restores : RestoreOK(restore'[s])
    BY <1>3, <2>1 DEF DumpInv
  <2>3. \A s \in Restores : RestoreOK(restore[s])'
    BY <1>1, <2>2 DEF RestoreOK, Dump!Readable, Dump!Genuine
  <2> QED
    BY <1>1, <1>3, <2>1, <2>3 DEF DumpInv, Stage, Owns, Directory
<1>4. DOMAIN o = {"pc", "manifest", "loaded"} /\ RestoreOK(o)
  BY <1>1, <1>2 DEF RestoreOK
<1>5. CASE Dump!Verify(r)
  <2>1. PICK y : y = [o EXCEPT !.pc = IF Dump!Readable THEN "verified" ELSE "failed", !.manifest = directory.manifest]
    OBVIOUS
  <2>2. DOMAIN y = DOMAIN o /\ y.loaded = o.loaded /\ y.pc = IF Dump!Readable THEN "verified" ELSE "failed"
    BY <1>4, <2>1
  <2>3. RestoreOK(y)
    BY <1>4, <2>2 DEF RestoreOK
  <2>4. restore' = [restore EXCEPT ![r] = y] /\ target' # "part"
    BY <1>2, <1>5, <2>1 DEF Dump!Verify, Dump!Back, DumpInv
  <2> QED
    BY <1>3, <2>3, <2>4
<1>6. CASE Dump!Look(r)
  <2>1. PICK y : y = [o EXCEPT !.pc = IF target = "nothing" THEN "load" ELSE "failed"]
    OBVIOUS
  <2>2. DOMAIN y = DOMAIN o /\ y.loaded = o.loaded /\ y.pc \in {"load", "failed"} /\ o.pc = "verified"
    BY <1>2, <1>4, <1>6, <2>1 DEF Dump!Look
  <2>3. RestoreOK(y)
    BY <1>4, <2>2 DEF RestoreOK
  <2>4. restore' = [restore EXCEPT ![r] = y] /\ target' # "part"
    BY <1>2, <1>6, <2>1 DEF Dump!Look, Dump!Back, DumpInv, Dump!Nothing
  <2> QED
    BY <1>3, <2>3, <2>4
<1>7. CASE Dump!Load(r)
  <2>1. Dump!Readable /\ directory.dump \in Contents /\ directory.dump # "part"
    BY <1>7, <1>1 DEF Dump!Load, RestoreOK, Dump!Readable, BackupSettings
  <2>2. CASE restore' = [restore EXCEPT ![r] = [o EXCEPT !.pc = "failed"]] /\ target' = target
    <3>1. PICK y : y = [o EXCEPT !.pc = "failed"]
      OBVIOUS
    <3>2. RestoreOK(y)
      BY <1>4, <3>1 DEF RestoreOK
    <3> QED
      BY <1>3, <2>2, <3>1, <3>2 DEF DumpInv
  <2>3. CASE restore' = [restore EXCEPT ![r] = [o EXCEPT !.pc = "compare", !.loaded = directory.dump]] /\ target' = directory.dump
    <3>1. PICK y : y = [o EXCEPT !.pc = "compare", !.loaded = directory.dump]
      OBVIOUS
    <3>2. DOMAIN y = DOMAIN o /\ y.pc = "compare" /\ y.loaded = directory.dump
      BY <1>4, <3>1
    <3>3. PICK z \in Backups : backup[z].pc = "done"
      BY <2>1 DEF Dump!Readable, DumpInv
    <3>4. directory.dump \in backup[z].seen
      BY <2>1, <3>3 DEF Dump!Readable, Dump!Genuine, DumpInv, Stage
    <3>5. RestoreOK(y)
      BY <1>4, <3>2, <3>3, <3>4 DEF RestoreOK
    <3> QED
      BY <1>3, <2>1, <2>3, <3>1, <3>5
  <2> QED
    BY <1>2, <1>7, <2>1, <2>2, <2>3 DEF Dump!Load, Dump!Back, Dump!Loaded, Dump!Part
<1>8. CASE Dump!Compare(r)
  <2>1. PICK y : y = [o EXCEPT !.pc = IF target \in Contents /\ Counts[target] = o.manifest.counts THEN "restored" ELSE "failed"]
    OBVIOUS
  <2>2. DOMAIN y = DOMAIN o /\ y.loaded = o.loaded /\ y.pc \in {"restored", "failed"}
    BY <1>4, <2>1
  <2>3. RestoreOK(y)
    BY <1>4, <2>2 DEF RestoreOK
  <2>4. restore' = [restore EXCEPT ![r] = y] /\ target' # "part"
    BY <1>2, <1>8, <2>1 DEF Dump!Compare, Dump!Back, DumpInv
  <2> QED
    BY <1>3, <2>3, <2>4
<1> QED
  BY <1>5, <1>6, <1>7, <1>8

LEMMA WriteStep ==
  ASSUME DumpInv, Dump!Write
  PROVE  DumpInv'
<1>1. UNCHANGED <<target, directory, restore>>
  BY DEF Dump!Write
<1>2. DOMAIN backup' = Backups
  BY DEF Dump!Write
<1>3. ASSUME NEW z \in Backups
      PROVE  /\ backup'[z].pc = backup[z].pc /\ Stage(backup[z])'
             /\ ~Dump!Running(z) => backup'[z] = backup[z]
  <2>1. CASE ~Dump!Running(z)
    <3>1. backup'[z] = backup[z]
      BY <2>1 DEF Dump!Write
    <3> QED
      BY <1>1, <2>1, <3>1 DEF Dump!Running, DumpInv, Stage
  <2>2. CASE Dump!Running(z)
    <3>1. PICK o, l : o = backup[z] /\ l = live'
      OBVIOUS
    <3>2. PICK x : x = [o EXCEPT !.seen = o.seen \cup {l}]
      OBVIOUS
    <3>3. Stage(o)
      BY <3>1 DEF DumpInv
    <3>4. /\ DOMAIN x = DOMAIN o /\ x.pc = o.pc /\ x.snapshot = o.snapshot /\ x.counts = o.counts /\ x.digest = o.digest
          /\ x.seen = o.seen \cup {l}
      BY <3>2, <3>3 DEF Stage
    <3>5. backup'[z] = x
      BY <2>2, <3>1, <3>2 DEF Dump!Write
    <3>6. Stage(x)'
      BY <1>1, <3>1, <3>3, <3>4 DEF Stage
    <3> QED
      BY <2>2, <3>1, <3>4, <3>5, <3>6 DEF Stage
  <2> QED
    BY <2>1, <2>2
<1>4. \A z \in Backups : (Owns(z)' <=> Owns(z)) /\ (backup[z].pc = "done" => backup'[z] = backup[z])
  BY <1>3 DEF Owns, Dump!Running
<1>5. \A r \in Restores : RestoreOK(restore[r])'
  BY <1>1, <1>4 DEF DumpInv, RestoreOK, Dump!Readable, Dump!Genuine
<1> QED
  BY <1>1, <1>2, <1>3, <1>4, <1>5 DEF DumpInv

LEMMA OthersStep ==
  ASSUME BackupSettings, DumpInv, Dump!Interfere \/ Dump!Damage
  PROVE  DumpInv'
<1>1. CASE Dump!Interfere
  <2>1. UNCHANGED <<live, directory, backup, restore>> /\ target' # "part"
    BY <1>1 DEF Dump!Interfere, BackupSettings
  <2> QED
    BY <2>1 DEF DumpInv, Stage, Owns, Directory, RestoreOK, Dump!Readable, Dump!Genuine
<1>2. CASE Dump!Damage
  <2>1. /\ UNCHANGED <<live, target, backup, restore>>
        /\ \A z \in Backups : ~Dump!Running(z)
        /\ \A r \in Restores : restore[r].pc \notin {"verified", "load"}
    BY <1>2 DEF Dump!Damage
  <2>2. Directory(directory)' /\ directory'.exists = directory.exists /\ directory'.manifest = directory.manifest
    BY <1>2 DEF Dump!Damage, DumpInv, Directory
  <2>3. \A z \in Backups : Stage(backup[z])'
    BY <2>1, <2>2 DEF DumpInv, Stage, Dump!Running
  <2>4. \A r \in Restores : RestoreOK(restore[r])'
    BY <2>1 DEF DumpInv, RestoreOK
  <2> QED
    BY <2>1, <2>2, <2>3, <2>4 DEF DumpInv, Owns
<1> QED
  BY <1>1, <1>2

LEMMA DumpStep == BackupSettings /\ DumpInv /\ [Dump!Next]_(Dump!vars) => DumpInv'
<1> SUFFICES ASSUME BackupSettings, DumpInv, [Dump!Next]_(Dump!vars) PROVE DumpInv'
  OBVIOUS
<1>1. CASE UNCHANGED Dump!vars
  BY <1>1 DEF Dump!vars, DumpInv, Stage, Owns, Directory, RestoreOK, Dump!Readable, Dump!Genuine
<1>2. CASE Dump!Next
  BY <1>2, MkdirStep, BackupStep, RestoreStep, WriteStep, OthersStep DEF Dump!Next, Dump!Run
<1> QED
  BY <1>1, <1>2

LEMMA BackupsAlwaysRestore ==
  ASSUME BackupSettings PROVE Dump!Init /\ [][Dump!Next]_(Dump!vars) => []Dump!BackupsRestore
<1>1. DumpInv => Dump!BackupsRestore
  <2> SUFFICES ASSUME DumpInv PROVE Dump!BackupsRestore
    OBVIOUS
  <2>1. ASSUME NEW z \in Backups, backup[z].pc = "done"
        PROVE  /\ directory.manifest.state = "whole" /\ directory.manifest.dump \in backup[z].seen
               /\ directory.manifest.counts = Counts[directory.manifest.dump]
    BY <2>1 DEF DumpInv, Stage
  <2>2. Dump!Readable => \E z \in Backups : backup[z].pc = "done" /\ directory.dump \in backup[z].seen
    BY <2>1 DEF DumpInv, Dump!Readable, Dump!Genuine
  <2>3. \A r \in Restores : restore[r].loaded # "nothing" =>
          \E z \in Backups : backup[z].pc = "done" /\ restore[r].loaded \in backup[z].seen
    BY DEF DumpInv, RestoreOK
  <2> QED
    BY <2>1, <2>2, <2>3 DEF DumpInv, Dump!BackupsRestore, Dump!Done, Dump!Nothing, Dump!Part
<1> QED
  BY <1>1, InitDump, DumpStep, PTL

-----------------------------------------------------------------------------
(* Jobs, pipelines and datasets (Definitions.tla): what is defined stays.             *)
DefinitionSettings ==
  /\ "none" \notin Clients
  /\ Compile!NoJob \notin Jobs
  /\ \A p \in Pipelines : p.steps \subseteq JobNames

(* A job or a version that exists stays what it is.                                    *)
Grows ==
  /\ \A n \in JobNames : job[n] # Compile!NoJob => job'[n] = job[n]
  /\ \A n \in DOMAIN version : n \in DOMAIN version' /\ version'[n] = version[n]

(* What a request, or a run, names exists, and the jobs of its steps take its values.  *)
Fixed(w) ==
  /\ w.version \in DOMAIN version
  /\ Compile!StepsOf(w) \subseteq JobNames
  /\ \A n \in Compile!StepsOf(w) :
       job[n] # Compile!NoJob /\ Compile!Resolves(job[n].schema, Compile!ProjectValues(job[n].schema, w.given))

TakesInput(w) == \E n \in Compile!StepsOf(w) : Compile!Dynamic(n)

JobsOK == DOMAIN job = JobNames /\ \A n \in JobNames : job[n] = Compile!NoJob \/ job[n] \in Jobs

VersionsOK ==
  /\ Compile!Latest \in Nat /\ DOMAIN version = 1 .. Compile!Latest
  /\ \A n \in DOMAIN version : version[n] \in Pipelines
  /\ \A n \in 2 .. Compile!Latest : version[n] # version[n - 1]

RunFields == {"id", "version", "key", "commit", "given", "input", "newest", "spec"}
RunOK(r) ==
  /\ DOMAIN r = RunFields
  /\ Fixed(r)
  /\ r.input \in {0, r.newest} /\ (TakesInput(r) => r.input = r.newest)
  /\ r.spec # <<>> => r.spec = Compile!Compile(r)

RunsOK ==
  /\ IsFiniteSet(submitted) /\ Cardinality(submitted) \in Nat
  /\ \A r \in submitted : RunOK(r) /\ r.id \in 1 .. Cardinality(submitted)
  /\ \A r, s \in submitted : r.id = s.id => r = s
  /\ \A r, s \in submitted : r.key = s.key /\ r.key # "none" => r.id = s.id

RunAsk == {"pc", "is", "version", "key", "commit", "id", "given", "input"}
PipelineAsk == {"pc", "is", "content", "next", "tries"}

Waits(c, x) ==
  /\ x.pc \in {"frozen", "input", "inserting", "replay"} =>
       DOMAIN x = RunAsk /\ x.is = "run" /\ x.version \in DOMAIN version
  /\ x.pc \in {"frozen", "input"} => x.input = 0
  /\ x.pc \in {"input", "inserting", "replay"} => Fixed(x)
  /\ x.pc = "inserting" => IF TakesInput(x) THEN lock = c /\ x.input = dataset ELSE x.input = 0
  /\ x.pc \in {"pipeline", "adding"} => DOMAIN x = PipelineAsk /\ x.is = "pipeline" /\ x.content \in Pipelines
  /\ x.pc = "adding" =>
       /\ x.next \in 1 .. Compile!Latest + 1
       /\ x.next = Compile!Latest + 1 /\ Compile!Latest > 0 => version[Compile!Latest] # x.content

Has(x) ==
  /\ x.is = "job" => x.name \in JobNames /\ x.content \in Jobs /\ job[x.name] = x.content
  /\ x.is = "pipeline" => x.next \in DOMAIN version /\ version[x.next] = x.content
  /\ x.is = "run" => \E r \in submitted : r.id = x.id /\ Compile!Asked(r) = Compile!Asked(x)

ClientOK(c, x) == Waits(c, x) /\ (x.pc = "answered" => Has(x))

DefinitionInv ==
  /\ JobsOK /\ VersionsOK /\ RunsOK /\ dataset \in Nat
  /\ DOMAIN client = Clients
  /\ \A c \in Clients : ClientOK(c, client[c])

LEMMA SameCount == \A S : Compile!Cardinality(S) = Cardinality(S)
BY DEF Compile!Cardinality, Cardinality

LEMMA InitDefinitions == Compile!Init => DefinitionInv
<1> SUFFICES ASSUME Compile!Init PROVE DefinitionInv
  OBVIOUS
<1>1. JobsOK
  BY DEF Compile!Init, JobsOK
<1>2. DOMAIN version = {} /\ Compile!Latest = 0
  <2>1. version = <<>>
    BY DEF Compile!Init
  <2>2. DOMAIN version = 1 .. 0
    BY <2>1
  <2>3. DOMAIN version = {}
    BY <2>2
  <2> QED
    <3>1. Compile!Latest = Cardinality(DOMAIN version)
      BY SameCount DEF Compile!Latest
    <3>2. Cardinality({}) = 0
      BY FS_EmptySet
    <3> QED
      BY <2>3, <3>1, <3>2, Zenon
<1>3. VersionsOK
  BY <1>2 DEF VersionsOK
<1>4. RunsOK
  BY FS_EmptySet DEF Compile!Init, RunsOK
<1>5. DOMAIN client = Clients /\ \A c \in Clients : client[c].pc = "idle"
  BY DEF Compile!Init, Compile!Idle
<1> QED
  BY <1>1, <1>3, <1>4, <1>5 DEF Compile!Init, DefinitionInv, ClientOK, Waits

LEMMA FixedKept ==
  ASSUME Grows, NEW w, Fixed(w)
  PROVE  /\ Fixed(w)'
         /\ TakesInput(w)' <=> TakesInput(w)
         /\ Compile!Compile(w)' = Compile!Compile(w)
<1>1. Compile!StepsOf(w)' = Compile!StepsOf(w) /\ w.version \in DOMAIN version'
  BY DEF Grows, Fixed, Compile!StepsOf
<1>2. \A n \in Compile!StepsOf(w) : job'[n] = job[n]
  BY DEF Grows, Fixed
<1>3. Fixed(w)'
  BY <1>1, <1>2 DEF Fixed
<1>4. \A n \in Compile!StepsOf(w) : Compile!Dynamic(n)' <=> Compile!Dynamic(n)
  BY <1>2 DEF Compile!Dynamic
<1>5. \A n \in Compile!StepsOf(w) : Compile!CompiledStep(w, n)' = Compile!CompiledStep(w, n)
  BY <1>2, <1>4 DEF Compile!CompiledStep
<1> QED
  BY <1>1, <1>3, <1>4, <1>5 DEF TakesInput, Compile!Compile

LEMMA RunKeptOK ==
  ASSUME Grows, NEW r, RunOK(r)
  PROVE  RunOK(r)'
BY FixedKept DEF RunOK

(* Runs are not forgotten, and the request of a run does not change.                   *)
RunsGrow == \A r \in submitted : \E s \in submitted' : s.id = r.id /\ Compile!Asked(s) = Compile!Asked(r)

LEMMA WaitsKept ==
  ASSUME DefinitionInv, Grows, VersionsOK', Compile!Latest' \in {Compile!Latest, Compile!Latest + 1},
         NEW c \in Clients, NEW x, Waits(c, x), lock = c => lock' = c, dataset' = dataset \/ lock # c
  PROVE  Waits(c, x)'
<1>1. Compile!Latest \in Nat /\ DOMAIN version = 1 .. Compile!Latest
  BY DEF DefinitionInv, VersionsOK
<1>2. x.pc \in {"frozen", "input", "inserting", "replay"} => x.version \in DOMAIN version'
  BY DEF Waits, Grows
<1>3. x.pc \in {"input", "inserting", "replay"} => Fixed(x)' /\ (TakesInput(x)' <=> TakesInput(x))
  BY FixedKept DEF Waits
<1>4. x.pc = "inserting" => IF TakesInput(x)' THEN lock' = c /\ x.input = dataset' ELSE x.input = 0
  BY <1>3 DEF Waits
<1>5. ASSUME x.pc = "adding"
      PROVE  /\ x.next \in 1 .. Compile!Latest' + 1
             /\ x.next = Compile!Latest' + 1 /\ Compile!Latest' > 0 => version'[Compile!Latest'] # x.content
  <2>1. x.next \in 1 .. Compile!Latest + 1
    BY <1>5 DEF Waits
  <2>2. CASE Compile!Latest' = Compile!Latest
    <3>1. Compile!Latest > 0 => version'[Compile!Latest] = version[Compile!Latest]
      BY <1>1 DEF Grows
    <3> QED
      BY <1>5, <2>1, <2>2, <3>1 DEF Waits
  <2>3. CASE Compile!Latest' = Compile!Latest + 1
    BY <1>1, <2>1, <2>3
  <2> QED
    BY <2>2, <2>3
<1> QED
  BY <1>2, <1>3, <1>4, <1>5 DEF Waits

LEMMA HasKept ==
  ASSUME DefinitionSettings, Grows, RunsGrow, NEW x, Has(x)
  PROVE  Has(x)'
<1>1. x.is = "job" => x.name \in JobNames /\ x.content \in Jobs /\ job'[x.name] = x.content
  BY DEF Has, Grows, DefinitionSettings
<1>2. x.is = "pipeline" => x.next \in DOMAIN version' /\ version'[x.next] = x.content
  BY DEF Has, Grows
<1>3. x.is = "run" => \E r \in submitted' : r.id = x.id /\ Compile!Asked(r) = Compile!Asked(x)
  BY DEF Has, RunsGrow
<1> QED
  BY <1>1, <1>2, <1>3 DEF Has, Compile!Asked

(* One client moves; the others do not notice.                                         *)
LEMMA OneClient ==
  ASSUME DefinitionSettings, DefinitionInv, Grows, RunsGrow, JobsOK', VersionsOK', RunsOK',
         Compile!Latest' \in {Compile!Latest, Compile!Latest + 1}, dataset' = dataset,
         NEW c \in Clients, NEW x, Compile!Go(c, x), ClientOK(c, x)',
         \A e \in Clients : e # c /\ lock = e => lock' = e
  PROVE  DefinitionInv'
<1>1. DOMAIN client' = Clients /\ client'[c] = x /\ \A e \in Clients : e # c => client'[e] = client[e]
  BY DEF DefinitionInv, Compile!Go
<1>2. ASSUME NEW e \in Clients PROVE ClientOK(e, client[e])'
  <2>1. CASE e = c
    BY <1>1, <2>1 DEF ClientOK, Waits, Has
  <2>2. CASE e # c
    <3>1. PICK y : y = client[e]
      OBVIOUS
    <3>2. Waits(e, y)'
      BY <2>2, <3>1, WaitsKept DEF DefinitionInv, ClientOK
    <3>3. y.pc = "answered" => Has(y)'
      BY <3>1, HasKept DEF DefinitionInv, ClientOK
    <3> QED
      BY <1>1, <2>2, <3>1, <3>2, <3>3 DEF ClientOK, Waits, Has
  <2> QED
    BY <2>1, <2>2
<1> QED
  BY <1>1, <1>2 DEF DefinitionInv

(* A step that stores nothing.                                                         *)
LEMMA NothingStored ==
  ASSUME DefinitionInv, UNCHANGED Compile!stored
  PROVE  Grows /\ RunsGrow /\ JobsOK' /\ VersionsOK' /\ RunsOK' /\ Compile!Latest' = Compile!Latest /\ dataset' = dataset
<1>1. UNCHANGED <<job, version, dataset, submitted>>
  BY DEF Compile!stored
<1>2. Grows /\ RunsGrow
  BY <1>1 DEF Grows, RunsGrow
<1>3. JobsOK' /\ VersionsOK' /\ Compile!Latest' = Compile!Latest
  BY <1>1 DEF DefinitionInv, JobsOK, VersionsOK, Compile!Latest
<1>4. \A r \in submitted : RunOK(r)'
  BY <1>2, RunKeptOK DEF DefinitionInv, RunsOK
<1>5. RunsOK'
  BY <1>1, <1>4 DEF DefinitionInv, RunsOK
<1> QED
  BY <1>1, <1>2, <1>3, <1>5

LEMMA PlainClient ==
  ASSUME DefinitionSettings, DefinitionInv, UNCHANGED Compile!stored, UNCHANGED lock,
         NEW c \in Clients, NEW x, Compile!Go(c, x), ClientOK(c, x)
  PROVE  DefinitionInv'
<1>1. Grows /\ RunsGrow /\ JobsOK' /\ VersionsOK' /\ RunsOK' /\ Compile!Latest' = Compile!Latest /\ dataset' = dataset
  BY NothingStored
<1>2. Waits(c, x)'
  BY <1>1, WaitsKept DEF ClientOK
<1>3. x.pc = "answered" => Has(x)'
  BY <1>1, HasKept DEF ClientOK
<1> QED
  BY <1>1, <1>2, <1>3, OneClient DEF ClientOK

LEMMA CreateJobStep ==
  ASSUME DefinitionSettings, DefinitionInv, NEW c \in Clients, Compile!CreateJob(c)
  PROVE  DefinitionInv'
<1>1. UNCHANGED <<version, dataset, submitted, lock>> /\ JobsOK
  BY DEF Compile!CreateJob, DefinitionInv
<1>2. PICK n \in JobNames, content \in Jobs :
        /\ job' = IF job[n] = Compile!NoJob THEN [job EXCEPT ![n] = content] ELSE job
        /\ Compile!Go(c, [pc |-> IF job'[n] = content THEN "answered" ELSE "refused", is |-> "job", name |-> n, content |-> content])
  BY DEF Compile!CreateJob
<1>3. Grows /\ JobsOK'
  BY <1>1, <1>2 DEF Grows, JobsOK
<1>4. RunsGrow /\ VersionsOK' /\ Compile!Latest' = Compile!Latest
  BY <1>1 DEF DefinitionInv, RunsGrow, VersionsOK, Compile!Latest
<1>5. RunsOK'
  <2>1. \A r \in submitted : RunOK(r)'
    BY <1>3, RunKeptOK DEF DefinitionInv, RunsOK
  <2> QED
    BY <1>1, <2>1 DEF DefinitionInv, RunsOK
<1>6. PICK x : x = [pc |-> IF job'[n] = content THEN "answered" ELSE "refused", is |-> "job", name |-> n, content |-> content]
  OBVIOUS
<1>7. /\ x.pc \in {"answered", "refused"} /\ (x.pc = "answered" => job'[n] = content)
      /\ x.is = "job" /\ x.name = n /\ x.content = content
  BY <1>6
<1>8. ClientOK(c, x)'
  BY <1>7 DEF ClientOK, Waits, Has
<1> QED
  BY <1>1, <1>2, <1>3, <1>4, <1>5, <1>6, <1>8, OneClient

LEMMA RefuseStep ==
  ASSUME DefinitionSettings, DefinitionInv, UNCHANGED Compile!stored, UNCHANGED lock, NEW c \in Clients, Compile!Refuse(c),
         client[c].pc \in {"frozen", "input", "inserting", "replay", "pipeline", "adding"}
  PROVE  DefinitionInv'
<1>1. PICK o : o = client[c]
  OBVIOUS
<1>2. PICK x : x = [o EXCEPT !.pc = "refused"]
  OBVIOUS
<1>3. x.pc = "refused"
  BY <1>1, <1>2 DEF DefinitionInv, ClientOK, Waits, RunAsk, PipelineAsk
<1>4. ClientOK(c, x)
  BY <1>3 DEF ClientOK, Waits
<1> QED
  BY <1>1, <1>2, <1>4, PlainClient DEF Compile!Refuse

LEMMA AskPipelineStep ==
  ASSUME DefinitionSettings, DefinitionInv, NEW c \in Clients, Compile!AskPipeline(c)
  PROVE  DefinitionInv'
<1>1. UNCHANGED Compile!stored /\ UNCHANGED lock
  BY DEF Compile!AskPipeline
<1>2. PICK content \in Pipelines :
        Compile!Go(c, [pc |-> "pipeline", is |-> "pipeline", content |-> content, next |-> 0, tries |-> 0])
  BY DEF Compile!AskPipeline
<1>3. PICK x : x = [pc |-> "pipeline", is |-> "pipeline", content |-> content, next |-> 0, tries |-> 0]
  OBVIOUS
<1>4. x.pc = "pipeline" /\ x.is = "pipeline" /\ x.content = content /\ DOMAIN x = PipelineAsk
  BY <1>3 DEF PipelineAsk
<1>5. ClientOK(c, x)
  BY <1>4 DEF ClientOK, Waits
<1> QED
  BY <1>1, <1>2, <1>3, <1>5, PlainClient

LEMMA ReadPipelineStep ==
  ASSUME DefinitionSettings, DefinitionInv, NEW c \in Clients, Compile!ReadPipeline(c)
  PROVE  DefinitionInv'
<1>1. UNCHANGED Compile!stored /\ UNCHANGED lock /\ client[c].pc = "pipeline"
  BY DEF Compile!ReadPipeline
<1>2. PICK o : o = client[c]
  OBVIOUS
<1>3. /\ DOMAIN o = PipelineAsk /\ o.is = "pipeline" /\ o.content \in Pipelines
      /\ Compile!Latest \in Nat /\ DOMAIN version = 1 .. Compile!Latest
  BY <1>1, <1>2 DEF DefinitionInv, ClientOK, Waits, VersionsOK
<1>4. CASE Compile!Same(o.content) /\ Compile!Go(c, [o EXCEPT !.pc = "answered", !.next = Compile!Latest])
  <2>1. PICK x : x = [o EXCEPT !.pc = "answered", !.next = Compile!Latest]
    OBVIOUS
  <2>2. x.pc = "answered" /\ x.is = "pipeline" /\ x.next = Compile!Latest /\ x.content = o.content
    BY <1>3, <2>1 DEF PipelineAsk
  <2>3. x.next \in DOMAIN version /\ version[x.next] = x.content
    BY <1>3, <1>4, <2>2 DEF Compile!Same
  <2>4. ClientOK(c, x)
    BY <2>2, <2>3 DEF ClientOK, Waits, Has
  <2> QED
    BY <1>1, <1>4, <2>1, <2>4, PlainClient
<1>5. CASE Compile!Refuse(c)
  BY <1>1, <1>5, RefuseStep
<1>6. CASE ~Compile!Same(o.content) /\ Compile!Go(c, [o EXCEPT !.pc = "adding", !.next = Compile!Latest + 1])
  <2>1. PICK x : x = [o EXCEPT !.pc = "adding", !.next = Compile!Latest + 1]
    OBVIOUS
  <2>2. x.pc = "adding" /\ x.is = "pipeline" /\ x.next = Compile!Latest + 1 /\ x.content = o.content /\ DOMAIN x = PipelineAsk
    BY <1>3, <2>1 DEF PipelineAsk
  <2>3. x.next \in 1 .. Compile!Latest + 1 /\ (Compile!Latest > 0 => version[Compile!Latest] # x.content)
    BY <1>3, <1>6, <2>2 DEF Compile!Same
  <2>4. ClientOK(c, x)
    BY <1>3, <2>2, <2>3 DEF ClientOK, Waits
  <2> QED
    BY <1>1, <1>6, <2>1, <2>4, PlainClient
<1> QED
  BY <1>2, <1>4, <1>5, <1>6 DEF Compile!ReadPipeline

(* The insert of a version: its number is free only if it is still the next one.       *)
LEMMA AddPipelineStep ==
  ASSUME DefinitionSettings, DefinitionInv, NEW c \in Clients, Compile!AddPipeline(c)
  PROVE  DefinitionInv'
<1>1. UNCHANGED <<job, dataset, submitted, lock>> /\ client[c].pc = "adding"
  BY DEF Compile!AddPipeline
<1>2. PICK o : o = client[c]
  OBVIOUS
<1>3. PICK n, k : n = o.next /\ k = Compile!Latest
  OBVIOUS
<1>4. /\ DOMAIN o = PipelineAsk /\ o.is = "pipeline" /\ o.content \in Pipelines
      /\ k \in Nat /\ DOMAIN version = 1 .. k /\ n \in 1 .. k + 1
      /\ n = k + 1 /\ k > 0 => version[k] # o.content
  BY <1>1, <1>2, <1>3 DEF DefinitionInv, ClientOK, Waits, VersionsOK
<1>5. CASE UNCHANGED version /\ Compile!Refuse(c)
  BY <1>1, <1>5, RefuseStep DEF Compile!stored
<1>6. CASE UNCHANGED version /\ Compile!Go(c, [o EXCEPT !.pc = "pipeline", !.tries = @ + 1])
  <2>1. PICK t : t = o.tries + 1
    OBVIOUS
  <2>2. PICK x : x = [o EXCEPT !.pc = "pipeline", !.tries = t]
    OBVIOUS
  <2>3. x.pc = "pipeline" /\ x.is = "pipeline" /\ x.content = o.content /\ DOMAIN x = PipelineAsk
    BY <1>4, <2>2 DEF PipelineAsk
  <2>4. ClientOK(c, x)
    BY <1>4, <2>3 DEF ClientOK, Waits
  <2>5. Compile!Go(c, x)
    BY <1>6, <2>1, <2>2
  <2> QED
    BY <1>1, <1>6, <2>4, <2>5, PlainClient DEF Compile!stored
<1>7. CASE /\ n \notin DOMAIN version
           /\ version' = [i \in DOMAIN version \cup {n} |-> IF i = n THEN o.content ELSE version[i]]
           /\ Compile!Go(c, [o EXCEPT !.pc = "answered"])
  <2>1. n = k + 1 /\ DOMAIN version' = 1 .. (k + 1)
    BY <1>4, <1>7
  <2>2. Compile!Latest' = k + 1
    <3>1. Cardinality(1 .. (k + 1)) = k + 1
      BY <1>4, FS_Interval
    <3>2. Compile!Latest' = Cardinality(DOMAIN version')
      BY SameCount DEF Compile!Latest
    <3> QED
      BY <2>1, <3>1, <3>2, Zenon
  <2>3. Grows
    BY <1>1, <1>7 DEF Grows
  <2>4. version'[n] = o.content /\ \A i \in 1 .. k : version'[i] = version[i]
    BY <1>4, <1>7, <2>1
  <2>5. VersionsOK'
    <3>1. \A i \in DOMAIN version' : version'[i] \in Pipelines
      BY <1>4, <2>1, <2>4 DEF DefinitionInv, VersionsOK
    <3>2. ASSUME NEW i \in 2 .. (k + 1) PROVE version'[i] # version'[i - 1]
      <4>1. CASE i = k + 1
        <5>1. version'[i] = o.content /\ version'[i - 1] = version[k] /\ k > 0
          BY <1>4, <2>1, <2>4, <4>1
        <5> QED
          BY <1>4, <2>1, <5>1
      <4>2. CASE i # k + 1
        <5>1. i \in 2 .. k /\ i \in 1 .. k /\ i - 1 \in 1 .. k
          BY <1>4, <4>2
        <5> QED
          BY <1>3, <2>4, <5>1 DEF DefinitionInv, VersionsOK
      <4> QED
        BY <4>1, <4>2
    <3> QED
      BY <1>4, <2>1, <2>2, <3>1, <3>2 DEF VersionsOK
  <2>6. JobsOK' /\ RunsGrow
    BY <1>1 DEF DefinitionInv, JobsOK, RunsGrow
  <2>7. RunsOK'
    <3>1. \A r \in submitted : RunOK(r)'
      BY <2>3, RunKeptOK DEF DefinitionInv, RunsOK
    <3> QED
      BY <1>1, <3>1 DEF DefinitionInv, RunsOK
  <2>8. PICK x : x = [o EXCEPT !.pc = "answered"]
    OBVIOUS
  <2>9. x.pc = "answered" /\ x.is = "pipeline" /\ x.next = n /\ x.content = o.content
    BY <1>3, <1>4, <2>8 DEF PipelineAsk
  <2>10. ClientOK(c, x)'
    BY <1>4, <2>1, <2>4, <2>9 DEF ClientOK, Waits, Has
  <2> QED
    BY <1>1, <1>3, <1>7, <2>2, <2>3, <2>5, <2>6, <2>7, <2>8, <2>10, OneClient
<1> QED
  BY <1>2, <1>3, <1>5, <1>6, <1>7 DEF Compile!AddPipeline

LEMMA AskRunStep ==
  ASSUME DefinitionSettings, DefinitionInv, NEW c \in Clients, Compile!AskRun(c)
  PROVE  DefinitionInv'
<1>1. UNCHANGED Compile!stored /\ UNCHANGED lock
  BY DEF Compile!AskRun
<1>2. PICK v \in {0} \cup DOMAIN version, k \in Keys \cup {Compile!None}, commit \in Commits, given \in Arguments :
        LET n == IF v = 0 THEN Compile!Latest ELSE v
            r == [pc |-> "frozen", is |-> "run", version |-> n, key |-> k, commit |-> commit, id |-> 0, given |-> given, input |-> 0]
        IN IF n = 0 \/ ~Compile!Resolves(version[n].schema, given)
           THEN Compile!Go(c, [pc |-> "refused", is |-> "run"])
           ELSE Compile!Go(c, [r EXCEPT !.given = Compile!Filled(version[n].schema, given)])
  BY DEF Compile!AskRun
<1>3. PICK n : n = IF v = 0 THEN Compile!Latest ELSE v
  OBVIOUS
<1>4. CASE Compile!Go(c, [pc |-> "refused", is |-> "run"])
  <2>1. PICK x : x = [pc |-> "refused", is |-> "run"]
    OBVIOUS
  <2>2. x.pc = "refused"
    BY <2>1
  <2>3. ClientOK(c, x)
    BY <2>2 DEF ClientOK, Waits
  <2> QED
    BY <1>1, <1>4, <2>1, <2>3, PlainClient
<1>5. CASE /\ n # 0
           /\ Compile!Go(c, [[pc |-> "frozen", is |-> "run", version |-> n, key |-> k, commit |-> commit, id |-> 0,
                              given |-> given, input |-> 0] EXCEPT !.given = Compile!Filled(version[n].schema, given)])
  <2>1. PICK r : r = [pc |-> "frozen", is |-> "run", version |-> n, key |-> k, commit |-> commit, id |-> 0,
                      given |-> given, input |-> 0]
    OBVIOUS
  <2>2. PICK x : x = [r EXCEPT !.given = Compile!Filled(version[n].schema, given)]
    OBVIOUS
  <2>3. x.pc = "frozen" /\ x.is = "run" /\ x.version = n /\ x.input = 0 /\ DOMAIN x = RunAsk
    BY <2>1, <2>2 DEF RunAsk
  <2>4. n \in DOMAIN version
    BY <1>3, <1>5 DEF DefinitionInv, VersionsOK
  <2>5. ClientOK(c, x)
    BY <2>3, <2>4 DEF ClientOK, Waits
  <2> QED
    BY <1>1, <1>5, <2>1, <2>2, <2>5, PlainClient
<1> QED
  BY <1>2, <1>3, <1>4, <1>5

(* Who brings a key that has a run is answered with it if that run is what was asked.  *)
LEMMA ReplayStep ==
  ASSUME DefinitionSettings, DefinitionInv, UNCHANGED Compile!stored, UNCHANGED lock, NEW c \in Clients,
         client[c].pc \in {"frozen", "replay"}, NEW r \in Compile!ByKey(client[c].key), Compile!Replay(c, r)
  PROVE  DefinitionInv'
<1>1. PICK o : o = client[c]
  OBVIOUS
<1>2. DOMAIN o = RunAsk /\ o.is = "run"
  BY <1>1 DEF DefinitionInv, ClientOK, Waits
<1>3. CASE Compile!Refuse(c)
  BY <1>3, RefuseStep
<1>4. CASE Compile!Matches(r, c) /\ Compile!Go(c, [o EXCEPT !.pc = "answered", !.id = r.id])
  <2>1. PICK x : x = [o EXCEPT !.pc = "answered", !.id = r.id]
    OBVIOUS
  <2>2. /\ x.pc = "answered" /\ x.is = "run" /\ x.id = r.id
        /\ x.version = o.version /\ x.commit = o.commit /\ x.given = o.given
    BY <1>2, <2>1 DEF RunAsk
  <2>3. r \in submitted /\ Compile!Asked(r) = Compile!Asked(x)
    BY <1>1, <1>4, <2>2 DEF Compile!ByKey, Compile!Matches, Compile!Asked
  <2>4. ClientOK(c, x)
    BY <2>2, <2>3 DEF ClientOK, Waits, Has
  <2> QED
    BY <1>4, <2>1, <2>4, PlainClient
<1> QED
  BY <1>1, <1>3, <1>4 DEF Compile!Replay

LEMMA CheckRunStep ==
  ASSUME DefinitionSettings, DefinitionInv, NEW c \in Clients, Compile!CheckRun(c)
  PROVE  DefinitionInv'
<1>1. UNCHANGED Compile!stored /\ UNCHANGED lock /\ client[c].pc = "frozen"
  BY DEF Compile!CheckRun
<1>2. PICK o : o = client[c]
  OBVIOUS
<1>3. DOMAIN o = RunAsk /\ o.is = "run" /\ o.version \in DOMAIN version /\ o.input = 0
  BY <1>1, <1>2 DEF DefinitionInv, ClientOK, Waits
<1>4. CASE Compile!Refuse(c)
  BY <1>1, <1>4, RefuseStep
<1>5. CASE \E r \in Compile!ByKey(o.key) : Compile!Replay(c, r)
  BY <1>1, <1>2, <1>5, ReplayStep
<1>6. CASE /\ \A n \in Compile!StepsOf(o) :
                job[n] # Compile!NoJob /\ Compile!Resolves(job[n].schema, Compile!ProjectValues(job[n].schema, o.given))
           /\ Compile!Go(c, [o EXCEPT !.pc = "input"])
  <2>1. PICK x : x = [o EXCEPT !.pc = "input"]
    OBVIOUS
  <2>2. /\ x.pc = "input" /\ x.is = "run" /\ x.version = o.version /\ x.given = o.given /\ x.input = 0 /\ DOMAIN x = RunAsk
    BY <1>3, <2>1 DEF RunAsk
  <2>3. Compile!StepsOf(x) = Compile!StepsOf(o) /\ Compile!StepsOf(o) \subseteq JobNames
    BY <1>3, <2>2 DEF Compile!StepsOf, DefinitionInv, VersionsOK, DefinitionSettings
  <2>4. Fixed(x)
    BY <1>3, <1>6, <2>2, <2>3 DEF Fixed
  <2>5. ClientOK(c, x)
    BY <1>3, <2>2, <2>4 DEF ClientOK, Waits
  <2> QED
    BY <1>1, <1>6, <2>1, <2>5, PlainClient
<1> QED
  BY <1>2, <1>4, <1>5, <1>6 DEF Compile!CheckRun

LEMMA ChooseInputStep ==
  ASSUME DefinitionSettings, DefinitionInv, NEW c \in Clients, Compile!ChooseInput(c)
  PROVE  DefinitionInv'
<1>1. UNCHANGED Compile!stored /\ client[c].pc = "input"
  BY DEF Compile!ChooseInput
<1>2. PICK o : o = client[c]
  OBVIOUS
<1>3. DOMAIN o = RunAsk /\ o.is = "run" /\ o.version \in DOMAIN version /\ o.input = 0 /\ Fixed(o)
  BY <1>1, <1>2 DEF DefinitionInv, ClientOK, Waits
<1>4. Grows /\ RunsGrow /\ JobsOK' /\ VersionsOK' /\ RunsOK' /\ Compile!Latest' = Compile!Latest /\ dataset' = dataset
  BY <1>1, NothingStored
<1>5. ASSUME NEW x, DOMAIN x = RunAsk, x.pc = "inserting", x.is = "run", x.version = o.version, x.given = o.given,
             IF TakesInput(o) THEN lock' = c /\ x.input = dataset ELSE x.input = 0
      PROVE  ClientOK(c, x)'
  <2>1. Fixed(x) /\ (TakesInput(x) <=> TakesInput(o))
    BY <1>3, <1>5 DEF Fixed, TakesInput, Compile!StepsOf
  <2>2. Fixed(x)' /\ (TakesInput(x)' <=> TakesInput(x))
    BY <1>4, <2>1, FixedKept
  <2> QED
    BY <1>4, <1>5, <2>1, <2>2 DEF ClientOK, Waits, Fixed
<1>6. CASE UNCHANGED lock /\ Compile!Refuse(c)
  BY <1>1, <1>6, RefuseStep
<1>7. CASE /\ TakesInput(o) /\ lock = "none"
           /\ Compile!Go(c, [o EXCEPT !.pc = "inserting", !.input = dataset])
           /\ lock' = IF Compile!Locks(c) THEN c ELSE lock
  <2>1. PICK x : x = [o EXCEPT !.pc = "inserting", !.input = dataset]
    OBVIOUS
  <2>2. /\ x.pc = "inserting" /\ x.is = "run" /\ x.version = o.version /\ x.given = o.given /\ x.input = dataset
        /\ DOMAIN x = RunAsk
    BY <1>3, <2>1 DEF RunAsk
  <2>3. lock' = c
    BY <1>2, <1>7 DEF Compile!Locks, TakesInput
  <2>4. ClientOK(c, x)'
    BY <1>5, <1>7, <2>2, <2>3
  <2>5. \A e \in Clients : e # c /\ lock = e => lock' = e
    BY <1>7 DEF DefinitionSettings
  <2> QED
    BY <1>4, <1>7, <2>1, <2>4, <2>5, OneClient
<1>8. CASE ~TakesInput(o) /\ Compile!Go(c, [o EXCEPT !.pc = "inserting"]) /\ UNCHANGED lock
  <2>1. PICK x : x = [o EXCEPT !.pc = "inserting"]
    OBVIOUS
  <2>2. /\ x.pc = "inserting" /\ x.is = "run" /\ x.version = o.version /\ x.given = o.given /\ x.input = 0
        /\ DOMAIN x = RunAsk
    BY <1>3, <2>1 DEF RunAsk
  <2>3. ClientOK(c, x)'
    BY <1>5, <1>8, <2>2
  <2> QED
    BY <1>4, <1>8, <2>1, <2>3, OneClient
<1> QED
  BY <1>2, <1>6, <1>7, <1>8 DEF Compile!ChooseInput, TakesInput, Compile!None

(* A run is new, with a number and a key nobody has, or somebody took the key.         *)
LEMMA InsertStep ==
  ASSUME DefinitionSettings, DefinitionInv, NEW c \in Clients, Compile!Insert(c)
  PROVE  DefinitionInv'
<1>1. UNCHANGED <<job, version, dataset>> /\ client[c].pc = "inserting"
  BY DEF Compile!Insert
<1>2. PICK o : o = client[c]
  OBVIOUS
<1>3. /\ DOMAIN o = RunAsk /\ o.is = "run" /\ o.version \in DOMAIN version /\ Fixed(o)
      /\ IF TakesInput(o) THEN lock = c /\ o.input = dataset ELSE o.input = 0
  BY <1>1, <1>2 DEF DefinitionInv, ClientOK, Waits
<1>4. \A e \in Clients : e # c /\ lock = e => lock' = e
  BY DEF Compile!Insert, Compile!Unlocked
<1>5. Grows /\ JobsOK' /\ VersionsOK' /\ Compile!Latest' = Compile!Latest
  BY <1>1 DEF Grows, DefinitionInv, JobsOK, VersionsOK, Compile!Latest
<1>6. CASE Compile!Go(c, [o EXCEPT !.pc = "replay"]) /\ UNCHANGED submitted
  <2>1. PICK x : x = [o EXCEPT !.pc = "replay"]
    OBVIOUS
  <2>2. x.pc = "replay" /\ x.is = "run" /\ x.version = o.version /\ x.given = o.given /\ DOMAIN x = RunAsk
    BY <1>3, <2>1 DEF RunAsk
  <2>3. Fixed(x)
    BY <1>3, <2>2 DEF Fixed, Compile!StepsOf
  <2>4. Fixed(x)'
    BY <1>5, <2>3, FixedKept
  <2>5. ClientOK(c, x)'
    BY <2>2, <2>4 DEF ClientOK, Waits, Fixed
  <2>6. RunsGrow /\ RunsOK'
    BY <1>1, <1>6, NothingStored DEF Compile!stored
  <2> QED
    BY <1>1, <1>4, <1>5, <1>6, <2>1, <2>5, <2>6, OneClient
<1>7. ASSUME NEW r, r = [id |-> Cardinality(submitted) + 1, version |-> o.version, key |-> o.key, commit |-> o.commit,
                         given |-> o.given, input |-> o.input, newest |-> dataset, spec |-> <<>>],
             Compile!ByKey(o.key) = {}, submitted' = submitted \cup {r},
             Compile!Go(c, [o EXCEPT !.pc = "answered", !.id = r.id])
      PROVE  DefinitionInv'
  <2>1. PICK k : k = Cardinality(submitted)
    OBVIOUS
  <2>2. k \in Nat /\ IsFiniteSet(submitted) /\ \A s \in submitted : s.id \in 1 .. k
    BY <2>1 DEF DefinitionInv, RunsOK
  <2>3. /\ r.id = k + 1 /\ r.version = o.version /\ r.key = o.key /\ r.commit = o.commit /\ r.given = o.given
        /\ r.input = o.input /\ r.newest = dataset /\ r.spec = <<>> /\ DOMAIN r = RunFields
    BY <1>7, <2>1 DEF RunFields
  <2>4. r \notin submitted
    BY <2>2, <2>3
  <2>5. IsFiniteSet(submitted') /\ Cardinality(submitted') = k + 1
    BY <1>7, <2>1, <2>2, <2>4, FS_AddElement
  <2>6. Fixed(r) /\ (TakesInput(r) <=> TakesInput(o))
    BY <1>3, <2>3 DEF Fixed, TakesInput, Compile!StepsOf
  <2>7. RunOK(r)
    BY <1>3, <2>3, <2>6 DEF RunOK
  <2>8. \A s \in submitted' : RunOK(s)'
    BY <1>5, <1>7, <2>7, RunKeptOK DEF DefinitionInv, RunsOK
  <2>9. \A s \in submitted' : s.id \in 1 .. (k + 1)
    BY <1>7, <2>2, <2>3
  <2>10. \A s, t \in submitted' : s.id = t.id => s = t
    BY <1>7, <2>2, <2>3 DEF DefinitionInv, RunsOK
  <2>11. \A s \in submitted : r.key # "none" => s.key # r.key
    BY <1>7, <2>3 DEF Compile!ByKey, Compile!None
  <2>12. \A s, t \in submitted' : s.key = t.key /\ s.key # "none" => s.id = t.id
    BY <1>7, <2>11 DEF DefinitionInv, RunsOK
  <2>13. RunsOK'
    BY <2>2, <2>5, <2>8, <2>9, <2>10, <2>12 DEF RunsOK
  <2>14. RunsGrow
    BY <1>7 DEF RunsGrow
  <2>15. PICK x : x = [o EXCEPT !.pc = "answered", !.id = r.id]
    OBVIOUS
  <2>16. /\ x.pc = "answered" /\ x.is = "run" /\ x.id = r.id
         /\ x.version = o.version /\ x.commit = o.commit /\ x.given = o.given
    BY <1>3, <2>15 DEF RunAsk
  <2>17. r \in submitted' /\ r.id = x.id /\ Compile!Asked(r) = Compile!Asked(x)
    BY <1>7, <2>3, <2>16 DEF Compile!Asked
  <2>18. Has(x)'
    BY <2>16, <2>17 DEF Has, Compile!Asked
  <2>19. ClientOK(c, x)'
    BY <2>16, <2>18 DEF ClientOK, Waits
  <2> QED
    BY <1>1, <1>4, <1>5, <1>7, <2>13, <2>14, <2>15, <2>19, OneClient
<1> QED
  BY <1>2, <1>6, <1>7, SameCount DEF Compile!Insert

LEMMA ReplayWinnerStep ==
  ASSUME DefinitionSettings, DefinitionInv, NEW c \in Clients, Compile!ReplayWinner(c)
  PROVE  DefinitionInv'
<1>1. UNCHANGED Compile!stored /\ UNCHANGED lock /\ client[c].pc = "replay"
  BY DEF Compile!ReplayWinner
<1>2. PICK r \in Compile!ByKey(client[c].key) : Compile!Replay(c, r)
  BY DEF Compile!ReplayWinner
<1> QED
  BY <1>1, <1>2, ReplayStep

LEMMA ReadAnswerStep ==
  ASSUME DefinitionSettings, DefinitionInv, NEW c \in Clients, Compile!Read(c)
  PROVE  DefinitionInv'
<1>1. UNCHANGED Compile!stored /\ UNCHANGED lock /\ Compile!Go(c, Compile!Idle)
  BY DEF Compile!Read
<1>2. PICK x : x = Compile!Idle
  OBVIOUS
<1>3. x.pc = "idle"
  BY <1>2 DEF Compile!Idle
<1>4. ClientOK(c, x)
  BY <1>3 DEF ClientOK, Waits
<1> QED
  BY <1>1, <1>2, <1>4, PlainClient

(* A dataset is published while nobody holds the lock: no insert is under way that     *)
(* takes one.                                                                          *)
LEMMA PublishStep ==
  ASSUME DefinitionSettings, DefinitionInv, Compile!PublishDataset
  PROVE  DefinitionInv'
<1>1. UNCHANGED <<job, version, submitted, lock, client>> /\ lock = "none" /\ dataset' = dataset + 1
  BY DEF Compile!PublishDataset, Compile!None
<1>2. Grows /\ RunsGrow /\ JobsOK' /\ VersionsOK' /\ Compile!Latest' = Compile!Latest
  BY <1>1 DEF Grows, RunsGrow, DefinitionInv, JobsOK, VersionsOK, Compile!Latest
<1>3. RunsOK'
  <2>1. \A r \in submitted : RunOK(r)'
    BY <1>2, RunKeptOK DEF DefinitionInv, RunsOK
  <2> QED
    BY <1>1, <2>1 DEF DefinitionInv, RunsOK
<1>4. ASSUME NEW c \in Clients PROVE ClientOK(c, client[c])'
  <2>1. PICK x : x = client[c]
    OBVIOUS
  <2>2. Waits(c, x)'
    BY <1>1, <1>2, <2>1, WaitsKept DEF DefinitionInv, ClientOK, DefinitionSettings
  <2>3. x.pc = "answered" => Has(x)'
    BY <1>2, <2>1, HasKept DEF DefinitionInv, ClientOK
  <2> QED
    BY <1>1, <2>1, <2>2, <2>3 DEF ClientOK, Waits, Has
<1> QED
  BY <1>1, <1>2, <1>3, <1>4 DEF DefinitionInv

(* Compiled again, a run is what it was.                                               *)
LEMMA SubmitStep ==
  ASSUME DefinitionSettings, DefinitionInv, Compile!Submit
  PROVE  DefinitionInv'
<1>1. UNCHANGED <<job, version, dataset, lock, client>>
  BY DEF Compile!Submit
<1>2. Grows /\ JobsOK' /\ VersionsOK' /\ Compile!Latest' = Compile!Latest
  BY <1>1 DEF Grows, DefinitionInv, JobsOK, VersionsOK, Compile!Latest
<1>3. PICK r \in submitted : submitted' = (submitted \ {r}) \cup {[r EXCEPT !.spec = Compile!Compile(r)]}
  BY DEF Compile!Submit
<1>4. PICK s : s = [r EXCEPT !.spec = Compile!Compile(r)]
  OBVIOUS
<1>5. RunOK(r) /\ r.id \in 1 .. Cardinality(submitted)
  BY DEF DefinitionInv, RunsOK
<1>6. /\ s.id = r.id /\ s.version = r.version /\ s.key = r.key /\ s.commit = r.commit /\ s.given = r.given
      /\ s.input = r.input /\ s.newest = r.newest /\ s.spec = Compile!Compile(r) /\ DOMAIN s = RunFields
  BY <1>4, <1>5 DEF RunOK, RunFields
<1>7. Fixed(s) /\ (TakesInput(s) <=> TakesInput(r)) /\ Compile!Compile(s) = Compile!Compile(r)
  BY <1>5, <1>6 DEF RunOK, Fixed, TakesInput, Compile!StepsOf, Compile!Compile, Compile!CompiledStep
<1>8. RunOK(s)
  BY <1>5, <1>6, <1>7 DEF RunOK
<1>9. PICK k : k = Cardinality(submitted)
  OBVIOUS
<1>10. k \in Nat /\ IsFiniteSet(submitted)
  BY <1>9 DEF DefinitionInv, RunsOK
<1>11. s \notin submitted \ {r}
  BY <1>6 DEF DefinitionInv, RunsOK
<1>12. IsFiniteSet(submitted') /\ Cardinality(submitted') = k
  <2>1. IsFiniteSet(submitted \ {r}) /\ Cardinality(submitted \ {r}) = k - 1
    BY <1>9, <1>10, FS_RemoveElement
  <2>2. IsFiniteSet((submitted \ {r}) \cup {s}) /\ Cardinality((submitted \ {r}) \cup {s}) = (k - 1) + 1
    BY <1>11, <2>1, FS_AddElement
  <2> QED
    BY <1>3, <1>4, <1>10, <2>2
<1>13. \A t \in submitted' : RunOK(t)'
  BY <1>2, <1>3, <1>4, <1>8, RunKeptOK DEF DefinitionInv, RunsOK
<1>14. \A t \in submitted' : t = s \/ t \in submitted
  BY <1>3, <1>4
<1>15. \A t \in submitted' : t.id \in 1 .. k
  BY <1>5, <1>6, <1>9, <1>14 DEF DefinitionInv, RunsOK
<1>16. \A t, u \in submitted' : t.id = u.id => t = u
  <2>1. \A t \in submitted' : t = s \/ (t \in submitted /\ t # r)
    BY <1>3, <1>4
  <2>2. \A t \in submitted : t # r => t.id # s.id
    BY <1>6 DEF DefinitionInv, RunsOK
  <2> QED
    BY <2>1, <2>2 DEF DefinitionInv, RunsOK
<1>17. \A t, u \in submitted' : t.key = u.key /\ t.key # "none" => t.id = u.id
  BY <1>6, <1>14 DEF DefinitionInv, RunsOK
<1>18. RunsOK'
  BY <1>10, <1>12, <1>13, <1>15, <1>16, <1>17 DEF RunsOK
<1>19. RunsGrow
  <2> SUFFICES ASSUME NEW t \in submitted PROVE \E u \in submitted' : u.id = t.id /\ Compile!Asked(u) = Compile!Asked(t)
    BY DEF RunsGrow
  <2>1. CASE t = r
    BY <1>3, <1>4, <1>6, <2>1 DEF Compile!Asked
  <2>2. CASE t # r
    BY <1>3, <2>2
  <2> QED
    BY <2>1, <2>2
<1>20. ASSUME NEW c \in Clients PROVE ClientOK(c, client[c])'
  <2>1. PICK x : x = client[c]
    OBVIOUS
  <2>2. Waits(c, x)'
    BY <1>1, <1>2, <2>1, WaitsKept DEF DefinitionInv, ClientOK
  <2>3. x.pc = "answered" => Has(x)'
    BY <1>2, <1>19, <2>1, HasKept DEF DefinitionInv, ClientOK
  <2> QED
    BY <1>1, <2>1, <2>2, <2>3 DEF ClientOK, Waits, Has
<1> QED
  BY <1>1, <1>2, <1>18, <1>20 DEF DefinitionInv

LEMMA DefinitionStep == DefinitionSettings /\ DefinitionInv /\ [Compile!Next]_(Compile!vars) => DefinitionInv'
<1> SUFFICES ASSUME DefinitionSettings, DefinitionInv, [Compile!Next]_(Compile!vars) PROVE DefinitionInv'
  OBVIOUS
<1>1. CASE UNCHANGED Compile!vars
  <2>1. UNCHANGED Compile!stored /\ UNCHANGED <<lock, client>>
    BY <1>1 DEF Compile!vars
  <2>2. Grows /\ RunsGrow /\ JobsOK' /\ VersionsOK' /\ RunsOK' /\ Compile!Latest' = Compile!Latest /\ dataset' = dataset
    BY <2>1, NothingStored
  <2>3. ASSUME NEW c \in Clients PROVE ClientOK(c, client[c])'
    <3>1. PICK x : x = client[c]
      OBVIOUS
    <3>2. Waits(c, x)'
      BY <2>1, <2>2, <3>1, WaitsKept DEF DefinitionInv, ClientOK
    <3>3. x.pc = "answered" => Has(x)'
      BY <2>2, <3>1, HasKept DEF DefinitionInv, ClientOK
    <3> QED
      BY <2>1, <3>1, <3>2, <3>3 DEF ClientOK, Waits, Has
  <2> QED
    BY <2>1, <2>2, <2>3 DEF DefinitionInv
<1>2. ASSUME NEW c \in Clients, Compile!Serve(c) PROVE DefinitionInv'
  BY <1>2, CreateJobStep, AskPipelineStep, ReadPipelineStep, AddPipelineStep, AskRunStep, CheckRunStep, ChooseInputStep,
     InsertStep, ReplayWinnerStep, ReadAnswerStep DEF Compile!Serve
<1> QED
  BY <1>1, <1>2, PublishStep, SubmitStep DEF Compile!Next

LEMMA WhatIsDefinedStays ==
  ASSUME DefinitionSettings
  PROVE  Compile!Init /\ [][Compile!Next]_(Compile!vars) => [](Compile!DefinitionsAreKept /\ Compile!RunsAreFrozen)
<1>1. DefinitionInv => Compile!DefinitionsAreKept
  <2> SUFFICES ASSUME DefinitionInv PROVE Compile!DefinitionsAreKept
    OBVIOUS
  <2>1. \A c \in Compile!Answered("job") : job[client[c].name] = client[c].content
    BY DEF Compile!Answered, DefinitionInv, ClientOK, Has
  <2>2. \A c \in Compile!Answered("pipeline") : version[client[c].next] = client[c].content
    BY DEF Compile!Answered, DefinitionInv, ClientOK, Has
  <2>3. ASSUME NEW c \in Compile!Answered("run") PROVE Compile!Asked(Compile!RunOf(c)) = Compile!Asked(client[c])
    <3>1. PICK r \in submitted : r.id = client[c].id /\ Compile!Asked(r) = Compile!Asked(client[c])
      BY DEF Compile!Answered, DefinitionInv, ClientOK, Has
    <3>2. Compile!RunOf(c) = r
      BY <3>1 DEF Compile!RunOf, DefinitionInv, RunsOK
    <3> QED
      BY <3>1, <3>2
  <2> QED
    BY <2>1, <2>2, <2>3 DEF DefinitionInv, VersionsOK, RunsOK, Compile!DefinitionsAreKept, Compile!None
<1>2. DefinitionInv => Compile!RunsAreFrozen
  <2> SUFFICES ASSUME DefinitionInv, NEW r \in submitted
               PROVE  /\ (\E n \in Compile!StepsOf(r) : Compile!Dynamic(n)) => r.input = r.newest
                      /\ r.spec # <<>> =>
                           /\ DOMAIN r.spec = version[r.version].steps
                           /\ \A n \in DOMAIN r.spec :
                                /\ r.spec[n].job \in Jobs /\ r.spec[n].input \in {0, r.newest}
                                /\ Compile!Resolves(r.spec[n].job.schema, r.spec[n].values)
    BY DEF Compile!RunsAreFrozen
  <2>1. RunOK(r)
    BY DEF DefinitionInv, RunsOK
  <2>2. ASSUME r.spec # <<>>, NEW n \in Compile!StepsOf(r)
        PROVE  /\ r.spec[n].job \in Jobs /\ r.spec[n].input \in {0, r.newest}
               /\ Compile!Resolves(r.spec[n].job.schema, r.spec[n].values)
    <3>1. r.spec[n] = Compile!CompiledStep(r, n)
      BY <2>1, <2>2 DEF RunOK, Compile!Compile
    <3>2. r.spec[n].job = job[n] /\ r.spec[n].values = Compile!ProjectValues(job[n].schema, r.given)
          /\ r.spec[n].input \in {0, r.input}
      BY <3>1 DEF Compile!CompiledStep
    <3>3. job[n] \in Jobs
      BY <2>1, <2>2 DEF RunOK, Fixed, DefinitionInv, JobsOK
    <3> QED
      BY <2>1, <3>2, <3>3 DEF RunOK, Fixed
  <2>3. r.spec # <<>> => DOMAIN r.spec = Compile!StepsOf(r)
    BY <2>1 DEF RunOK, Compile!Compile
  <2> QED
    BY <2>1, <2>2, <2>3 DEF RunOK, TakesInput, Compile!StepsOf
<1> QED
  BY <1>1, <1>2, InitDefinitions, DefinitionStep, PTL

-----------------------------------------------------------------------------
(* The catalog (Catalog.tla): versions, their order and what is asked of them.         *)
CatalogSettings == "none" \notin Asks /\ MaxLooks \in Nat

IssueRow == [content: Files, by: Nat, over: Nat, input: Nat]

(* A client that published once will not publish again: what it expects is behind.     *)
PublisherOK(x) ==
  /\ DOMAIN x = {"pc", "is", "id", "content", "expected", "told"}
  /\ x.id \in 1 .. looks /\ x.content \in Files /\ x.expected \in 0 .. Len(issue)
  /\ \A i \in 1 .. Len(issue) : issue[i].by = x.id => x.expected < Len(issue)
  /\ x.pc = "answered" => x.told \in 1 .. Len(issue) /\ issue[x.told].content = x.content

AskerOK(x) ==
  /\ DOMAIN x = {"pc", "is", "spec", "found"}
  /\ x.spec \in Asks
  /\ x.pc = "refused" /\ ready => x.spec # x.found.spec

ReaderOK(x) ==
  /\ x.pc \in {"idle", "publish", "create", "answered", "refused"}
  /\ x.pc # "idle" => x.is \in {"dataset", "batch"}
  /\ x.pc = "publish" => x.is = "dataset"
  /\ x.pc = "create" => x.is = "batch"
  /\ x.pc # "idle" /\ x.is = "dataset" => PublisherOK(x)
  /\ x.pc # "idle" /\ x.is = "batch" => AskerOK(x)

Publishes(x) == x.pc # "idle" /\ x.is = "dataset"

CatalogInv ==
  /\ issue \in Seq(IssueRow) /\ looks \in Nat /\ looks <= MaxLooks /\ moves \in Nat
  /\ \A i \in 1 .. Len(issue) : issue[i].by \in 1 .. looks \cup MaxLooks + 1 .. MaxLooks + moves
  /\ \A i, j \in 1 .. Len(issue) : issue[i].by = issue[j].by => i = j
  /\ \A i \in 1 .. Len(issue) : issue[i].over = i - 1 /\ issue[i].input < i
  /\ \A e \in execution :
       /\ e.id \in MaxLooks + 1 .. MaxLooks + moves /\ e.input \in 0 .. Len(issue)
       /\ \A i \in 1 .. Len(issue) : issue[i].by # e.id
  /\ \A e, f \in execution : e.id = f.id => e = f
  /\ batch # Data!NoJob => /\ batch = [spec |-> batch.spec, uri |-> batch.uri]
                           /\ batch.uri \in Located /\ Len(issue) > 0
  /\ DOMAIN reader = Clients
  /\ \A c \in Clients : ReaderOK(reader[c])
  /\ \A c, d \in Clients : Publishes(reader[c]) /\ Publishes(reader[d]) /\ reader[c].id = reader[d].id => c = d

LEMMA InitCatalog == CatalogSettings /\ Data!Init => CatalogInv
<1> SUFFICES ASSUME CatalogSettings, Data!Init PROVE CatalogInv
  OBVIOUS
<1>1. issue = <<>> /\ Len(issue) = 0 /\ issue \in Seq(IssueRow)
  BY DEF Data!Init
<1>2. DOMAIN reader = Clients /\ \A c \in Clients : reader[c].pc = "idle"
  BY DEF Data!Init, Data!Idle
<1>3. looks = 0 /\ moves = 0 /\ execution = {} /\ batch = Data!NoJob
  BY DEF Data!Init
<1> QED
  BY <1>1, <1>2, <1>3 DEF CatalogInv, CatalogSettings, ReaderOK, Publishes

(* One reader moves and publishes nothing.                                             *)
LEMMA OneReader ==
  ASSUME CatalogInv, UNCHANGED <<ready, issue, execution, moves>>, NEW c \in Clients, NEW x, Data!Go(c, x), ReaderOK(x)',
         looks' \in {looks, looks + 1} /\ looks' <= MaxLooks,
         Publishes(x) => \/ Publishes(reader[c]) /\ x.id = reader[c].id
                         \/ looks' = looks + 1 /\ x.id = looks',
         batch' = batch \/ (batch' = [spec |-> batch'.spec, uri |-> batch'.uri] /\ batch'.uri \in Located /\ Len(issue) > 0)
  PROVE  CatalogInv'
<1>1. DOMAIN reader' = Clients /\ reader'[c] = x /\ \A e \in Clients : e # c => reader'[e] = reader[e]
  BY DEF CatalogInv, Data!Go
<1>2. /\ looks \in Nat /\ looks' \in Nat /\ looks' >= looks /\ Len(issue) \in Nat
  BY DEF CatalogInv
<1>3. ASSUME NEW y, ReaderOK(y) PROVE ReaderOK(y)'
  <2>1. PublisherOK(y) => PublisherOK(y)'
    BY <1>2 DEF PublisherOK
  <2>2. AskerOK(y) => AskerOK(y)'
    BY DEF AskerOK
  <2> QED
    BY <1>3, <2>1, <2>2 DEF ReaderOK
<1>4. ASSUME NEW e \in Clients PROVE ReaderOK(reader[e])'
  <2>1. CASE e = c
    BY <1>1, <2>1 DEF ReaderOK, PublisherOK, AskerOK
  <2>2. CASE e # c
    <3>1. PICK y : y = reader[e]
      OBVIOUS
    <3>2. ReaderOK(y)'
      BY <1>3, <3>1 DEF CatalogInv
    <3> QED
      BY <1>1, <2>2, <3>1, <3>2 DEF ReaderOK, PublisherOK, AskerOK
  <2> QED
    BY <2>1, <2>2
<1>5. \A e \in Clients : Publishes(reader[e]) => reader[e].id \in 1 .. looks
  BY DEF CatalogInv, Publishes, ReaderOK, PublisherOK
<1>6. ASSUME NEW e \in Clients, NEW d \in Clients, Publishes(reader'[e]), Publishes(reader'[d]), reader'[e].id = reader'[d].id
      PROVE  e = d
  <2>1. CASE e # c /\ d # c
    BY <1>1, <1>6, <2>1 DEF CatalogInv, Publishes
  <2>2. CASE e = c /\ d # c
    <3>1. Publishes(reader[d]) /\ reader[d].id = x.id /\ Publishes(x)
      BY <1>1, <1>6, <2>2
    <3>2. x.id # looks + 1
      BY <1>2, <1>5, <3>1
    <3> QED
      BY <2>2, <3>1, <3>2 DEF CatalogInv
  <2>3. CASE e # c /\ d = c
    <3>1. Publishes(reader[e]) /\ reader[e].id = x.id /\ Publishes(x)
      BY <1>1, <1>6, <2>3
    <3>2. x.id # looks + 1
      BY <1>2, <1>5, <3>1
    <3> QED
      BY <2>3, <3>1, <3>2 DEF CatalogInv
  <2> QED
    BY <2>1, <2>2, <2>3
<1>7. \A i \in 1 .. Len(issue') : issue'[i].by \in 1 .. looks' \cup MaxLooks + 1 .. MaxLooks + moves'
  BY <1>2 DEF CatalogInv
<1> QED
  BY <1>1, <1>2, <1>4, <1>6, <1>7 DEF CatalogInv, Publishes

LEMMA SeeStep ==
  ASSUME CatalogSettings, CatalogInv, NEW c \in Clients, Data!See(c)
  PROVE  CatalogInv'
<1>1. UNCHANGED <<ready, issue, batch, execution, moves>> /\ looks < MaxLooks /\ looks' = looks + 1 /\ looks \in Nat /\ Len(issue) \in Nat
  BY DEF Data!See, CatalogInv
<1>2. PICK content \in Files :
        Data!Go(c, [pc |-> "publish", is |-> "dataset", id |-> looks', content |-> content, expected |-> Len(issue), told |-> 0])
  BY DEF Data!See, Data!Latest
<1>3. PICK x : x = [pc |-> "publish", is |-> "dataset", id |-> looks', content |-> content, expected |-> Len(issue), told |-> 0]
  OBVIOUS
<1>4. /\ x.pc = "publish" /\ x.is = "dataset" /\ x.id = looks' /\ x.content = content /\ x.expected = Len(issue)
      /\ DOMAIN x = {"pc", "is", "id", "content", "expected", "told"}
  BY <1>3
<1>5. \A i \in 1 .. Len(issue) : issue[i].by # x.id
  <2> SUFFICES ASSUME NEW i \in 1 .. Len(issue) PROVE issue[i].by # looks + 1
    BY <1>1, <1>4
  <2>1. /\ issue[i].by \in 1 .. looks \cup MaxLooks + 1 .. MaxLooks + moves
        /\ MaxLooks \in Nat /\ moves \in Nat
    BY DEF CatalogInv, CatalogSettings
  <2>2. PICK n : n = issue[i].by
    OBVIOUS
  <2>3. n \in 1 .. looks \/ n \in MaxLooks + 1 .. MaxLooks + moves
    BY <2>1, <2>2
  <2>4. n # looks + 1
    BY <1>1, <2>1, <2>3
  <2> QED
    BY <2>2, <2>4
<1>6. PublisherOK(x)'
  BY <1>1, <1>4, <1>5 DEF PublisherOK
<1>7. ReaderOK(x)'
  BY <1>4, <1>6 DEF ReaderOK
<1>8. looks' <= MaxLooks /\ looks' \in {looks, looks + 1}
  BY <1>1 DEF CatalogSettings
<1> QED
  BY <1>1, <1>2, <1>3, <1>4, <1>7, <1>8, OneReader

LEMMA AskBatchStep ==
  ASSUME CatalogSettings, CatalogInv, NEW c \in Clients, Data!AskBatch(c)
  PROVE  CatalogInv'
<1>1. UNCHANGED <<ready, issue, batch, execution, moves>> /\ looks < MaxLooks /\ looks' = looks + 1
  BY DEF Data!AskBatch
<1>2. PICK spec_ \in Asks : Data!Go(c, [pc |-> "create", is |-> "batch", spec |-> spec_, found |-> Data!NoJob])
  BY DEF Data!AskBatch
<1>3. PICK x : x = [pc |-> "create", is |-> "batch", spec |-> spec_, found |-> Data!NoJob]
  OBVIOUS
<1>4. x.pc = "create" /\ x.is = "batch" /\ x.spec = spec_ /\ DOMAIN x = {"pc", "is", "spec", "found"}
  BY <1>3
<1>5. ReaderOK(x)'
  BY <1>4 DEF ReaderOK, AskerOK
<1>6. looks' <= MaxLooks /\ looks' \in {looks, looks + 1}
  <2>1. looks \in Nat /\ MaxLooks \in Nat
    BY DEF CatalogInv, CatalogSettings
  <2> QED
    BY <1>1, <2>1
<1> QED
  BY <1>1, <1>2, <1>3, <1>4, <1>5, <1>6, OneReader DEF Publishes

LEMMA RepeatStep ==
  ASSUME CatalogInv, NEW c \in Clients, Data!Repeat(c) \/ Data!Read(c)
  PROVE  CatalogInv'
<1>1. UNCHANGED <<ready, issue, batch, execution, moves, looks>> /\ reader[c].pc \in {"answered", "refused"}
  BY DEF Data!Repeat, Data!Read
<1>2. PICK o : o = reader[c]
  OBVIOUS
<1>3. ReaderOK(o)
  BY <1>2 DEF CatalogInv
<1>4. looks' <= MaxLooks
  BY <1>1 DEF CatalogInv
<1>5. CASE Data!Read(c)
  <2>1. PICK x : x = Data!Idle
    OBVIOUS
  <2>2. x.pc = "idle"
    BY <2>1 DEF Data!Idle
  <2>3. ReaderOK(x)'
    BY <2>2 DEF ReaderOK
  <2>4. Data!Go(c, x)
    BY <1>5, <2>1 DEF Data!Read
  <2> QED
    BY <1>1, <1>4, <2>2, <2>3, <2>4, OneReader DEF Publishes
<1>6. CASE Data!Repeat(c)
  <2>1. PICK x : x = [o EXCEPT !.pc = IF o.is = "dataset" THEN "publish" ELSE "create"]
    OBVIOUS
  <2>2. Data!Go(c, x)
    BY <1>2, <1>6, <2>1 DEF Data!Repeat
  <2>3. CASE o.is = "dataset"
    <3>1. PublisherOK(o)
      BY <1>1, <1>2, <1>3, <2>3 DEF ReaderOK
    <3>2. /\ x.pc = "publish" /\ x.is = "dataset" /\ x.id = o.id /\ x.content = o.content /\ x.expected = o.expected
          /\ x.told = o.told /\ DOMAIN x = DOMAIN o
      BY <2>1, <2>3, <3>1 DEF PublisherOK
    <3>3. PublisherOK(x)'
      BY <1>1, <3>1, <3>2 DEF PublisherOK
    <3>4. ReaderOK(x)'
      BY <3>2, <3>3 DEF ReaderOK
    <3>5. Publishes(reader[c])
      BY <1>1, <1>2, <2>3 DEF Publishes
    <3> QED
      BY <1>1, <1>2, <1>4, <2>2, <3>2, <3>4, <3>5, OneReader
  <2>4. CASE o.is # "dataset"
    <3>1. AskerOK(o) /\ o.is = "batch"
      BY <1>1, <1>2, <1>3, <2>4 DEF ReaderOK
    <3>2. x.pc = "create" /\ x.is = "batch" /\ x.spec = o.spec /\ DOMAIN x = DOMAIN o
      BY <2>1, <2>4, <3>1 DEF AskerOK
    <3>3. ReaderOK(x)'
      BY <3>1, <3>2 DEF ReaderOK, AskerOK
    <3> QED
      BY <1>1, <1>4, <2>2, <3>2, <3>3, OneReader DEF Publishes
  <2> QED
    BY <2>3, <2>4
<1> QED
  BY <1>5, <1>6

(* A request for the job is refused, in a project that is READY, only if another job   *)
(* exists: the place of a job that exists is not looked up again.                      *)
LEMMA CreateBatchStep ==
  ASSUME CatalogSettings, CatalogInv, NEW c \in Clients, Data!CreateBatch(c)
  PROVE  CatalogInv'
<1>1. UNCHANGED <<ready, issue, execution, moves, looks>> /\ reader[c].pc = "create"
  BY DEF Data!CreateBatch
<1>2. PICK o, l : o = reader[c] /\ l = Data!Uri
  OBVIOUS
<1>3. PICK made : made = [spec |-> o.spec, uri |-> l]
  OBVIOUS
<1>4. DEFINE usable == ready /\ Len(issue) > 0 /\ l \in Located
<1>5. /\ batch' = IF usable /\ batch = Data!NoJob THEN made ELSE batch
      /\ Data!Go(c, [o EXCEPT !.pc = IF usable /\ batch' = made THEN "answered" ELSE "refused", !.found = batch])
  BY <1>2, <1>3 DEF Data!CreateBatch, Data!Latest
<1>6. AskerOK(o) /\ o.is = "batch"
  BY <1>1, <1>2 DEF CatalogInv, ReaderOK
<1>7. PICK x : x = [o EXCEPT !.pc = IF usable /\ batch' = made THEN "answered" ELSE "refused", !.found = batch]
  OBVIOUS
<1>8. /\ x.pc = (IF usable /\ batch' = made THEN "answered" ELSE "refused") /\ x.is = "batch" /\ x.spec = o.spec
      /\ x.found = batch /\ DOMAIN x = DOMAIN o
  BY <1>6, <1>7 DEF AskerOK
<1>9. ASSUME ready, ~(usable /\ batch' = made) PROVE o.spec # batch.spec
  <2>1. CASE batch = Data!NoJob
    <3>1. batch.spec = "none"
      BY <2>1 DEF Data!NoJob, Data!None
    <3> QED
      BY <1>6, <3>1 DEF AskerOK, CatalogSettings
  <2>2. CASE batch # Data!NoJob
    <3>1. l = batch.uri /\ batch = [spec |-> batch.spec, uri |-> batch.uri] /\ usable
      BY <1>2, <1>9, <2>2 DEF Data!Uri, CatalogInv
    <3>2. batch' = batch
      BY <1>5, <2>2
    <3> QED
      BY <1>3, <1>9, <3>1, <3>2
  <2> QED
    BY <2>1, <2>2
<1>10. x.pc \in {"answered", "refused"} /\ (x.pc = "refused" /\ ready => o.spec # batch.spec)
  BY <1>8, <1>9
<1>11. AskerOK(x)'
  BY <1>1, <1>6, <1>8, <1>10 DEF AskerOK
<1>12. ReaderOK(x)'
  BY <1>8, <1>10, <1>11 DEF ReaderOK
<1>13. batch' = batch \/ (batch' = [spec |-> batch'.spec, uri |-> batch'.uri] /\ batch'.uri \in Located /\ Len(issue) > 0)
  BY <1>3, <1>5
<1>14. ~Publishes(x) /\ looks' <= MaxLooks
  BY <1>1, <1>8 DEF Publishes, CatalogInv
<1> QED
  BY <1>1, <1>5, <1>7, <1>12, <1>13, <1>14, OneReader

LEMMA Added ==
  ASSUME CatalogInv, NEW row \in IssueRow, issue' = Append(issue, row)
  PROVE  /\ issue' \in Seq(IssueRow) /\ Len(issue') = Len(issue) + 1 /\ Len(issue) \in Nat
         /\ \A i \in 1 .. Len(issue) : issue'[i] = issue[i]
         /\ issue'[Len(issue) + 1] = row
         /\ \A i \in 1 .. Len(issue') : i \in 1 .. Len(issue) \/ i = Len(issue) + 1
<1>1. issue \in Seq(IssueRow) /\ Len(issue) \in Nat
  BY DEF CatalogInv
<1>2. issue' \in Seq(IssueRow) /\ Len(issue') = Len(issue) + 1
  BY <1>1
<1>3. \A i \in 1 .. Len(issue) : issue'[i] = issue[i]
  BY <1>1
<1>4. issue'[Len(issue) + 1] = row
  BY <1>1
<1> QED
  BY <1>1, <1>2, <1>3, <1>4

(* A version more, made by nobody who made one before, of one that was there.          *)
LEMMA AddedRows ==
  ASSUME CatalogInv, NEW row \in IssueRow, issue' = Append(issue, row), UNCHANGED <<looks, moves>>,
         row.by \in 1 .. looks \cup MaxLooks + 1 .. MaxLooks + moves,
         \A i \in 1 .. Len(issue) : issue[i].by # row.by,
         row.over = Len(issue), row.input <= Len(issue)
  PROVE  /\ issue' \in Seq(IssueRow)
         /\ \A i \in 1 .. Len(issue') : issue'[i].by \in 1 .. looks' \cup MaxLooks + 1 .. MaxLooks + moves'
         /\ \A i, j \in 1 .. Len(issue') : issue'[i].by = issue'[j].by => i = j
         /\ \A i \in 1 .. Len(issue') : issue'[i].over = i - 1 /\ issue'[i].input < i
<1>1. PICK n : n = Len(issue)
  OBVIOUS
<1>2. /\ issue' \in Seq(IssueRow) /\ Len(issue') = n + 1 /\ n \in Nat
      /\ \A i \in 1 .. n : issue'[i] = issue[i]
      /\ issue'[n + 1] = row
      /\ \A i \in 1 .. Len(issue') : i \in 1 .. n \/ i = n + 1
  BY <1>1, Added
<1>3. \A i \in 1 .. Len(issue') : issue'[i].by \in 1 .. looks' \cup MaxLooks + 1 .. MaxLooks + moves'
  BY <1>1, <1>2 DEF CatalogInv
<1>4. \A i, j \in 1 .. Len(issue') : issue'[i].by = issue'[j].by => i = j
  BY <1>1, <1>2 DEF CatalogInv
<1>5. \A i \in 1 .. n : issue[i].over = i - 1 /\ issue[i].input < i
  BY <1>1 DEF CatalogInv
<1>6. row.over = (n + 1) - 1 /\ row.input < n + 1
  BY <1>1, <1>2 DEF IssueRow
<1>7. \A i \in 1 .. Len(issue') : issue'[i].over = i - 1 /\ issue'[i].input < i
  BY <1>2, <1>5, <1>6
<1> QED
  BY <1>2, <1>3, <1>4, <1>7

(* What others expected stays behind when a version is added that is not theirs.       *)
LEMMA AddedReader ==
  ASSUME CatalogInv, NEW row \in IssueRow, issue' = Append(issue, row), UNCHANGED <<looks, ready>>,
         NEW y, ReaderOK(y), Publishes(y) => y.id # row.by
  PROVE  ReaderOK(y)'
<1>1. PICK n : n = Len(issue)
  OBVIOUS
<1>2. /\ Len(issue') = n + 1 /\ n \in Nat
      /\ \A i \in 1 .. n : issue'[i] = issue[i]
      /\ issue'[n + 1] = row
      /\ \A i \in 1 .. Len(issue') : i \in 1 .. n \/ i = n + 1
  BY <1>1, Added
<1>3. ASSUME PublisherOK(y), Publishes(y) PROVE PublisherOK(y)'
  <2>1. y.expected \in 0 .. n /\ (\A i \in 1 .. n : issue[i].by = y.id => y.expected < n)
    BY <1>1, <1>3 DEF PublisherOK
  <2>2. \A i \in 1 .. Len(issue') : issue'[i].by = y.id => y.expected < Len(issue')
    BY <1>2, <1>3, <2>1
  <2>3. y.expected \in 0 .. Len(issue')
    BY <1>2, <2>1
  <2>4. y.pc = "answered" => y.told \in 1 .. Len(issue') /\ issue'[y.told].content = y.content
    BY <1>1, <1>2, <1>3 DEF PublisherOK
  <2> QED
    BY <1>3, <2>2, <2>3, <2>4 DEF PublisherOK
<1> QED
  BY <1>3 DEF ReaderOK, AskerOK, Publishes

LEMMA PublishDatasetStep ==
  ASSUME CatalogSettings, CatalogInv, NEW c \in Clients, Data!Publish(c)
  PROVE  CatalogInv'
<1>1. UNCHANGED <<ready, batch, execution, looks, moves>> /\ reader[c].pc = "publish"
  BY DEF Data!Publish
<1>2. PICK o, n : o = reader[c] /\ n = Len(issue)
  OBVIOUS
<1>3. PublisherOK(o) /\ o.is = "dataset" /\ Publishes(reader[c]) /\ n \in Nat
  BY <1>1, <1>2 DEF CatalogInv, ReaderOK, Publishes
<1>4. looks' <= MaxLooks
  BY <1>1 DEF CatalogInv
<1>5. CASE UNCHANGED issue /\ Data!Go(c, [o EXCEPT !.pc = "refused"])
  <2>1. PICK x : x = [o EXCEPT !.pc = "refused"]
    OBVIOUS
  <2>2. /\ x.pc = "refused" /\ x.is = "dataset" /\ x.id = o.id /\ x.content = o.content /\ x.expected = o.expected
        /\ DOMAIN x = DOMAIN o
    BY <1>3, <2>1 DEF PublisherOK
  <2>3. PublisherOK(x)'
    BY <1>1, <1>3, <1>5, <2>2 DEF PublisherOK
  <2>4. ReaderOK(x)'
    BY <2>2, <2>3 DEF ReaderOK
  <2> QED
    BY <1>1, <1>2, <1>3, <1>4, <1>5, <2>1, <2>2, <2>4, OneReader
<1>6. CASE Data!Same(o.content) /\ UNCHANGED issue /\ Data!Go(c, [o EXCEPT !.pc = "answered", !.told = Len(issue')])
  <2>1. PICK x : x = [o EXCEPT !.pc = "answered", !.told = n]
    OBVIOUS
  <2>2. /\ x.pc = "answered" /\ x.is = "dataset" /\ x.id = o.id /\ x.content = o.content /\ x.expected = o.expected
        /\ x.told = n /\ DOMAIN x = DOMAIN o
    BY <1>3, <2>1 DEF PublisherOK
  <2>3. n \in 1 .. n /\ issue[n].content = o.content
    BY <1>2, <1>3, <1>6 DEF Data!Same, Data!Latest
  <2>4. PublisherOK(x)'
    BY <1>1, <1>2, <1>3, <1>6, <2>2, <2>3 DEF PublisherOK
  <2>5. ReaderOK(x)'
    BY <2>2, <2>4 DEF ReaderOK
  <2>6. Data!Go(c, x)
    BY <1>2, <1>6, <2>1
  <2> QED
    BY <1>1, <1>2, <1>3, <1>4, <1>6, <2>2, <2>5, <2>6, OneReader
<1>7. ASSUME NEW row, row = [content |-> o.content, by |-> o.id, over |-> o.expected, input |-> 0],
             Data!Expected(o.expected), issue' = Append(issue, row),
             Data!Go(c, [o EXCEPT !.pc = "answered", !.told = Len(issue')])
      PROVE  CatalogInv'
  <2>1. o.id \in 1 .. looks /\ o.content \in Files /\ o.expected = n /\ looks \in Nat /\ MaxLooks >= looks
    BY <1>2, <1>3, <1>7 DEF PublisherOK, Data!Expected, Data!Latest, CatalogInv
  <2>2. row \in IssueRow /\ row.by = o.id /\ row.over = n /\ row.input = 0 /\ row.content = o.content
    BY <1>3, <1>7, <2>1 DEF IssueRow
  <2>3. \A i \in 1 .. Len(issue) : issue[i].by # row.by
    BY <1>2, <1>3, <2>1, <2>2 DEF PublisherOK
  <2>4. row.by \in 1 .. looks \cup MaxLooks + 1 .. MaxLooks + moves /\ row.over = Len(issue) /\ row.input <= Len(issue)
    BY <1>2, <1>3, <2>1, <2>2
  <2>5. /\ issue' \in Seq(IssueRow)
        /\ \A i \in 1 .. Len(issue') : issue'[i].by \in 1 .. looks' \cup MaxLooks + 1 .. MaxLooks + moves'
        /\ \A i, j \in 1 .. Len(issue') : issue'[i].by = issue'[j].by => i = j
        /\ \A i \in 1 .. Len(issue') : issue'[i].over = i - 1 /\ issue'[i].input < i
    BY <1>1, <1>7, <2>2, <2>3, <2>4, AddedRows
  <2>6. /\ Len(issue') = n + 1
        /\ \A i \in 1 .. n : issue'[i] = issue[i]
        /\ issue'[n + 1] = row
        /\ \A i \in 1 .. Len(issue') : i \in 1 .. n \/ i = n + 1
    BY <1>2, <1>7, <2>2, Added
  <2>7. PICK x : x = [o EXCEPT !.pc = "answered", !.told = n + 1]
    OBVIOUS
  <2>8. /\ x.pc = "answered" /\ x.is = "dataset" /\ x.id = o.id /\ x.content = o.content /\ x.expected = o.expected
        /\ x.told = n + 1 /\ DOMAIN x = DOMAIN o
    BY <1>3, <2>7 DEF PublisherOK
  <2>9. PublisherOK(x)'
    <3>1. x.expected \in 0 .. Len(issue') /\ x.expected < Len(issue') /\ x.told \in 1 .. Len(issue')
      BY <1>3, <2>1, <2>6, <2>8
    <3> QED
      BY <1>1, <1>3, <2>1, <2>2, <2>6, <2>8, <3>1 DEF PublisherOK
  <2>10. ReaderOK(x)'
    BY <2>8, <2>9 DEF ReaderOK
  <2>11. DOMAIN reader' = Clients /\ reader'[c] = x /\ \A e \in Clients : e # c => reader'[e] = reader[e]
    BY <1>7, <2>6, <2>7 DEF CatalogInv, Data!Go
  <2>12. ASSUME NEW e \in Clients PROVE ReaderOK(reader[e])'
    <3>1. CASE e = c
      BY <2>10, <2>11, <3>1 DEF ReaderOK, PublisherOK, AskerOK
    <3>2. CASE e # c
      <4>1. PICK y : y = reader[e]
        OBVIOUS
      <4>2. Publishes(y) => y.id # row.by
        BY <1>2, <1>3, <2>2, <3>2, <4>1 DEF CatalogInv
      <4>3. ReaderOK(y)'
        BY <1>1, <1>7, <2>2, <4>1, <4>2, AddedReader DEF CatalogInv
      <4> QED
        BY <2>11, <3>2, <4>1, <4>3 DEF ReaderOK, PublisherOK, AskerOK
    <3> QED
      BY <3>1, <3>2
  <2>13. \A e, d \in Clients : Publishes(reader[e])' /\ Publishes(reader[d])' /\ reader'[e].id = reader'[d].id => e = d
    <3>1. \A e \in Clients : Publishes(reader[e])' => Publishes(reader[e]) /\ reader'[e].id = reader[e].id
      BY <1>2, <1>3, <2>8, <2>11 DEF Publishes
    <3> QED
      BY <3>1 DEF CatalogInv
  <2>14. \A e \in execution' :
           /\ e.id \in MaxLooks + 1 .. MaxLooks + moves' /\ e.input \in 0 .. Len(issue')
           /\ \A i \in 1 .. Len(issue') : issue'[i].by # e.id
    <3> SUFFICES ASSUME NEW e \in execution
                 PROVE  /\ e.id \in MaxLooks + 1 .. MaxLooks + moves /\ e.input \in 0 .. n + 1
                        /\ \A i \in 1 .. Len(issue') : issue'[i].by # e.id
      BY <1>1, <2>6
    <3>1. /\ e.id \in MaxLooks + 1 .. MaxLooks + moves /\ e.input \in 0 .. n
          /\ \A i \in 1 .. n : issue[i].by # e.id
      BY <1>2 DEF CatalogInv
    <3>2. row.by # e.id
      <4>1. PICK m : m = e.id
        OBVIOUS
      <4>2. m >= MaxLooks + 1
        BY <3>1, <4>1 DEF CatalogSettings, CatalogInv
      <4>3. o.id <= looks /\ looks <= MaxLooks /\ o.id \in Nat /\ looks \in Nat /\ MaxLooks \in Nat
        BY <1>3 DEF PublisherOK, CatalogSettings, CatalogInv
      <4> QED
        BY <2>2, <3>1, <4>1, <4>2, <4>3 DEF CatalogInv
    <3> QED
      BY <1>3, <2>6, <3>1, <3>2
  <2>15. batch' # Data!NoJob => batch' = [spec |-> batch'.spec, uri |-> batch'.uri] /\ batch'.uri \in Located /\ Len(issue') > 0
    BY <1>1, <1>3, <2>6 DEF CatalogInv
  <2>16. looks' \in Nat /\ looks' <= MaxLooks /\ moves' \in Nat /\ \A e, f \in execution' : e.id = f.id => e = f
    BY <1>1 DEF CatalogInv
  <2>17. Data!NoJob' = Data!NoJob
    BY DEF Data!NoJob
  <2> QED
    BY <2>5, <2>11, <2>12, <2>13, <2>14, <2>15, <2>16, <2>17 DEF CatalogInv
<1> QED
  BY <1>2, <1>5, <1>6, <1>7 DEF Data!Publish

LEMMA PublishOutputStep ==
  ASSUME CatalogInv, CatalogSettings, Data!PublishOutput
  PROVE  CatalogInv'
<1>1. UNCHANGED <<ready, batch, looks, moves, reader>>
  BY DEF Data!PublishOutput
<1>2. PICK e \in execution, content \in Files :
        /\ issue' = Append(issue, [content |-> content, by |-> e.id, over |-> Len(issue), input |-> e.input])
        /\ execution' = execution \ {e}
  BY DEF Data!PublishOutput, Data!Latest
<1>3. PICK n, row : n = Len(issue) /\ row = [content |-> content, by |-> e.id, over |-> Len(issue), input |-> e.input]
  OBVIOUS
<1>4. /\ e.id \in MaxLooks + 1 .. MaxLooks + moves /\ e.input \in 0 .. n /\ n \in Nat
      /\ \A i \in 1 .. n : issue[i].by # e.id
  BY <1>3 DEF CatalogInv
<1>5. MaxLooks \in Nat /\ looks \in Nat /\ looks <= MaxLooks /\ moves \in Nat
  BY DEF CatalogSettings, CatalogInv
<1>6. row \in IssueRow /\ row.by = e.id /\ row.over = n /\ row.input = e.input
  BY <1>3, <1>4, <1>5 DEF IssueRow
<1>7. issue' = Append(issue, row)
  BY <1>2, <1>3
<1>8. row.by \in 1 .. looks \cup MaxLooks + 1 .. MaxLooks + moves /\ row.over = Len(issue) /\ row.input <= Len(issue)
  BY <1>3, <1>4, <1>6
<1>9. \A i \in 1 .. Len(issue) : issue[i].by # row.by
  BY <1>3, <1>4, <1>6
<1>10. /\ issue' \in Seq(IssueRow)
       /\ \A i \in 1 .. Len(issue') : issue'[i].by \in 1 .. looks' \cup MaxLooks + 1 .. MaxLooks + moves'
       /\ \A i, j \in 1 .. Len(issue') : issue'[i].by = issue'[j].by => i = j
       /\ \A i \in 1 .. Len(issue') : issue'[i].over = i - 1 /\ issue'[i].input < i
  BY <1>1, <1>6, <1>7, <1>8, <1>9, AddedRows
<1>11. /\ Len(issue') = n + 1
       /\ \A i \in 1 .. n : issue'[i] = issue[i]
       /\ issue'[n + 1] = row
       /\ \A i \in 1 .. Len(issue') : i \in 1 .. n \/ i = n + 1
  BY <1>3, <1>6, <1>7, Added
<1>12. ASSUME NEW c \in Clients PROVE ReaderOK(reader[c])'
  <2>1. PICK y : y = reader[c]
    OBVIOUS
  <2>2. ReaderOK(y)
    BY <2>1 DEF CatalogInv
  <2>3. Publishes(y) => y.id # row.by
    BY <1>4, <1>5, <1>6, <2>2 DEF ReaderOK, PublisherOK, Publishes
  <2>4. ReaderOK(y)'
    BY <1>1, <1>6, <1>7, <2>2, <2>3, AddedReader
  <2> QED
    BY <1>1, <2>1, <2>4 DEF ReaderOK, PublisherOK, AskerOK
<1>13. \A f \in execution' :
         /\ f.id \in MaxLooks + 1 .. MaxLooks + moves' /\ f.input \in 0 .. Len(issue')
         /\ \A i \in 1 .. Len(issue') : issue'[i].by # f.id
  <2> SUFFICES ASSUME NEW f \in execution, f # e
               PROVE  /\ f.id \in MaxLooks + 1 .. MaxLooks + moves /\ f.input \in 0 .. n + 1
                      /\ \A i \in 1 .. Len(issue') : issue'[i].by # f.id
    BY <1>1, <1>2, <1>11
  <2>1. /\ f.id \in MaxLooks + 1 .. MaxLooks + moves /\ f.input \in 0 .. n
        /\ \A i \in 1 .. n : issue[i].by # f.id
    BY <1>3 DEF CatalogInv
  <2>2. row.by # f.id
    BY <1>6 DEF CatalogInv
  <2> QED
    BY <1>4, <1>11, <2>1, <2>2
<1>14. batch' # Data!NoJob => batch' = [spec |-> batch'.spec, uri |-> batch'.uri] /\ batch'.uri \in Located /\ Len(issue') > 0
  BY <1>1, <1>4, <1>11 DEF CatalogInv
<1>15. \A f, g \in execution' : f.id = g.id => f = g
  BY <1>2 DEF CatalogInv
<1>16. \A c, d \in Clients : Publishes(reader[c])' /\ Publishes(reader[d])' /\ reader'[c].id = reader'[d].id => c = d
  BY <1>1 DEF CatalogInv, Publishes
<1> QED
  BY <1>1, <1>5, <1>10, <1>12, <1>13, <1>14, <1>15, <1>16 DEF CatalogInv, Data!NoJob

LEMMA ExecuteStep ==
  ASSUME CatalogInv, CatalogSettings, Data!Execute
  PROVE  CatalogInv'
<1>1. /\ UNCHANGED <<ready, issue, batch, looks, reader>> /\ moves' = moves + 1
      /\ execution' = execution \cup {[id |-> MaxLooks + (moves + 1), input |-> Len(issue)]}
  BY DEF Data!Execute, Data!Latest
<1>2. MaxLooks \in Nat /\ looks \in Nat /\ looks <= MaxLooks /\ moves \in Nat /\ Len(issue) \in Nat
  BY DEF CatalogSettings, CatalogInv
<1>3. PICK f : f = [id |-> MaxLooks + (moves + 1), input |-> Len(issue)]
  OBVIOUS
<1>4. f.id = MaxLooks + moves + 1 /\ f.input = Len(issue)
  BY <1>2, <1>3
<1>5. \A i \in 1 .. Len(issue) : issue[i].by \in 1 .. looks \cup MaxLooks + 1 .. MaxLooks + moves
  BY DEF CatalogInv
<1>6. \A i \in 1 .. Len(issue) : issue[i].by \in 1 .. looks \cup MaxLooks + 1 .. MaxLooks + (moves + 1) /\ issue[i].by # f.id
  BY <1>2, <1>4, <1>5
<1>7. \A e \in execution : e.id \in MaxLooks + 1 .. MaxLooks + (moves + 1) /\ e.id # f.id
  BY <1>2, <1>4 DEF CatalogInv
<1>8. \A e \in execution' :
         /\ e.id \in MaxLooks + 1 .. MaxLooks + moves' /\ e.input \in 0 .. Len(issue')
         /\ \A i \in 1 .. Len(issue') : issue'[i].by # e.id
  BY <1>1, <1>2, <1>3, <1>4, <1>6, <1>7 DEF CatalogInv
<1>9. \A e, g \in execution' : e.id = g.id => e = g
  BY <1>1, <1>3, <1>7 DEF CatalogInv
<1>10. \A c \in Clients : ReaderOK(reader[c])'
  BY <1>1 DEF CatalogInv, ReaderOK, PublisherOK, AskerOK
<1> QED
  BY <1>1, <1>2, <1>6, <1>8, <1>9, <1>10 DEF CatalogInv, Publishes, Data!NoJob

LEMMA ElsewhereStep ==
  ASSUME CatalogInv, CatalogSettings, Data!Move \/ Data!Delete \/ UNCHANGED Data!vars
  PROVE  CatalogInv'
<1>1. UNCHANGED <<issue, batch, execution, looks, reader>> /\ (ready' => ready) /\ moves' \in {moves, moves + 1}
  BY DEF Data!Move, Data!Delete, Data!vars
<1>2. MaxLooks \in Nat /\ moves \in Nat
  BY DEF CatalogSettings, CatalogInv
<1>3. \A n \in MaxLooks + 1 .. MaxLooks + moves : n \in MaxLooks + 1 .. MaxLooks + moves'
  <2>1. moves' = moves \/ moves' = moves + 1
    BY <1>1
  <2> QED
    BY <1>2, <2>1
<1>4. \A c \in Clients : ReaderOK(reader[c])'
  BY <1>1 DEF CatalogInv, ReaderOK, PublisherOK, AskerOK
<1>5. moves' \in Nat /\ \A i \in 1 .. Len(issue') : issue'[i].by \in 1 .. looks' \cup MaxLooks + 1 .. MaxLooks + moves'
  BY <1>1, <1>2, <1>3 DEF CatalogInv
<1>6. \A e \in execution' :
         /\ e.id \in MaxLooks + 1 .. MaxLooks + moves' /\ e.input \in 0 .. Len(issue')
         /\ \A i \in 1 .. Len(issue') : issue'[i].by # e.id
  BY <1>1, <1>3 DEF CatalogInv
<1> QED
  BY <1>1, <1>4, <1>5, <1>6 DEF CatalogInv, Publishes, Data!NoJob

LEMMA CatalogStep == CatalogSettings /\ CatalogInv /\ [Data!Next]_(Data!vars) => CatalogInv'
<1> SUFFICES ASSUME CatalogSettings, CatalogInv, [Data!Next]_(Data!vars) PROVE CatalogInv'
  OBVIOUS
<1> QED
  BY SeeStep, PublishDatasetStep, RepeatStep, AskBatchStep, CreateBatchStep, ExecuteStep, PublishOutputStep, ElsewhereStep
     DEF Data!Next

LEMMA CatalogStaysKept ==
  ASSUME CatalogSettings PROVE Data!Init /\ [][Data!Next]_(Data!vars) => []Data!CatalogIsKept
<1>1. CatalogInv => Data!CatalogIsKept
  BY DEF CatalogInv, ReaderOK, PublisherOK, AskerOK, Data!CatalogIsKept, Data!Latest
<1> QED
  BY <1>1, InitCatalog, CatalogStep, PTL

-----------------------------------------------------------------------------
(* The services: what they do to a part, that part does by itself.                   *)

LEMMA ToBrowser == ServicesInit /\ [][ServicesNext]_services => Browser!Init /\ [][Browser!Next]_(Browser!vars)
<1>1. ServicesInit => Browser!Init
  BY DEF ServicesInit
<1>2. [ServicesNext]_services => [Browser!Next]_(Browser!vars)
  BY DEF ServicesNext, services, api, browserVars, Browser!vars, Browser!people, Browser!cookies
<1> QED
  BY <1>1, <1>2, PTL

LEMMA ToAccess == ServicesInit /\ [][ServicesNext]_services => Access!Init /\ [][Access!Next]_(Access!vars)
<1>1. ServicesInit => Access!Init
  BY DEF ServicesInit
<1>2. [ServicesNext]_services => [Access!Next]_(Access!vars)
  BY DEF ServicesNext, services, api, accessVars, Access!vars, Access!rows, Access!history
<1> QED
  BY <1>1, <1>2, PTL

LEMMA ToDefinitions == ServicesInit /\ [][ServicesNext]_services => Compile!Init /\ [][Compile!Next]_(Compile!vars)
<1>1. ServicesInit => Compile!Init
  BY DEF ServicesInit
<1>2. [ServicesNext]_services => [Compile!Next]_(Compile!vars)
  BY DEF ServicesNext, services, api, compileVars, Compile!vars, Compile!stored
<1> QED
  BY <1>1, <1>2, PTL

LEMMA ToCatalog == ServicesInit /\ [][ServicesNext]_services => Data!Init /\ [][Data!Next]_(Data!vars)
<1>1. ServicesInit => Data!Init
  BY DEF ServicesInit
<1>2. [ServicesNext]_services => [Data!Next]_(Data!vars)
  BY DEF ServicesNext, services, api, dataVars, Data!vars
<1> QED
  BY <1>1, <1>2, PTL

LEMMA ToBackup == ServicesInit /\ [][ServicesNext]_services => Dump!Init /\ [][Dump!Next]_(Dump!vars)
<1>1. ServicesInit => Dump!Init
  BY DEF ServicesInit
<1>2. [ServicesNext]_services => [Dump!Next]_(Dump!vars)
  BY DEF ServicesNext, services, workers, api, dumpVars, Dump!vars
<1> QED
  BY <1>1, <1>2, PTL

(* A request passes on a claim of its user no longer than the lifetime of such a       *)
(* session, and one call, after the claim was true (docs/identity.md:61); and, where   *)
(* the deployments of an endpoint are of one kind, its access is what was accepted     *)
(* last and a revoked key stays revoked (docs/concurrency-identity-audit.md:99).       *)
THEOREM AccessIsAlwaysRight == ASSUME OneKind PROVE ServicesSpec => []AccessIsRight
<1>1. LifetimesAreNatural /\ AccessSettings
  BY ServicesAssumption DEF ServicesAssumption, LifetimesAreNatural, AccessSettings
<1> QED
  BY <1>1, ToBrowser, ToAccess, SessionsStayShort, AccessStaysKept, PTL DEF ServicesSpec, AccessIsRight

(* A definition that a request was answered with is kept and a run is made of those it *)
(* names, whatever requests overlap; a request publishes one version, over the one its *)
(* client had seen; a backup that is reported complete, and what is reported restored, *)
(* is what the database held at one moment of a backup (controlplane_backup.py).       *)
THEOREM DefinedIsAlwaysKept == ServicesSpec => []DefinedIsKept
<1>1. DefinitionSettings /\ CatalogSettings /\ BackupSettings
  BY ServicesAssumption DEF ServicesAssumption, DefinitionSettings, CatalogSettings, BackupSettings
<1> QED
  BY <1>1, ToDefinitions, ToCatalog, ToBackup, WhatIsDefinedStays, CatalogStaysKept, BackupsAlwaysRestore, PTL
     DEF ServicesSpec, DefinedIsKept

=============================================================================
