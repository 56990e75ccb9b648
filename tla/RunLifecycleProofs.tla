------------------------- MODULE RunLifecycleProofs -------------------------
(***************************************************************************)
(* Theorems about RunLifecycle, for every set of runs, reconcilers and     *)
(* cancel requests.                                                        *)
(***************************************************************************)
EXTENDS RunLifecycle, TLAPS

(* A row that says its workload exists also says which one it is.           *)
Known(r) == r.status \in {"SUBMITTED", "RUNNING", "SUCCEEDED"} => r.ref

(* The rows held in memory are as good as the ones they were read from, and  *)
(* a success about to be recorded has been observed.                        *)
MemoryOK ==
  /\ \A p \in Reconcilers : rec[p] # Idle =>
       /\ Known(rec[p].row)
       /\ (rec[p].pc = "write" /\ rec[p].goal = "SUCCEEDED") => rec[p].id \in succeeded
  /\ \A c \in Cancellers : canc[c] # Idle =>
       /\ Known(canc[c].row)
       /\ ~ IsTerminal(canc[c].row.status)

(* The history of successes covers the workflows one can still look at.      *)
SuccessSeen == \A r \in Runs : workflow[r].phase = "Succeeded" => r \in succeeded

IInv ==
  /\ TypeOK
  /\ SuccessSeen
  /\ HandleRecorded
  /\ PublishedWithSuccess
  /\ SuccessIsReal
  /\ MemoryOK

-----------------------------------------------------------------------------
(* An actor at a step other than "idle" holds a well-typed record.          *)
LEMMA MemoryTyped ==
  ASSUME TypeOK
  PROVE  /\ \A p \in Reconcilers : rec[p] # Idle => rec[p] \in Pass
         /\ \A p \in Reconcilers : rec[p].pc # "idle" => rec[p] # Idle
         /\ \A c \in Cancellers : canc[c] # Idle => canc[c] \in Request
BY DEF TypeOK, Idle

(* What the state machine of a run allows, spelled out.                     *)
LEMMA EdgesSpelled ==
  ASSUME NEW s, NEW t, <<s, t>> \in RunEdges
  PROVE  /\ s \in RunStatus /\ t \in RunStatus
         /\ ~ IsTerminal(s)
         /\ t # "PENDING" /\ t # s
         /\ t = "SUCCEEDED" => s = "RUNNING"
         /\ t = "RUNNING" => s = "SUBMITTED"
         /\ t = "SUBMITTED" => s = "PENDING"
BY DEF RunEdges, RunStatus, IsTerminal

(* The row a committed _move stores is well typed and keeps its handle.     *)
LEMMA MovedTyped ==
  ASSUME NEW q \in Pass, NEW s, <<q.row.status, s>> \in RunEdges
  PROVE  /\ Moved(q, s) \in Row
         /\ Moved(q, s).status = s
         /\ Known(q.row) => Known(Moved(q, s))
<1>1. q.row \in Row
  BY DEF Pass
<1>2. s \in RunStatus /\ (s = "SUCCEEDED" => q.row.status = "RUNNING")
      /\ (s = "RUNNING" => q.row.status = "SUBMITTED")
  BY EdgesSpelled
<1>3. QED
  BY <1>1, <1>2 DEF Moved, Row, Known

(* What the reconciler remembers after a committed _move.                   *)
LEMMA AfterWriteTyped ==
  ASSUME NEW q \in Pass, NEW s, <<q.row.status, s>> \in RunEdges
  PROVE  /\ AfterWrite(q, s) \in Pass \cup {Idle}
         /\ AfterWrite(q, s) # Idle => /\ AfterWrite(q, s).row = Moved(q, s)
                                       /\ AfterWrite(q, s).id = q.id
                                       /\ AfterWrite(q, s).goal = q.goal
<1>1. Moved(q, s) \in Row
  BY MovedTyped
<1>2. QED
  BY <1>1 DEF AfterWrite, At, Pass, Idle

-----------------------------------------------------------------------------
(* TypeOK is inductive on its own.                                          *)
LEMMA TypeStep == TypeOK /\ [Next]_vars => TypeOK'
<1> SUFFICES ASSUME TypeOK, [Next]_vars PROVE TypeOK'
  OBVIOUS
<1> USE DEF dbVars, history
<1>1. CASE UNCHANGED vars
  BY <1>1 DEF TypeOK, vars
<1>2. ASSUME NEW r \in Runs, Create(r) PROVE TypeOK'
  BY <1>2 DEF TypeOK, Create, Fresh, Row, RunStatus
<1>3. ASSUME NEW c \in Cancellers, NEW r \in Runs, CancelRead(c, r) PROVE TypeOK'
  <2>1. row[r] \in Row
    BY <1>3 DEF TypeOK, CancelRead, Exists
  <2>2. QED
    BY <1>3, <2>1 DEF TypeOK, CancelRead, Request
<1>4. ASSUME NEW c \in Cancellers, CancelWrite(c) PROVE TypeOK'
  <2>1. canc[c] \in Request
    BY <1>4, MemoryTyped DEF CancelWrite
  <2>2. CancelledRow(canc[c].row) \in Row /\ canc[c].id \in Runs
    BY <2>1 DEF CancelledRow, Request, Row, RunStatus
  <2>3. QED
    BY <1>4, <2>2 DEF TypeOK, CancelWrite
<1>5. ASSUME NEW c \in Cancellers, CancelGiveUp(c) PROVE TypeOK'
  BY <1>5 DEF TypeOK, CancelGiveUp
<1>6. ASSUME NEW p \in Reconcilers, NEW r \in Runs, Load(p, r) \/ CleanLoad(p, r) PROVE TypeOK'
  <2>1. row[r] \in Row
    BY <1>6 DEF TypeOK, Load, CleanLoad, Exists
  <2>2. rec'[p] \in Pass /\ rec' = [rec EXCEPT ![p] = rec'[p]]
    BY <1>6, <2>1 DEF TypeOK, Load, CleanLoad, Pass, Row
  <2>3. QED
    BY <1>6, <2>2 DEF TypeOK, Load, CleanLoad
<1>7. ASSUME NEW p \in Reconcilers, Submit(p) PROVE TypeOK'
  <2>1. rec[p] \in Pass
    BY <1>7, MemoryTyped DEF Submit
  <2>2. \A goal \in RunStatus : At(rec[p], "write", rec[p].row, goal) \in Pass
    BY <2>1 DEF At, Pass
  <2>3. rec' \in [Reconcilers -> Pass \cup {Idle}]
    BY <1>7, <2>2 DEF Submit, TypeOK, RunStatus
  <2>4. /\ workflow' \in [Runs -> Workflow \cup {Gone}]
        /\ created' \subseteq Runs /\ repeated' \subseteq Runs
    <3>1. Submitted \in Workflow /\ rec[p].id \in Runs
      BY <2>1 DEF Submitted, Workflow, Phase, Pass
    <3>2. QED
      BY <1>7, <3>1 DEF Submit, CreateWorkflow, TypeOK
  <2>5. QED
    BY <1>7, <2>3, <2>4 DEF TypeOK, Submit
<1>8. ASSUME NEW p \in Reconcilers, PassCancel(p) PROVE TypeOK'
  <2>1. rec[p] \in Pass
    BY <1>8, MemoryTyped DEF PassCancel
  <2>2. At(rec[p], "observe", rec[p].row, rec[p].goal) \in Pass
    BY <2>1 DEF At, Pass
  <2>3. rec' \in [Reconcilers -> Pass \cup {Idle}]
    BY <1>8, <2>2 DEF PassCancel, TypeOK
  <2>4. workflow' \in [Runs -> Workflow \cup {Gone}]
    <3>1. workflow[rec[p].id] # Gone => Terminated(workflow[rec[p].id]) \in Workflow
      BY <2>1 DEF TypeOK, Terminated, Workflow, Pass
    <3>2. QED
      BY <1>8, <2>1, <3>1 DEF PassCancel, TypeOK, Pass, Gone
  <2>5. QED
    BY <1>8, <2>3, <2>4 DEF TypeOK, PassCancel
<1>9. ASSUME NEW p \in Reconcilers, Observe(p) PROVE TypeOK'
  <2>1. rec[p] \in Pass
    BY <1>9, MemoryTyped DEF Observe
  <2>2. PlatformState(rec[p].id) \subseteq RunStatus
    BY DEF PlatformState, RunStatus
  <2>3. \A goal \in RunStatus : At(rec[p], "write", rec[p].row, goal) \in Pass
    BY <2>1 DEF At, Pass
  <2>4. rec' \in [Reconcilers -> Pass \cup {Idle}]
    BY <1>9, <2>2, <2>3 DEF Observe, TypeOK
  <2>5. workflow' \in [Runs -> Workflow \cup {Gone}]
    <3>1. workflow[rec[p].id] # Gone => Terminated(workflow[rec[p].id]) \in Workflow
      BY <2>1 DEF TypeOK, Terminated, Workflow, Pass
    <3>2. QED
      BY <1>9, <2>1, <3>1 DEF Observe, TypeOK, Pass, Gone
  <2>6. QED
    BY <1>9, <2>4, <2>5 DEF TypeOK, Observe
<1>10. ASSUME NEW p \in Reconcilers, Write(p) PROVE TypeOK'
  <2>1. rec[p] \in Pass
    BY <1>10, MemoryTyped DEF Write
  <2>2. PICK s : /\ <<rec[p].row.status, s>> \in RunEdges
                 /\ row' = [row EXCEPT ![rec[p].id] = Moved(rec[p], s)]
                 /\ published' = published \cup Publication(rec[p], s)
                 /\ rec' = [rec EXCEPT ![p] = AfterWrite(rec[p], s)]
    BY <1>10 DEF Write
  <2>3. Moved(rec[p], s) \in Row /\ AfterWrite(rec[p], s) \in Pass \cup {Idle}
    BY <2>1, <2>2, MovedTyped, AfterWriteTyped
  <2>4. Publication(rec[p], s) \subseteq Runs
    BY <2>1, RunAssumption DEF Publication, Pass
  <2>5. QED
    BY <1>10, <2>2, <2>3, <2>4 DEF TypeOK, Write
<1>11. ASSUME NEW p \in Reconcilers, Abandon(p) PROVE TypeOK'
  BY <1>11 DEF TypeOK, Abandon
<1>12. ASSUME NEW p \in Reconcilers, CleanDelete(p) PROVE TypeOK'
  <2>1. rec[p] \in Pass
    BY <1>12, MemoryTyped DEF CleanDelete
  <2>2. At(rec[p], "mark", rec[p].row, rec[p].goal) \in Pass
    BY <2>1 DEF At, Pass
  <2>3. QED
    BY <1>12, <2>2 DEF TypeOK, CleanDelete
<1>13. ASSUME NEW p \in Reconcilers, CleanMark(p) PROVE TypeOK'
  <2>1. rec[p] \in Pass
    BY <1>13, MemoryTyped DEF CleanMark
  <2>2. rec[p].id \in Runs /\ row[rec[p].id].status \in RunStatus
    BY <1>13, <2>1 DEF Pass, Row, CleanMark, Unmoved
  <2>3. row[rec[p].id] \in Row
    BY <2>2 DEF TypeOK, Absent, RunStatus
  <2>4. QED
    BY <1>13, <2>2, <2>3 DEF TypeOK, CleanMark, Row
<1>14. ASSUME NEW r \in Runs, WorkflowStep(r) PROVE TypeOK'
  <2>1. CASE WorkflowVanish(r)
    BY <2>1 DEF TypeOK, WorkflowVanish
  <2>2. CASE \E phase \in Phase : Advance(r, phase) /\ workflow[r] # Gone
    <3>1. PICK phase \in Phase : Advance(r, phase) /\ workflow[r] # Gone
      BY <2>2
    <3>2. workflow[r] \in Workflow
      BY <3>1 DEF TypeOK
    <3>3. [workflow[r] EXCEPT !.phase = phase] \in Workflow
      BY <3>2 DEF Workflow
    <3>4. QED
      BY <3>1, <3>3 DEF TypeOK, Advance
  <2>3. QED
    BY <1>14, <2>1, <2>2
    DEF WorkflowStep, WorkflowStart, WorkflowEnd, WorkflowShutdown, Phase, Gone, Ended
<1>15. QED
  BY <1>1, <1>2, <1>3, <1>4, <1>5, <1>6, <1>7, <1>8, <1>9, <1>10, <1>11, <1>12, <1>13, <1>14
  DEF Next, CancelStep, ReconcilerStep

(* Every variable keeps its type: in particular a row holds a declared       *)
(* status after every compare-and-swap, whoever wrote it.                   *)
THEOREM TypeCorrect == Spec => []TypeOK
<1>1. Init => TypeOK
  BY DEF Init, TypeOK
<1>2. QED
  BY <1>1, TypeStep, PTL DEF Spec

-----------------------------------------------------------------------------
(* No step of the platform makes a workflow look successful.                *)
LEMMA SeenStep == TypeOK /\ SuccessSeen /\ [Next]_vars => SuccessSeen'
<1> SUFFICES ASSUME TypeOK, SuccessSeen, [Next]_vars PROVE SuccessSeen'
  OBVIOUS
<1> USE DEF dbVars, history
<1>1. ASSUME NEW p \in Reconcilers, ReconcilerStep(p) PROVE SuccessSeen'
  <2>1. ASSUME NEW r \in Runs, Load(p, r) \/ CleanLoad(p, r) PROVE SuccessSeen'
    BY <2>1 DEF Load, CleanLoad, SuccessSeen
  <2>2. CASE Submit(p)
    <3>1. workflow' = workflow \/ workflow' = [workflow EXCEPT ![rec[p].id] = Submitted]
      BY <2>2 DEF Submit, CreateWorkflow
    <3>2. QED
      BY <2>2, <3>1 DEF Submit, SuccessSeen, TypeOK, Submitted
  <2>3. CASE PassCancel(p) \/ Observe(p)
    <3>1. \/ workflow' = workflow
          \/ workflow' = [workflow EXCEPT ![rec[p].id] = Terminated(workflow[rec[p].id])]
      BY <2>3 DEF PassCancel, Observe
    <3>2. QED
      BY <2>3, <3>1 DEF PassCancel, Observe, SuccessSeen, TypeOK, Terminated
  <2>4. CASE Write(p) \/ CleanMark(p) \/ Abandon(p)
    BY <2>4 DEF Write, CleanMark, Abandon, SuccessSeen
  <2>5. CASE CleanDelete(p)
    BY <2>5 DEF CleanDelete, SuccessSeen, TypeOK, Gone
  <2>6. QED
    BY <1>1, <2>1, <2>2, <2>3, <2>4, <2>5 DEF ReconcilerStep
<1>2. ASSUME NEW r \in Runs, WorkflowStep(r) PROVE SuccessSeen'
  <2>1. ASSUME NEW phase, Advance(r, phase) PROVE SuccessSeen'
    BY <2>1 DEF Advance, SuccessSeen, TypeOK
  <2>2. CASE WorkflowVanish(r)
    BY <2>2 DEF WorkflowVanish, SuccessSeen, TypeOK, Gone
  <2>3. QED
    BY <1>2, <2>1, <2>2 DEF WorkflowStep, WorkflowStart, WorkflowEnd, WorkflowShutdown
<1>3. ASSUME NEW r \in Runs, Create(r) PROVE SuccessSeen'
  BY <1>3 DEF Create, SuccessSeen
<1>4. ASSUME NEW c \in Cancellers, CancelStep(c) PROVE SuccessSeen'
  BY <1>4 DEF CancelStep, CancelRead, CancelWrite, CancelGiveUp, SuccessSeen
<1>5. CASE UNCHANGED vars
  BY <1>5 DEF vars, SuccessSeen
<1>6. QED
  BY <1>1, <1>2, <1>3, <1>4, <1>5 DEF Next

-----------------------------------------------------------------------------
(* Steps that write no row and change no memory keep the invariant, provided *)
(* the history of successes only grows.                                     *)
LEMMA QuietStep ==
  ASSUME IInv, TypeOK', SuccessSeen', UNCHANGED <<row, published, rec, canc>>, succeeded \subseteq succeeded'
  PROVE  IInv'
BY DEF IInv, HandleRecorded, PublishedWithSuccess, SuccessIsReal, MemoryOK

(* A step that only changes the memory of one reconciler, to a row that knows *)
(* its workload and a goal that is true, keeps the invariant.                *)
LEMMA MemoryStep ==
  ASSUME IInv, TypeOK', SuccessSeen', UNCHANGED <<row, published, canc, succeeded>>,
         NEW p \in Reconcilers, NEW q,
         rec' = [rec EXCEPT ![p] = q],
         q # Idle => /\ Known(q.row)
                     /\ (q.pc = "write" /\ q.goal = "SUCCEEDED") => q.id \in succeeded
  PROVE  IInv'
<1>1. \A o \in Reconcilers : rec'[o] = IF o = p THEN q ELSE rec[o]
  BY DEF IInv, TypeOK
<1>2. QED
  BY <1>1 DEF IInv, HandleRecorded, PublishedWithSuccess, SuccessIsReal, MemoryOK

LEMMA InvStep == IInv /\ [Next]_vars => IInv'
<1> SUFFICES ASSUME IInv, [Next]_vars PROVE IInv'
  OBVIOUS
<1>0. TypeOK /\ TypeOK' /\ SuccessSeen'
  BY TypeStep, SeenStep DEF IInv
<1> USE DEF dbVars, history
<1>1. CASE UNCHANGED vars
  BY <1>0, <1>1, QuietStep DEF vars
<1>2. ASSUME NEW r \in Runs, Create(r) PROVE IInv'
  <2>1. row[r].status = "ABSENT"
    BY <1>2 DEF Create, Exists, Absent
  <2>2. \A s \in Runs : row'[s] = IF s = r THEN Fresh ELSE row[s]
    BY <1>0, <1>2 DEF Create, TypeOK
  <2>3. HandleRecorded' /\ SuccessIsReal'
    BY <1>2, <2>2 DEF Create, IInv, HandleRecorded, SuccessIsReal, Fresh
  <2>4. PublishedWithSuccess'
    BY <1>2, <2>1, <2>2, RunAssumption DEF Create, IInv, PublishedWithSuccess, Fresh
  <2>5. MemoryOK'
    BY <1>2 DEF Create, IInv, MemoryOK
  <2>6. QED
    BY <1>0, <2>3, <2>4, <2>5 DEF IInv
<1>3. ASSUME NEW c \in Cancellers, CancelStep(c) PROVE IInv'
  <2>1. ASSUME NEW r \in Runs, CancelRead(c, r) PROVE IInv'
    <3>1. \A d \in Cancellers :
            canc'[d] = IF d = c THEN [pc |-> "decided", id |-> r, row |-> row[r]] ELSE canc[d]
      BY <1>0, <2>1 DEF CancelRead, TypeOK
    <3>2. Known(row[r]) /\ ~ IsTerminal(row[r].status)
      BY <2>1 DEF CancelRead, IInv, HandleRecorded, Known
    <3>3. MemoryOK'
      BY <2>1, <3>1, <3>2 DEF CancelRead, IInv, MemoryOK
    <3>4. QED
      BY <1>0, <2>1, <3>3
      DEF CancelRead, IInv, HandleRecorded, PublishedWithSuccess, SuccessIsReal
  <2>2. CASE CancelWrite(c)
    <3> DEFINE q == canc[c]
    <3>1. q \in Request /\ q # Idle
      BY <1>0, <2>2, MemoryTyped DEF CancelWrite
    <3>2. /\ q.row \in Row /\ q.id \in Runs /\ Known(q.row) /\ ~ IsTerminal(q.row.status)
          /\ row[q.id].status = q.row.status
      BY <2>2, <3>1 DEF IInv, MemoryOK, Request, CancelWrite, Unmoved
    <3>3. /\ Known(CancelledRow(q.row))
          /\ CancelledRow(q.row).status # "SUCCEEDED" /\ row[q.id].status # "SUCCEEDED"
      BY <3>2 DEF CancelledRow, Known, Row, IsTerminal
    <3>4. \A s \in Runs : row'[s] = IF s = q.id THEN CancelledRow(q.row) ELSE row[s]
      BY <1>0, <2>2 DEF CancelWrite, TypeOK
    <3>5. HandleRecorded' /\ SuccessIsReal' /\ PublishedWithSuccess'
      BY <2>2, <3>3, <3>4
      DEF CancelWrite, IInv, HandleRecorded, SuccessIsReal, PublishedWithSuccess, Known
    <3>6. \A d \in Cancellers : canc'[d] = IF d = c THEN Idle ELSE canc[d]
      BY <1>0, <2>2 DEF CancelWrite, TypeOK
    <3>7. MemoryOK'
      BY <2>2, <3>6 DEF CancelWrite, IInv, MemoryOK
    <3>8. QED
      BY <1>0, <3>5, <3>7 DEF IInv
  <2>3. CASE CancelGiveUp(c)
    <3>1. \A d \in Cancellers : canc'[d] = IF d = c THEN Idle ELSE canc[d]
      BY <1>0, <2>3 DEF CancelGiveUp, TypeOK
    <3>2. QED
      BY <1>0, <2>3, <3>1
      DEF CancelGiveUp, IInv, HandleRecorded, PublishedWithSuccess, SuccessIsReal, MemoryOK
  <2>4. QED
    BY <1>3, <2>1, <2>2, <2>3 DEF CancelStep
<1>4. ASSUME NEW p \in Reconcilers, NEW r \in Runs, Load(p, r) \/ CleanLoad(p, r) PROVE IInv'
  <2>1. Known(row[r])
    BY DEF IInv, HandleRecorded, Known
  <2>2. PICK pc \in {"submit", "cancel", "delete"} :
          rec' = [rec EXCEPT ![p] = [pc |-> pc, id |-> r, row |-> row[r], goal |-> row[r].status]]
    BY <1>4 DEF Load, CleanLoad
  <2>3. QED
    BY <1>0, <1>4, <2>1, <2>2, MemoryStep DEF Load, CleanLoad
<1>5. ASSUME NEW p \in Reconcilers, Submit(p) PROVE IInv'
  <2>1. Known(rec[p].row)
    BY <1>0, <1>5, MemoryTyped DEF IInv, MemoryOK, Submit
  <2>2. PICK goal \in {"CANCELLED", "SUBMITTED", "FAILED"} :
          rec' = [rec EXCEPT ![p] = At(rec[p], "write", rec[p].row, goal)]
    BY <1>5 DEF Submit
  <2>3. QED
    BY <1>0, <1>5, <2>1, <2>2, MemoryStep DEF Submit, At
<1>6. ASSUME NEW p \in Reconcilers, PassCancel(p) PROVE IInv'
  <2>1. Known(rec[p].row)
    BY <1>0, <1>6, MemoryTyped DEF IInv, MemoryOK, PassCancel
  <2>2. PICK q \in {Idle, At(rec[p], "observe", rec[p].row, rec[p].goal)} :
          rec' = [rec EXCEPT ![p] = q]
    BY <1>6 DEF PassCancel
  <2>3. QED
    BY <1>0, <1>6, <2>1, <2>2, MemoryStep DEF PassCancel, At
<1>7. ASSUME NEW p \in Reconcilers, Observe(p) PROVE IInv'
  <2>1. rec[p] \in Pass /\ Known(rec[p].row)
    BY <1>0, <1>7, MemoryTyped DEF IInv, MemoryOK, Observe
  <2>2. PICK q : /\ rec' = [rec EXCEPT ![p] = q]
                 /\ \/ q = Idle
                    \/ \E s \in PlatformState(rec[p].id) : q = At(rec[p], "write", rec[p].row, s)
    BY <1>7 DEF Observe
  <2>3. "SUCCEEDED" \in PlatformState(rec[p].id) => rec[p].id \in succeeded
    BY <2>1 DEF PlatformState, IInv, SuccessSeen, Pass
  <2>4. QED
    BY <1>0, <1>7, <2>1, <2>2, <2>3, MemoryStep DEF Observe, At
<1>8. ASSUME NEW p \in Reconcilers, Write(p) PROVE IInv'
  <2> DEFINE q == rec[p]
  <2>1. q \in Pass /\ q # Idle /\ q.pc = "write" /\ Known(q.row)
        /\ (q.goal = "SUCCEEDED" => q.id \in succeeded)
    BY <1>0, <1>8, MemoryTyped DEF IInv, MemoryOK, Write
  <2>2. PICK s : /\ s = Target(q) \/ s = "FAILED"
                 /\ <<q.row.status, s>> \in RunEdges
                 /\ row[q.id].status = q.row.status
                 /\ row' = [row EXCEPT ![q.id] = Moved(q, s)]
                 /\ published' = published \cup Publication(q, s)
                 /\ rec' = [rec EXCEPT ![p] = AfterWrite(q, s)]
    BY <1>8 DEF Write, Unmoved
  <2>3. /\ Moved(q, s).status = s /\ Known(Moved(q, s))
        /\ AfterWrite(q, s) # Idle => /\ AfterWrite(q, s).row = Moved(q, s)
                                      /\ AfterWrite(q, s).id = q.id
                                      /\ AfterWrite(q, s).goal = q.goal
    BY <2>1, <2>2, MovedTyped, AfterWriteTyped
  <2>4. row[q.id].status # "SUCCEEDED"
    BY <2>2, EdgesSpelled DEF IsTerminal
  <2>5. s = "SUCCEEDED" => q.id \in succeeded
    BY <2>1, <2>2 DEF Target
  <2>6. q.id \in Runs /\ \A r \in Runs : row'[r] = IF r = q.id THEN Moved(q, s) ELSE row[r]
    BY <1>0, <2>1, <2>2 DEF TypeOK, Pass
  <2>7. HandleRecorded'
    BY <2>3, <2>6 DEF IInv, HandleRecorded, Known
  <2>8. SuccessIsReal'
    BY <1>8, <2>3, <2>5, <2>6 DEF IInv, SuccessIsReal, Write
  <2>9. PublishedWithSuccess'
    BY <2>2, <2>3, <2>4, <2>6, RunAssumption DEF IInv, PublishedWithSuccess, Publication
  <2>10. \A o \in Reconcilers : rec'[o] = IF o = p THEN AfterWrite(q, s) ELSE rec[o]
    BY <1>0, <2>2 DEF TypeOK
  <2>11. MemoryOK'
    BY <1>8, <2>1, <2>3, <2>10 DEF IInv, MemoryOK, Write
  <2>12. QED
    BY <1>0, <2>7, <2>8, <2>9, <2>11 DEF IInv
<1>9. ASSUME NEW p \in Reconcilers, Abandon(p) PROVE IInv'
  BY <1>0, <1>9, MemoryStep DEF Abandon
<1>10. ASSUME NEW p \in Reconcilers, CleanDelete(p) PROVE IInv'
  <2>1. Known(rec[p].row)
    BY <1>0, <1>10, MemoryTyped DEF IInv, MemoryOK, CleanDelete
  <2>2. QED
    BY <1>0, <1>10, <2>1, MemoryStep DEF CleanDelete, At
<1>11. ASSUME NEW p \in Reconcilers, CleanMark(p) PROVE IInv'
  <2> DEFINE q == rec[p]
  <2>1. \A r \in Runs : row'[r].status = row[r].status /\ row'[r].ref = row[r].ref
    <3>1. q \in Pass
      BY <1>0, <1>11, MemoryTyped DEF CleanMark
    <3>2. row[q.id] \in Row
      BY <1>0, <1>11, <3>1 DEF TypeOK, CleanMark, Unmoved, Pass, Row, Absent, RunStatus
    <3>3. QED
      BY <1>0, <1>11, <3>1, <3>2 DEF TypeOK, CleanMark, Row, Pass
  <2>2. \A o \in Reconcilers : rec'[o] = IF o = p THEN Idle ELSE rec[o]
    BY <1>0, <1>11 DEF TypeOK, CleanMark
  <2>3. HandleRecorded' /\ SuccessIsReal' /\ PublishedWithSuccess'
    BY <1>11, <2>1, RunAssumption
    DEF CleanMark, IInv, HandleRecorded, SuccessIsReal, PublishedWithSuccess
  <2>4. MemoryOK'
    BY <1>11, <2>2 DEF CleanMark, IInv, MemoryOK
  <2>5. QED
    BY <1>0, <2>3, <2>4 DEF IInv
<1>12. ASSUME NEW r \in Runs, WorkflowStep(r) PROVE IInv'
  <2>1. UNCHANGED <<row, published, rec, canc>> /\ succeeded \subseteq succeeded'
    BY <1>12
    DEF WorkflowStep, WorkflowStart, WorkflowEnd, WorkflowShutdown, WorkflowVanish, Advance
  <2>2. QED
    BY <1>0, <2>1, QuietStep
<1>13. QED
  BY <1>1, <1>2, <1>3, <1>4, <1>5, <1>6, <1>7, <1>8, <1>9, <1>10, <1>11, <1>12
  DEF Next, ReconcilerStep

LEMMA InvCorrect == Spec => []IInv
<1>1. Init => IInv
  BY RunAssumption
  DEF Init, IInv, TypeOK, SuccessSeen, HandleRecorded, PublishedWithSuccess, SuccessIsReal,
      MemoryOK, Absent, Gone
<1>2. QED
  BY <1>1, InvStep, PTL DEF Spec

(* The handle of a submitted workload is never lost, so the assertion in     *)
(* RunReconciler._sync holds for any number of overlapping reconcilers.      *)
THEOREM HandleIsRecorded == Spec => []HandleRecorded
BY InvCorrect, PTL DEF IInv

(* A result is stored exactly for the runs recorded as SUCCEEDED.            *)
THEOREM PublicationIsAtomic == Spec => []PublishedWithSuccess
BY InvCorrect, PTL DEF IInv

(* No run is recorded as SUCCEEDED unless its workload was.                  *)
THEOREM SuccessIsNeverInvented == Spec => []SuccessIsReal
BY InvCorrect, PTL DEF IInv

-----------------------------------------------------------------------------
(* The platform keeps the promise of RunPromise: every step is one of its    *)
(* steps or changes none of what it speaks about.                           *)

(* Steps that leave every status alone, and publish nothing.                *)
LEMMA StutterOrSuccess ==
  ASSUME TypeOK, NEW r \in Runs,
         \A s \in Runs : row'[s].status = row[s].status,
         UNCHANGED published,
         succeeded' = succeeded \/ succeeded' = succeeded \cup {r}
  PROVE  [Promise!Next]_(Promise!vars)
BY DEF Promise!Next, Promise!vars, Promise!WorkloadSucceeds

LEMMA OneOfItsSteps ==
  \A r \in Runs : Promise!Move(r) \/ Promise!Succeed(r) => Promise!Next
BY DEF Promise!Next

LEMMA PromiseStep == IInv /\ [Next]_vars => [Promise!Next]_(Promise!vars)
<1> SUFFICES ASSUME IInv, [Next]_vars PROVE [Promise!Next]_(Promise!vars)
  OBVIOUS
<1>0. TypeOK
  BY DEF IInv
<1> USE DEF dbVars, history
<1>1. CASE UNCHANGED vars
  BY <1>1 DEF vars, Promise!vars
<1>2. ASSUME NEW r \in Runs, Create(r) PROVE [Promise!Next]_(Promise!vars)
  <2>1. row[r].status = "ABSENT"
    BY <1>2 DEF Create, Exists, Absent
  <2>2. [s \in Runs |-> row'[s].status] =
          [[s \in Runs |-> row[s].status] EXCEPT ![r] = "PENDING"]
    BY <1>0, <1>2 DEF Create, TypeOK, Fresh
  <2>3. Promise!Move(r)
    BY <1>2, <2>1, <2>2 DEF Promise!Move, Promise!Edge, Create
  <2>4. QED
    BY <2>3 DEF Promise!Next
<1>3. ASSUME NEW c \in Cancellers, CancelStep(c) PROVE [Promise!Next]_(Promise!vars)
  <2>1. CASE CancelWrite(c)
    <3> DEFINE q == canc[c]
    <3>1. q \in Request /\ q.row \in Row /\ q.id \in Runs
      BY <1>0, <2>1, MemoryTyped DEF CancelWrite, Request
    <3>0. PICK id \in Runs : id = q.id
      BY <3>1
    <3>2. row[q.id].status = q.row.status
      BY <2>1 DEF CancelWrite, Unmoved
    <3>3. \A s \in Runs : row'[s] = IF s = q.id THEN CancelledRow(q.row) ELSE row[s]
      BY <1>0, <2>1 DEF CancelWrite, TypeOK
    <3>4. CASE q.row.status = "PENDING"
      <4>1. [s \in Runs |-> row'[s].status] =
              [[s \in Runs |-> row[s].status] EXCEPT ![q.id] = "CANCELLED"]
        BY <3>1, <3>3, <3>4 DEF CancelledRow, Row
      <4>2. Promise!Move(id)
        BY <2>1, <3>0, <3>2, <3>4, <4>1 DEF Promise!Move, Promise!Edge, CancelWrite
      <4>3. QED
        BY <4>2, OneOfItsSteps
    <3>5. CASE q.row.status # "PENDING"
      <4>1. \A s \in Runs : row'[s].status = row[s].status
        BY <3>1, <3>2, <3>3, <3>5 DEF CancelledRow, Row
      <4>2. QED
        BY <1>0, <2>1, <3>1, <4>1, StutterOrSuccess DEF CancelWrite
    <3>6. QED
      BY <3>4, <3>5
  <2>2. QED
    BY <1>3, <2>1 DEF CancelStep, CancelRead, CancelGiveUp, Promise!vars
<1>4. ASSUME NEW p \in Reconcilers, ReconcilerStep(p) PROVE [Promise!Next]_(Promise!vars)
  <2>1. CASE Write(p)
    <3> DEFINE q == rec[p]
    <3>1. q \in Pass /\ q.id \in Runs /\ (q.goal = "SUCCEEDED" => q.id \in succeeded)
      BY <1>0, <2>1, MemoryTyped DEF IInv, MemoryOK, Write, Pass
    <3>0. PICK id \in Runs : id = q.id
      BY <3>1
    <3>2. PICK s : /\ s = Target(q) \/ s = "FAILED"
                   /\ <<q.row.status, s>> \in RunEdges
                   /\ row[q.id].status = q.row.status
                   /\ row' = [row EXCEPT ![q.id] = Moved(q, s)]
                   /\ published' = published \cup Publication(q, s)
      BY <2>1 DEF Write, Unmoved
    <3>3. [t \in Runs |-> row'[t].status] =
            [[t \in Runs |-> row[t].status] EXCEPT ![q.id] = s]
      BY <1>0, <3>1, <3>2, MovedTyped DEF TypeOK
    <3>4. CASE s = "SUCCEEDED"
      <4>1. Promise!Succeed(id)
        BY <2>1, <3>1, <3>0, <3>2, <3>3, <3>4, EdgesSpelled
        DEF Promise!Succeed, Target, Publication, Write
      <4>2. QED
        BY <4>1, OneOfItsSteps
    <3>5. CASE s # "SUCCEEDED"
      <4>1. <<row[q.id].status, s>> \in Promise!Edge
        BY <3>2, <3>5 DEF RunEdges, Promise!Edge
      <4>2. s \in {"PENDING", "SUBMITTED", "RUNNING", "FAILED", "CANCELLED"}
        BY <3>2, <3>5, EdgesSpelled DEF RunStatus
      <4>3. Promise!Move(id)
        BY <2>1, <3>0, <3>2, <3>3, <3>5, <4>1, <4>2
        DEF Promise!Move, Publication, Write
      <4>4. QED
        BY <4>3, OneOfItsSteps
    <3>6. QED
      BY <3>4, <3>5
  <2>2. CASE CleanMark(p)
    <3> DEFINE q == rec[p]
    <3>1. q \in Pass
      BY <1>0, <2>2, MemoryTyped DEF CleanMark
    <3>2. row[q.id] \in Row /\ q.id \in Runs
      BY <1>0, <2>2, <3>1 DEF TypeOK, CleanMark, Unmoved, Pass, Row, Absent, RunStatus
    <3>3. \A s \in Runs : row'[s].status = row[s].status
      BY <1>0, <2>2, <3>2 DEF TypeOK, CleanMark, Row
    <3>4. QED
      BY <1>0, <2>2, <3>2, <3>3, StutterOrSuccess DEF CleanMark
  <2>3. CASE UNCHANGED <<row, published, succeeded>>
    BY <2>3 DEF Promise!vars
  <2>4. QED
    BY <1>4, <2>1, <2>2, <2>3
    DEF ReconcilerStep, Load, CleanLoad, Submit, PassCancel, Observe, CleanDelete, Abandon
<1>5. ASSUME NEW r \in Runs, WorkflowStep(r) PROVE [Promise!Next]_(Promise!vars)
  <2>1. UNCHANGED <<row, published>> /\ (succeeded' = succeeded \/ succeeded' = succeeded \cup {r})
    BY <1>5
    DEF WorkflowStep, WorkflowStart, WorkflowEnd, WorkflowShutdown, WorkflowVanish, Advance
  <2>2. QED
    BY <1>0, <2>1, StutterOrSuccess
<1>6. QED
  BY <1>1, <1>2, <1>3, <1>4, <1>5 DEF Next

(* The detailed system implements RunPromise.                               *)
THEOREM PromiseIsKept == Spec => KeepsPromise
<1>1. Init => Promise!Init
  BY DEF Init, Promise!Init, Absent
<1>2. QED
  BY <1>1, InvCorrect, PromiseStep, PTL DEF Spec, KeepsPromise, Promise!Spec

-----------------------------------------------------------------------------
(* One reconciler at a time, as the lease has it (see PlatformProofs).       *)
OneReconciler == \A p, q \in Reconcilers : p = q

(* The handle comes with the submission, the mark with the final status.     *)
Shape(w) == (w.status = "PENDING" => ~ w.ref) /\ (w.cleaned => IsTerminal(w.status))

(* A workflow that was created is there until its run has ended and is known  *)
(* to have had it; a marked run has none.                                  *)
WorkflowOK(r) ==
  /\ workflow[r] # Gone => r \in created
  /\ r \in created \ Vanishing /\ workflow[r] = Gone => IsTerminal(row[r].status) /\ row[r].ref
  /\ row[r].cleaned => row[r].ref /\ workflow[r] = Gone

(* A pass submits only what has no handle yet, whatever a cancel request has   *)
(* done to the row meanwhile, and cleans only what has ended.                *)
PassOK(q) ==
  /\ Shape(q.row)
  /\ q.pc \in {"submit", "cancel", "observe", "write"} => ~ q.row.cleaned
  /\ q.pc = "submit" => row[q.id].status \in {"PENDING", "CANCELLED"} /\ ~ row[q.id].ref
  /\ q.pc \in {"delete", "mark"} => IsTerminal(row[q.id].status) /\ row[q.id].ref
  /\ q.pc = "mark" => workflow[q.id] = Gone

LoneInv ==
  /\ repeated \subseteq Vanishing
  /\ \A r \in Runs : Shape(row[r]) /\ WorkflowOK(r)
  /\ \A p \in Reconcilers : rec[p] # Idle => PassOK(rec[p])
  /\ \A c \in Cancellers : canc[c] # Idle =>
       Shape(canc[c].row) /\ ~ canc[c].row.cleaned /\ ~ IsTerminal(canc[c].row.status)

(* Steps that leave rows, workflows and passes alone.                         *)
LEMMA LoneQuiet ==
  ASSUME LoneInv, UNCHANGED <<row, workflow, rec, created, repeated>>,
         \A c \in Cancellers : canc'[c] # Idle =>
           Shape(canc'[c].row) /\ ~ canc'[c].row.cleaned /\ ~ IsTerminal(canc'[c].row.status)
  PROVE  LoneInv'
BY DEF LoneInv, WorkflowOK, PassOK

(* Steps of the reconciler, of which there is one.                           *)
LEMMA LonePass ==
  ASSUME OneReconciler, IInv, LoneInv, NEW p \in Reconcilers, NEW q, rec' = [rec EXCEPT ![p] = q],
         UNCHANGED canc, (repeated \subseteq Vanishing)',
         \A r \in Runs : (Shape(row[r]) /\ WorkflowOK(r))', (q # Idle => PassOK(q))'
  PROVE  LoneInv'
<1>1. \A o \in Reconcilers : rec'[o] = q
  BY DEF OneReconciler, IInv, TypeOK
<1>2. \A o \in Reconcilers : (rec[o] # Idle => PassOK(rec[o]))'
  BY <1>1 DEF PassOK
<1> QED BY <1>2 DEF LoneInv

LEMMA LoneApi ==
  ASSUME OneReconciler, IInv, LoneInv, NEW c \in Cancellers, CancelStep(c)
  PROVE  LoneInv'
<1> USE DEF dbVars, history
<1>1. TypeOK
  BY DEF IInv
<1>2. ASSUME NEW r \in Runs, CancelRead(c, r) PROVE LoneInv'
  <2>1. \A d \in Cancellers : canc'[d] = IF d = c THEN [pc |-> "decided", id |-> r, row |-> row[r]] ELSE canc[d]
    BY <1>1, <1>2 DEF TypeOK, CancelRead
  <2>2. Shape(row[r]) /\ ~ row[r].cleaned /\ ~ IsTerminal(row[r].status)
    BY <1>2 DEF LoneInv, Shape, CancelRead
  <2>3. \A d \in Cancellers : canc'[d] # Idle =>
          Shape(canc'[d].row) /\ ~ canc'[d].row.cleaned /\ ~ IsTerminal(canc'[d].row.status)
    BY <2>1, <2>2 DEF LoneInv
  <2> QED BY <1>2, <2>3, LoneQuiet DEF CancelRead
<1>3. ASSUME CancelGiveUp(c) PROVE LoneInv'
  <2>1. \A d \in Cancellers : canc'[d] = IF d = c THEN Idle ELSE canc[d]
    BY <1>1, <1>3 DEF TypeOK, CancelGiveUp
  <2> QED BY <1>3, <2>1, LoneQuiet DEF LoneInv, CancelGiveUp
<1>4. ASSUME CancelWrite(c) PROVE LoneInv'
  <2> DEFINE q == canc[c]
             new == CancelledRow(q.row)
  <2>1. /\ q # Idle /\ q \in Request /\ row[q.id].status = q.row.status
        /\ q.id \in Runs /\ q.row \in Row
        /\ UNCHANGED <<workflow, rec, created, repeated>>
        /\ row' = [row EXCEPT ![q.id] = new] /\ canc' = [canc EXCEPT ![c] = Idle]
    BY <1>1, <1>4, MemoryTyped DEF CancelWrite, Unmoved, Request
  <2>2. Shape(q.row) /\ ~ q.row.cleaned /\ ~ IsTerminal(q.row.status)
    BY <2>1 DEF LoneInv
  <2>3. /\ Shape(new) /\ ~ new.cleaned
        /\ q.row.status = "PENDING" => new.status = "CANCELLED" /\ ~ new.ref
    BY <2>1, <2>2 DEF CancelledRow, Row, Shape, IsTerminal
  <2>4. \A r \in Runs : row'[r] = IF r = q.id THEN new ELSE row[r]
    BY <1>1, <2>1 DEF TypeOK
  <2> HIDE DEF new
  <2>5. ASSUME NEW r \in Runs PROVE (Shape(row[r]) /\ WorkflowOK(r))'
    <3>1. Shape(row[r]) /\ WorkflowOK(r)
      BY DEF LoneInv
    <3> QED BY <2>1, <2>2, <2>3, <2>4, <3>1 DEF WorkflowOK
  <2>6. ASSUME NEW p \in Reconcilers, rec[p] # Idle PROVE PassOK(rec[p])'
    <3>1. PassOK(rec[p]) /\ rec[p].id \in Runs
      BY <1>1, <2>6, MemoryTyped DEF LoneInv, Pass
    <3>2. CASE rec[p].id = q.id
      <4>1. row'[q.id] = new /\ rec'[p] = rec[p] /\ workflow' = workflow
        BY <2>1, <2>4
      <4> QED BY <2>1, <2>2, <2>3, <3>1, <3>2, <4>1 DEF PassOK, IsTerminal
    <3>3. CASE rec[p].id # q.id
      <4>1. row'[rec[p].id] = row[rec[p].id] /\ rec'[p] = rec[p] /\ workflow' = workflow
        BY <2>1, <2>4, <3>1, <3>3
      <4> QED BY <3>1, <4>1 DEF PassOK
    <3> QED BY <3>2, <3>3
  <2>7. \A d \in Cancellers : canc'[d] = IF d = c THEN Idle ELSE canc[d]
    BY <1>1, <2>1 DEF TypeOK
  <2> QED BY <2>1, <2>5, <2>6, <2>7 DEF LoneInv
<1> QED BY <1>2, <1>3, <1>4 DEF CancelStep

LEMMA LoneCluster ==
  ASSUME OneReconciler, IInv, LoneInv, NEW r \in Runs, Create(r) \/ WorkflowStep(r)
  PROVE  LoneInv'
<1> USE DEF dbVars, history
<1>1. TypeOK
  BY DEF IInv
<1>2. CASE Create(r)
  <2>1. /\ row[r].status = "ABSENT" /\ UNCHANGED <<workflow, rec, canc, created, repeated>>
        /\ \A s \in Runs : row'[s] = IF s = r THEN Fresh ELSE row[s]
    BY <1>1, <1>2 DEF Create, Exists, Absent, TypeOK
  <2>2. ASSUME NEW s \in Runs PROVE (Shape(row[s]) /\ WorkflowOK(s))'
    <3>1. Shape(row[s]) /\ WorkflowOK(s)
      BY DEF LoneInv
    <3> QED BY <2>1, <3>1 DEF WorkflowOK, Shape, Fresh, IsTerminal
  <2>3. ASSUME NEW p \in Reconcilers, rec[p] # Idle PROVE PassOK(rec[p])'
    <3>1. PassOK(rec[p]) /\ rec[p].id \in Runs
      BY <1>1, <2>3, MemoryTyped DEF LoneInv, Pass
    <3> QED BY <2>1, <3>1 DEF PassOK, IsTerminal
  <2> QED BY <2>1, <2>2, <2>3 DEF LoneInv
<1>3. CASE WorkflowStep(r)
  <2>1. UNCHANGED <<row, rec, canc, created, repeated>>
    BY <1>3 DEF WorkflowStep, WorkflowStart, WorkflowEnd, WorkflowShutdown, WorkflowVanish, Advance
  <2>2. \/ r \in Vanishing /\ workflow' = [workflow EXCEPT ![r] = Gone]
        \/ \E phase \in Phase : workflow[r] # Gone /\ workflow' = [workflow EXCEPT ![r].phase = phase]
    BY <1>3 DEF WorkflowStep, WorkflowStart, WorkflowEnd, WorkflowShutdown, WorkflowVanish, Advance,
                Phase, Gone, Ended
  <2>3. \A s \in Runs : s # r => workflow'[s] = workflow[s]
    BY <1>1, <2>2 DEF TypeOK
  <2>4. workflow[r] = Gone => workflow'[r] = Gone
    BY <1>1, <2>2 DEF TypeOK
  <2>5. workflow[r] # Gone => workflow'[r] # Gone \/ r \in Vanishing
    <3>1. workflow[r] # Gone => workflow[r] \in Workflow
      BY <1>1 DEF TypeOK
    <3>2. ASSUME NEW phase \in Phase, workflow[r] # Gone PROVE [workflow[r] EXCEPT !.phase = phase] # Gone
      BY <3>1, <3>2 DEF Workflow, Phase, Gone
    <3> QED BY <1>1, <2>2, <3>1, <3>2 DEF TypeOK
  <2>6. ASSUME NEW s \in Runs PROVE (Shape(row[s]) /\ WorkflowOK(s))'
    <3>1. Shape(row[s]) /\ WorkflowOK(s)
      BY DEF LoneInv
    <3> QED BY <2>1, <2>3, <2>4, <2>5, <3>1 DEF WorkflowOK
  <2>7. ASSUME NEW p \in Reconcilers, rec[p] # Idle PROVE PassOK(rec[p])'
    <3>1. PassOK(rec[p]) /\ rec[p].id \in Runs
      BY <1>1, <2>7, MemoryTyped DEF LoneInv, Pass
    <3> QED BY <2>1, <2>3, <2>4, <3>1 DEF PassOK
  <2> QED BY <2>1, <2>6, <2>7 DEF LoneInv
<1> QED BY <1>2, <1>3

LEMMA LoneLoads ==
  ASSUME OneReconciler, IInv, LoneInv, NEW p \in Reconcilers, NEW r \in Runs,
         Load(p, r) \/ CleanLoad(p, r) \/ Abandon(p)
  PROVE  LoneInv'
<1> USE DEF dbVars, history
<1>1. Shape(row[r]) /\ \A s \in Runs : Shape(row[s]) /\ WorkflowOK(s)
  BY DEF LoneInv
<1>2. UNCHANGED <<row, workflow, canc, created, repeated>>
  BY DEF Load, CleanLoad, Abandon
<1>3. \A s \in Runs : (Shape(row[s]) /\ WorkflowOK(s))'
  BY <1>1, <1>2 DEF WorkflowOK
<1>4. PICK q : rec' = [rec EXCEPT ![p] = q] /\ (q # Idle => PassOK(q)')
  <2>1. CASE Abandon(p)
    BY <2>1 DEF Abandon
  <2>2. CASE Load(p, r) \/ CleanLoad(p, r)
    <3>1. PICK pc \in {"submit", "cancel", "delete"} :
            /\ rec' = [rec EXCEPT ![p] = [pc |-> pc, id |-> r, row |-> row[r], goal |-> row[r].status]]
            /\ pc = "submit" => row[r].status = "PENDING"
            /\ pc \in {"submit", "cancel"} => ~ IsTerminal(row[r].status)
            /\ pc = "delete" => IsTerminal(row[r].status) /\ row[r].ref
      BY <2>2 DEF Load, CleanLoad
    <3>2. PICK q : q = [pc |-> pc, id |-> r, row |-> row[r], goal |-> row[r].status]
      OBVIOUS
    <3>3. q.pc = pc /\ q.id = r /\ q.row = row[r]
      BY <3>2
    <3>4. PassOK(q)'
      BY <1>1, <1>2, <3>1, <3>3 DEF PassOK, Shape
    <3> QED BY <3>1, <3>2, <3>4
  <2> QED BY <2>1, <2>2
<1> QED BY <1>2, <1>3, <1>4, LonePass DEF LoneInv

LEMMA LoneSubmit ==
  ASSUME OneReconciler, IInv, LoneInv, NEW p \in Reconcilers, Submit(p)
  PROVE  LoneInv'
<1> DEFINE q == rec[p]
<1> USE DEF dbVars, history
<1>1. TypeOK /\ q \in Pass /\ PassOK(q) /\ q.pc = "submit" /\ q.id \in Runs
  BY MemoryTyped DEF IInv, LoneInv, Submit, Pass
<1>2. \A r \in Runs : Shape(row[r]) /\ WorkflowOK(r)
  BY DEF LoneInv
<1>3. UNCHANGED <<row, canc>>
  BY DEF Submit
<1>4. CreateWorkflow(q.id) \/ UNCHANGED <<workflow, created, repeated>>
  BY DEF Submit
<1>5. (repeated \subseteq Vanishing)'
  BY <1>1, <1>2, <1>4 DEF CreateWorkflow, LoneInv, PassOK, WorkflowOK
<1>6. ASSUME NEW r \in Runs PROVE (Shape(row[r]) /\ WorkflowOK(r))'
  <2>1. Submitted # Gone
    BY DEF Submitted, Gone
  <2>2. CASE UNCHANGED <<workflow, created>>
    BY <1>2, <1>3, <2>2 DEF WorkflowOK
  <2>3. CASE /\ workflow' = [workflow EXCEPT ![q.id] = Submitted] /\ created' = created \cup {q.id}
    <3>1. workflow'[r] = IF r = q.id THEN Submitted ELSE workflow[r]
      BY <1>1, <2>3 DEF TypeOK
    <3> QED BY <1>1, <1>2, <1>3, <2>1, <2>3, <3>1 DEF WorkflowOK, PassOK
  <2> QED BY <1>4, <2>2, <2>3 DEF CreateWorkflow
<1>7. PICK v : rec' = [rec EXCEPT ![p] = v] /\ \E goal : v = At(q, "write", q.row, goal)
  BY DEF Submit
<1>8. v.pc = "write" /\ v.row = q.row
  BY <1>7 DEF At
<1>9. PassOK(v)'
  BY <1>1, <1>8 DEF PassOK
<1> QED BY <1>3, <1>5, <1>6, <1>7, <1>9, LonePass

LEMMA LoneLooks ==
  ASSUME OneReconciler, IInv, LoneInv, NEW p \in Reconcilers, PassCancel(p) \/ Observe(p)
  PROVE  LoneInv'
<1> DEFINE q == rec[p]
<1> USE DEF dbVars, history
<1>1. TypeOK /\ q \in Pass /\ PassOK(q) /\ q.pc \in {"cancel", "observe"} /\ q.id \in Runs
  BY MemoryTyped DEF IInv, LoneInv, PassCancel, Observe, Pass
<1>2. \A r \in Runs : Shape(row[r]) /\ WorkflowOK(r)
  BY DEF LoneInv
<1>3. UNCHANGED <<row, canc, created, repeated>>
  BY DEF PassCancel, Observe
<1>4. \/ workflow' = workflow
      \/ workflow[q.id] # Gone /\ workflow' = [workflow EXCEPT ![q.id] = Terminated(workflow[q.id])]
  BY DEF PassCancel, Observe, Gone
<1>5. ASSUME NEW r \in Runs PROVE workflow[r] = Gone <=> workflow'[r] = Gone
  <2>1. workflow[q.id] # Gone => workflow[q.id] \in Workflow
    BY <1>1 DEF TypeOK
  <2>2. workflow[q.id] # Gone => Terminated(workflow[q.id]) # Gone
    BY <2>1 DEF Workflow, Phase, Terminated, Gone
  <2> QED BY <1>1, <1>4, <2>2 DEF TypeOK
<1>6. \A r \in Runs : (Shape(row[r]) /\ WorkflowOK(r))'
  BY <1>2, <1>3, <1>5 DEF WorkflowOK
<1>7. PICK v : /\ rec' = [rec EXCEPT ![p] = v]
               /\ v # Idle => \E pc \in {"observe", "write"} : \E goal : v = At(q, pc, q.row, goal)
  BY DEF PassCancel, Observe
<1>8. (v # Idle => PassOK(v))'
  BY <1>1, <1>7 DEF At, PassOK
<1> QED BY <1>3, <1>6, <1>7, <1>8, LonePass DEF LoneInv

LEMMA LoneWrite ==
  ASSUME OneReconciler, IInv, LoneInv, NEW p \in Reconcilers, Write(p)
  PROVE  LoneInv'
<1> DEFINE q == rec[p]
<1> USE DEF dbVars, history
<1>1. TypeOK /\ q \in Pass /\ PassOK(q) /\ q.pc = "write" /\ q.id \in Runs /\ q.row \in Row
  BY MemoryTyped DEF IInv, LoneInv, Write, Pass
<1>2. PICK s : /\ <<q.row.status, s>> \in RunEdges
               /\ row[q.id].status = q.row.status
               /\ row' = [row EXCEPT ![q.id] = Moved(q, s)]
               /\ rec' = [rec EXCEPT ![p] = AfterWrite(q, s)]
  BY DEF Write, Unmoved
<1>3. UNCHANGED <<workflow, canc, created, repeated>>
  BY DEF Write
<1> DEFINE new == Moved(q, s)
<1>4. ~ IsTerminal(row[q.id].status) /\ s # "PENDING"
  BY <1>2, EdgesSpelled
<1>5. Shape(new) /\ ~ new.cleaned
  BY <1>1, <1>4 DEF Moved, Shape, PassOK
<1>6. \A r \in Runs : row'[r] = IF r = q.id THEN new ELSE row[r]
  BY <1>1, <1>2 DEF TypeOK
<1>7. PICK v : /\ rec' = [rec EXCEPT ![p] = v]
               /\ v # Idle => v.pc \in {"cancel", "write"} /\ v.row = new
  <2>1. AfterWrite(q, s) # Idle => AfterWrite(q, s).pc \in {"cancel", "write"} /\ AfterWrite(q, s).row = new
    BY DEF AfterWrite, At
  <2> QED BY <1>2, <2>1
<1> HIDE DEF new
<1>8. ASSUME NEW r \in Runs PROVE (Shape(row[r]) /\ WorkflowOK(r))'
  <2>1. Shape(row[r]) /\ WorkflowOK(r)
    BY DEF LoneInv
  <2> QED BY <1>3, <1>4, <1>5, <1>6, <2>1 DEF WorkflowOK
<1>9. (v # Idle => PassOK(v))'
  BY <1>5, <1>7 DEF PassOK
<1> QED BY <1>3, <1>7, <1>8, <1>9, LonePass DEF LoneInv

LEMMA LoneCleans ==
  ASSUME OneReconciler, IInv, LoneInv, NEW p \in Reconcilers, CleanDelete(p) \/ CleanMark(p)
  PROVE  LoneInv'
<1> DEFINE q == rec[p]
<1> USE DEF dbVars, history
<1>1. /\ TypeOK /\ q \in Pass /\ PassOK(q) /\ q.pc \in {"delete", "mark"} /\ q.id \in Runs
      /\ IsTerminal(row[q.id].status) /\ row[q.id].ref
  BY MemoryTyped DEF IInv, LoneInv, CleanDelete, CleanMark, Pass, PassOK
<1>2. \A r \in Runs : Shape(row[r]) /\ WorkflowOK(r)
  BY DEF LoneInv
<1>3. UNCHANGED <<canc, created, repeated>>
  BY DEF CleanDelete, CleanMark
<1>4. CASE CleanDelete(p)
  <2>1. /\ row' = row /\ \A r \in Runs : workflow'[r] = IF r = q.id THEN Gone ELSE workflow[r]
        /\ rec' = [rec EXCEPT ![p] = At(q, "mark", q.row, q.goal)]
    BY <1>1, <1>4 DEF CleanDelete, TypeOK
  <2>2. \A r \in Runs : (Shape(row[r]) /\ WorkflowOK(r))'
    BY <1>1, <1>2, <1>3, <2>1 DEF WorkflowOK
  <2>3. PICK v : v = At(q, "mark", q.row, q.goal)
    OBVIOUS
  <2>4. v.pc = "mark" /\ v.id = q.id /\ v.row = q.row
    BY <2>3 DEF At
  <2>5. PassOK(v)'
    BY <1>1, <2>1, <2>4 DEF PassOK
  <2> QED BY <1>3, <2>1, <2>2, <2>3, <2>5, LonePass DEF LoneInv
<1>5. CASE CleanMark(p)
  <2>1. q.pc = "mark" /\ workflow[q.id] = Gone
    BY <1>1, <1>5 DEF CleanMark, PassOK
  <2>2. row[q.id] \in Row
    BY <1>1 DEF TypeOK, Absent, IsTerminal
  <2>3. /\ \A r \in Runs : r # q.id => row'[r] = row[r]
        /\ row'[q.id].status = row[q.id].status /\ row'[q.id].ref = row[q.id].ref
        /\ workflow' = workflow /\ rec' = [rec EXCEPT ![p] = Idle]
    BY <1>1, <1>5, <2>2 DEF CleanMark, TypeOK, Row
  <2>4. ASSUME NEW r \in Runs PROVE (Shape(row[r]) /\ WorkflowOK(r))'
    BY <1>1, <1>2, <1>3, <2>1, <2>3 DEF WorkflowOK, Shape
  <2> QED BY <1>3, <2>3, <2>4, LonePass DEF LoneInv
<1> QED BY <1>4, <1>5

LEMMA LoneStep ==
  ASSUME OneReconciler
  PROVE  IInv /\ LoneInv /\ [Next]_vars => LoneInv'
<1> SUFFICES ASSUME IInv, LoneInv, [Next]_vars PROVE LoneInv'
  OBVIOUS
<1>1. ASSUME NEW r \in Runs, Create(r) \/ WorkflowStep(r) PROVE LoneInv'
  BY <1>1, LoneCluster
<1>2. ASSUME NEW c \in Cancellers, CancelStep(c) PROVE LoneInv'
  BY <1>2, LoneApi
<1>3. ASSUME NEW p \in Reconcilers, ReconcilerStep(p) PROVE LoneInv'
  <2>1. CASE Abandon(p)
    <3>1. rec[p] \in Pass
      BY <2>1, MemoryTyped DEF Abandon, IInv
    <3>2. rec[p].id \in Runs
      BY <3>1 DEF Pass
    <3> QED BY <2>1, <3>2, LoneLoads
  <2> QED BY <1>3, <2>1, LoneLoads, LoneSubmit, LoneLooks, LoneWrite, LoneCleans DEF ReconcilerStep
<1>4. CASE UNCHANGED vars
  BY <1>4 DEF vars, LoneInv, WorkflowOK, PassOK
<1> QED BY <1>1, <1>2, <1>3, <1>4 DEF Next

LEMMA LoneCorrect == ASSUME OneReconciler PROVE Spec => []LoneInv
<1>1. Init => LoneInv
  BY DEF Init, LoneInv, Shape, WorkflowOK, Absent, Gone
<1>2. IInv /\ LoneInv /\ [Next]_vars => LoneInv'
  BY LoneStep
<1> QED BY <1>1, <1>2, InvCorrect, PTL DEF Spec

(* A lone reconciler never creates the workload of a run a second time, through *)
(* crashes between the submission and its record, adoption, cancellation and    *)
(* retention, unless somebody else deletes the workflow.                      *)
THEOREM OneWorkloadEach ==
  ASSUME OneReconciler, Vanishing = {}
  PROVE  Spec => []OneWorkload
<1>1. LoneInv => OneWorkload
  BY DEF LoneInv, OneWorkload
<1> QED BY <1>1, LoneCorrect, PTL

(* It removes workflows of finished runs only, and marks a run only when        *)
(* nothing is left of it, wherever a pass is cut off.                         *)
THEOREM RetentionSafe ==
  ASSUME OneReconciler
  PROVE  Spec => RetentionIsSafe
<1>1. LoneInv => CleanedLeavesNothing
  BY DEF LoneInv, WorkflowOK, CleanedLeavesNothing
<1>2. ASSUME IInv, LoneInv, Next, NEW r \in Runs \ Vanishing, workflow[r] # Gone, workflow'[r] = Gone
      PROVE  IsTerminal(row[r].status)
  <2> USE DEF dbVars, history
  <2>1. TypeOK
    BY <1>2 DEF IInv
  <2>2. ASSUME NEW p \in Reconcilers, ReconcilerStep(p) PROVE IsTerminal(row[r].status)
    <3>1. rec[p] # Idle => PassOK(rec[p]) /\ rec[p].id \in Runs
      BY <1>2, <2>1, MemoryTyped DEF LoneInv, Pass
    <3>2. CASE Submit(p)
      <4>1. Submitted # Gone
        BY DEF Submitted, Gone
      <4> QED BY <1>2, <2>1, <3>2, <4>1 DEF Submit, CreateWorkflow, TypeOK
    <3>3. CASE PassCancel(p) \/ Observe(p)
      <4>1. workflow[r] \in Workflow /\ Terminated(workflow[r]) # Gone
        BY <1>2, <2>1 DEF TypeOK, Workflow, Phase, Terminated, Gone
      <4> QED BY <1>2, <2>1, <3>3, <4>1 DEF PassCancel, Observe, TypeOK
    <3>4. CASE CleanDelete(p)
      <4>1. rec[p] # Idle /\ rec[p].pc = "delete"
        BY <2>1, <3>4, MemoryTyped DEF CleanDelete
      <4>2. r = rec[p].id
        BY <1>2, <2>1, <3>4 DEF CleanDelete, TypeOK
      <4> QED BY <3>1, <4>1, <4>2 DEF PassOK
    <3>5. CASE UNCHANGED workflow
      BY <1>2, <3>5
    <3> QED BY <2>2, <3>2, <3>3, <3>4, <3>5 DEF ReconcilerStep, Load, CleanLoad, Write, CleanMark, Abandon
  <2>3. ASSUME NEW s \in Runs, WorkflowStep(s) PROVE IsTerminal(row[r].status)
    <3>1. CASE WorkflowVanish(s)
      BY <1>2, <2>1, <3>1 DEF WorkflowVanish, TypeOK
    <3>2. CASE \E phase \in Phase : workflow' = [workflow EXCEPT ![s].phase = phase]
      <4>1. PICK phase \in Phase : workflow' = [workflow EXCEPT ![s].phase = phase]
        BY <3>2
      <4>2. workflow[r] \in Workflow /\ [workflow[r] EXCEPT !.phase = phase] # Gone
        BY <1>2, <2>1 DEF TypeOK, Workflow, Phase, Gone
      <4> QED BY <1>2, <2>1, <4>1, <4>2 DEF TypeOK
    <3> QED BY <2>3, <3>1, <3>2 DEF WorkflowStep, WorkflowStart, WorkflowEnd, WorkflowShutdown, Advance, Phase
  <2>4. CASE UNCHANGED workflow
    BY <1>2, <2>4
  <2> QED BY <1>2, <2>2, <2>3, <2>4 DEF Next, Create, CancelStep, CancelRead, CancelWrite, CancelGiveUp
<1>3. IInv /\ LoneInv /\ LoneInv' /\ [Next]_vars => [Retains]_vars
  BY <1>1, <1>2 DEF Retains, LoneInv, WorkflowOK, CleanedLeavesNothing
<1>4. LoneInv /\ IInv /\ [Next]_vars => LoneInv'
  BY LoneStep
<1>5. Spec => [][Retains]_vars
  BY <1>3, <1>4, InvCorrect, LoneCorrect, PTL DEF Spec
<1> QED BY <1>5 DEF RetentionIsSafe

=============================================================================
