--------------------------- MODULE MCRuns -----------------------------------
(* Two instances of RunLifecycle for TLC, side by side: a behaviour              *)
(* of RunsSpec is one of overlapping leaders without retention, or one of a      *)
(* single leader with it.                                                        *)
EXTENDS RunLifecycle

CONSTANT
  Leader       \* the reconciler that works alone

VARIABLE part     \* "overlap" or "alone": the part this behaviour is about

Alone == INSTANCE RunLifecycle WITH Retention <- TRUE, Vanishing <- {}

(* The other reconcilers do nothing.                                           *)
Alonely == part = "alone" /\ rec' = [p \in Reconcilers |-> IF p = Leader THEN rec'[p] ELSE Idle]

runs == <<vars, part>>

RunsInit == Init /\ part \in {"overlap", "alone"}

RunsNext ==
  /\ \/ part = "overlap" /\ Next
     \/ Alone!Next /\ Alonely
  /\ UNCHANGED part

(* That of RunLifecycle, for the leader that works alone.                       *)

RunsFairness ==
  /\ \A r \in Runs :
       /\ SF_runs(Alone!Load(Leader, r) /\ Alonely /\ UNCHANGED part)
       /\ SF_runs(Alone!CleanLoad(Leader, r) /\ Alonely /\ UNCHANGED part)
       /\ WF_runs(Alone!WorkflowShutdown(r) /\ Alonely /\ UNCHANGED part)
       /\ WF_runs(Alone!WorkflowEnd(r) /\ Alonely /\ UNCHANGED part)
  /\ SF_runs(Alone!Submit(Leader) /\ Alonely /\ UNCHANGED part)
  /\ SF_runs(Alone!PassCancel(Leader) /\ Alonely /\ UNCHANGED part)
  /\ SF_runs(Alone!Observe(Leader) /\ Alonely /\ UNCHANGED part)
  /\ SF_runs(Alone!Write(Leader) /\ Alonely /\ UNCHANGED part)
  /\ SF_runs(Alone!CleanDelete(Leader) /\ Alonely /\ UNCHANGED part)
  /\ SF_runs(Alone!CleanMark(Leader) /\ Alonely /\ UNCHANGED part)

RunsSpec == RunsInit /\ [][RunsNext]_runs /\ RunsFairness

(* OneWorkload and RetentionIsSafe, where one leader works: no run has two workflows,  *)
(* and none is deleted before its run is over and its outcome recorded.               *)
AloneIsSafe == [][part = "alone" => OneWorkload' /\ Alone!Retains]_vars

(* EveryRunEnds and EveryWorkflowCleaned, there: a run that was accepted ends,   *)
(* and then its workflow is removed.                                           *)
AloneRunsEnd ==
  \A r \in Runs :
    /\ (part = "alone" /\ Exists(r)) ~> IsTerminal(row[r].status)
    /\ (part = "alone" /\ Exists(r) /\ IsTerminal(row[r].status) /\ row[r].ref) ~> row[r].cleaned

=============================================================================
