----------------------------- MODULE RunPromise -----------------------------
(***************************************************************************)
(* What a run promises the person who started it, with the reconciler, the *)
(* stale rows and the retries left out: it moves along the documented      *)
(* lifecycle one edge at a time, it succeeds only when its workload has,   *)
(* and its result appears in the very step that records the success.       *)
(***************************************************************************)
CONSTANTS Runs, Publishing

VARIABLES
  status,     \* the recorded status of each run
  succeeded,  \* runs whose workload has succeeded
  published   \* runs whose result has been stored

vars == <<status, succeeded, published>>

Edge ==
  { <<"ABSENT", "PENDING">>,
    <<"PENDING", "SUBMITTED">>, <<"PENDING", "FAILED">>, <<"PENDING", "CANCELLED">>,
    <<"SUBMITTED", "RUNNING">>, <<"SUBMITTED", "FAILED">>, <<"SUBMITTED", "CANCELLED">>,
    <<"RUNNING", "FAILED">>, <<"RUNNING", "CANCELLED">> }

Init ==
  /\ status = [r \in Runs |-> "ABSENT"]
  /\ succeeded = {}
  /\ published = {}

(* Everything but success. *)
Move(r) ==
  /\ \E s \in {"PENDING", "SUBMITTED", "RUNNING", "FAILED", "CANCELLED"} :
       /\ <<status[r], s>> \in Edge
       /\ status' = [status EXCEPT ![r] = s]
  /\ UNCHANGED <<succeeded, published>>

WorkloadSucceeds(r) ==
  /\ succeeded' = succeeded \cup {r}
  /\ UNCHANGED <<status, published>>

Succeed(r) ==
  /\ status[r] = "RUNNING"
  /\ r \in succeeded
  /\ status' = [status EXCEPT ![r] = "SUCCEEDED"]
  /\ published' = published \cup ({r} \cap Publishing)
  /\ UNCHANGED succeeded

Next == \E r \in Runs : Move(r) \/ WorkloadSucceeds(r) \/ Succeed(r)

Spec == Init /\ [][Next]_vars

=============================================================================
