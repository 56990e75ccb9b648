------------------------------ MODULE Leadership ------------------------------
(* Which reconciler works: adapters/kubernetes/leadership.py with               *)
(* reconciliation/watchdog.py and the loop of reconciler_main.py.               *)
(*                                                                          *)
(* Two or more processes share one Lease in Kubernetes. A process reads it,       *)
(* judges how long it has seen it unchanged, and replaces it under the version     *)
(* that it read. A leader renews it from a thread of its own, and stops for good    *)
(* when somebody else holds it or its last renewal is too long ago.             *)
(*                                                                          *)
(* Clocks are ages, kept as long as they matter: ticks of equal length for all     *)
(* processes. A call to Kubernetes ends within CallLimit, and a thread runs when    *)
(* it is due: no process is suspended. Duration, Deadline and Retry are those of    *)
(* the settings.                                                             *)
EXTENDS Integers

CONSTANTS
  Processes, Duration, Deadline, Retry, CallLimit,
  WatchLimit,   \* reconciler_watchdog_seconds
  MaxFaults

(* LeaseLeadership refuses any other settings.                                *)
ASSUME LeaseAssumption ==
  /\ Duration \in Nat /\ Deadline \in Nat /\ Retry \in Nat
  /\ CallLimit \in Nat /\ WatchLimit \in Nat
  /\ 0 < Retry /\ Retry < Deadline /\ Deadline < Duration
ASSUME ProcessAssumption == Processes \cap {"none", "gone"} = {}

VARIABLES
  holder,     \* "none": there is no Lease; "gone": a process that is no more
  process,
  faults

vars == <<holder, process, faults>>

(* pc and since: what the election thread does, and for how long; began: the age  *)
(* of now of its attempt. seen: the Lease is as it was observed, at an age of      *)
(* observed; fresh: it is as it was read. confirmed: the age of the last renewal.  *)
(* stall: how long the main thread has made no progress, if it hangs.           *)
New ==
  [mode |-> "standby", pc |-> "wait", since |-> Retry, began |-> 0,
   seen |-> FALSE, observed |-> 0, fresh |-> FALSE, confirmed |-> 0, hangs |-> FALSE, stall |-> 0]
Dead == [New EXCEPT !.mode = "dead", !.since = 0]

Init ==
  /\ holder = "none"
  /\ process = [p \in Processes |-> New]
  /\ faults = 0

Leads(p) == process[p].mode = "leading"
Limit    == Deadline + Retry + 2 * CallLimit    \* a leader stops within

Fault == faults < MaxFaults /\ faults' = faults + 1

(* The identity of a process ends with it.                                   *)
Becomes(p, x) ==
  /\ process' = [process EXCEPT ![p] = x]
  /\ holder' = IF x.mode = "dead" /\ holder = p THEN "gone" ELSE holder

Waits(x) == [x EXCEPT !.pc = "wait", !.since = 0, !.began = 0, !.fresh = FALSE]

(* Mutant: a leader whose renewals fail goes on until it sees another. *)
AfterFailure_GoesOn(x) == Waits(x)
(* No attempt raises: it failed, and a leader asks how long it has been.        *)
AfterFailure(x) ==
  IF x.mode = "leading" /\ x.confirmed >= Deadline THEN Dead ELSE Waits(x)

-----------------------------------------------------------------------------
(* An attempt.                                                              *)

Start(p) ==
  /\ process[p].mode # "dead" /\ process[p].pc = "wait" /\ process[p].since = Retry
  /\ Becomes(p, [process[p] EXCEPT !.pc = "read", !.since = 0])
  /\ UNCHANGED faults

(* observed_at is the start of the first attempt that saw the Lease as it is.    *)
Observed(x) == IF x.seen THEN x ELSE [x EXCEPT !.seen = TRUE, !.observed = x.began]

(* Mutant: the deadline of the leader is taken for the duration of the Lease. *)
Expired_Deadline(x) == x.observed - x.began >= Deadline
Expired(x) == x.observed - x.began >= Duration

Read(p) ==
  LET x == Observed(process[p])
  IN /\ process[p].pc = "read"
     /\ Becomes(p, IF holder \in {"none", p} THEN [x EXCEPT !.pc = "write", !.since = 0, !.fresh = TRUE]
                   ELSE IF x.mode = "leading" THEN Dead
                   ELSE IF Expired(x) THEN [x EXCEPT !.pc = "write", !.since = 0, !.fresh = TRUE]
                   ELSE Waits(x))
     /\ UNCHANGED faults

(* Mutant: the version is not part of what is compared. *)
Unseen_SameHolder(x) == [x EXCEPT !.fresh = FALSE]
Unseen(x) == [x EXCEPT !.seen = FALSE, !.observed = 0, !.fresh = FALSE]

(* Kubernetes replaces the Lease, which is then new to everybody; or has another  *)
(* version, and the attempt failed.                                          *)
Write(p) ==
  /\ process[p].pc = "write"
  /\ UNCHANGED faults
  /\ IF process[p].fresh
     THEN /\ holder' = p
          /\ process' = [q \in Processes |->
               LET x == Unseen(process[q])
               IN IF q = p THEN [x EXCEPT !.pc = "reply"] ELSE IF x.mode = "dead" THEN Dead ELSE x]
     ELSE Becomes(p, AfterFailure(process[p]))

Confirm(p) ==
  /\ process[p].pc = "reply"
  /\ Becomes(p, [Waits(process[p]) EXCEPT !.mode = "leading", !.confirmed = 0])
  /\ UNCHANGED faults

(* A call fails, before or after it took effect.                              *)
CallFails(p) ==
  /\ process[p].pc \in {"read", "write", "reply"} /\ Fault
  /\ Becomes(p, AfterFailure(process[p]))

-----------------------------------------------------------------------------
(* The process. Its main thread works while it leads.                          *)

Hang(p) ==
  /\ Leads(p) /\ ~process[p].hangs /\ Fault
  /\ Becomes(p, [process[p] EXCEPT !.hangs = TRUE])

(* Mutant: the renewal thread counts as progress. *)
Watched_Renewing(p) == FALSE
Watched(p) == process[p].hangs /\ process[p].stall >= WatchLimit

Watch(p) ==
  /\ Watched(p)
  /\ Becomes(p, Dead)
  /\ UNCHANGED faults

Crash(p) ==
  /\ process[p].mode # "dead" /\ Fault
  /\ Becomes(p, Dead)

(* Under a new identity.                                                     *)
Restart(p) ==
  /\ process[p].mode = "dead"
  /\ Becomes(p, New)
  /\ UNCHANGED faults

UpTo(age, most) == IF age < most THEN age + 1 ELSE most

Older(x) ==
  IF x.mode = "dead" THEN x
  ELSE [x EXCEPT
         !.since = @ + 1,
         !.began = IF x.pc = "wait" THEN 0 ELSE @ + 1,
         !.observed = IF x.seen /\ x.mode = "standby" THEN UpTo(@, Duration + 2 * CallLimit) ELSE 0,
         !.confirmed = IF x.mode = "leading" THEN UpTo(@, Limit + 1) ELSE 0,
         !.stall = IF x.hangs THEN UpTo(@, WatchLimit) ELSE 0]

(* Nobody is late for anything.                                              *)
Tick ==
  /\ \A p \in Processes :
       LET x == process[p]
       IN /\ x.mode # "dead" => x.since < IF x.pc = "wait" THEN Retry ELSE CallLimit
          /\ x.stall < WatchLimit
  /\ process' = [p \in Processes |-> Older(process[p])]
  /\ UNCHANGED <<holder, faults>>

Attempt(p) == Start(p) \/ Read(p) \/ Write(p) \/ Confirm(p)

Next ==
  \/ \E p \in Processes :
       Attempt(p) \/ CallFails(p) \/ Hang(p) \/ Watch(p) \/ Crash(p) \/ Restart(p)
  \/ Tick

Fairness ==
  /\ WF_vars(Tick)
  /\ \A p \in Processes : WF_vars(Attempt(p)) /\ WF_vars(Watch(p)) /\ WF_vars(Restart(p))

Spec == Init /\ [][Next]_vars /\ Fairness

-----------------------------------------------------------------------------
(* Properties.                                                              *)

(* "Fail-stop on renewal loss": whatever fails, no process works as long as        *)
(* Limit after the last renewal that Kubernetes confirmed to it.                *)
StaleLeaderStops == \A p \in Processes : Leads(p) => process[p].confirmed < Limit

(* The Lease coordinates a takeover: as long as a leader renewed it, by what it   *)
(* knows, less than Duration - 2 * CallLimit ago, it is nobody else's, and no      *)
(* other process leads that could say the same.                                *)
LeadershipIsKept ==
  \A p \in Processes :
    Leads(p) /\ process[p].confirmed < Duration - 2 * CallLimit =>
      /\ holder = p
      /\ \A q \in Processes \ {p} :
           Leads(q) => process[q].confirmed >= Duration - 2 * CallLimit

(* Whatever crashes, hangs or is cut off, there is always again a process that    *)
(* leads and works.                                                          *)
WorkGoesOn == []<>(\E p \in Processes : Leads(p) /\ ~process[p].hangs)

=============================================================================
