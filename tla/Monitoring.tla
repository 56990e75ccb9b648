----------------------------- MODULE Monitoring -----------------------------
(* How a published dataset starts monitoring checks:                           *)
(* controlplane/application/monitoring_automation.py with                      *)
(* persistence/monitoring_automation.py, and the two ways a dataset is          *)
(* published, publish_dataset of data_catalog.py and publish_output of          *)
(* batch_inference.py.                                                        *)
(*                                                                          *)
(* A dataset and its event are committed together. A dispatcher takes the       *)
(* oldest event under a row lock, locks the project, and adds one execution     *)
(* for each rule that watches the dataset; an execution starts a run at once,   *)
(* fails, or waits for the feedback of its date until a deadline. Dispatchers   *)
(* of two leaders may overlap.                                               *)
EXTENDS Naturals, Sequences, FiniteSetsExt

CONSTANTS
  Rules, Dispatchers,
  Uploads,    \* what may be published: records of name, date and fits
  WantsFeedback,  \* the rules that wait for feedback
  Patience,   \* feedback_deadline_seconds
  Retry,      \* the pause between two looks for feedback
  MaxTime,    \* the end of time: deadlines lie no later
  MaxDatasets,
  MaxTroubles \* how often a request or a fault interferes

VARIABLES
  clock,
  ready,      \* the project is READY
  rule,       \* the rules
  dataset,    \* the versions published, oldest first
  execution,  \* per rule and version
  runs,       \* per rule and version: how many runs were created
  output,     \* the batch result whose publication is under way: its time
  worker,     \* the dispatchers
  owed,       \* history, per version: the rules enabled ever since it was published
  troubles

vars == <<clock, ready, rule, dataset, execution, runs, output, worker, owed, troubles>>

None  == [status |-> "none"]
Never == MaxTime + 1

(* A version: u.fits when it has the validated connection, and columns the      *)
(* rules can use.                                                           *)
Version(u, created) ==
  [name |-> u.name, date |-> u.date, fits |-> u.fits, created |-> created, processed |-> FALSE]

Idle == [pc |-> "idle", item |-> <<>>, now |-> 0]

(* Both catalogs exist before rules do; nothing of them is left to process.    *)
Init ==
  /\ clock = 0 /\ ready = TRUE
  /\ rule = [r \in Rules |-> [enabled |-> FALSE, created |-> Never]]
  /\ dataset = [d \in 1 .. 2 |-> [name |-> <<"observed", "feedback">>[d], date |-> "earlier",
                                 fits |-> TRUE, created |-> 0, processed |-> TRUE]]
  /\ execution = [e \in Rules \X (1 .. MaxDatasets) |-> None]
  /\ runs = [e \in Rules \X (1 .. MaxDatasets) |-> 0]
  /\ output = Never
  /\ worker = [w \in Dispatchers |-> Idle]
  /\ owed = [d \in 1 .. MaxDatasets |-> {}]
  /\ troubles = 0

Exists(r)    == rule[r].created # Never
Later(t, n)  == Min({t + n, MaxTime})
Versions     == 1 .. Len(dataset)
Executions   == {e \in Rules \X Versions : execution[e] # None}

-----------------------------------------------------------------------------
(* Requests. Each locks the project, so that it takes effect at once.          *)

Trouble == troubles < MaxTroubles /\ troubles' = troubles + 1

Latest(name) == Max({d \in Versions : dataset[d].name = name})

(* The rule is validated against the latest versions.                         *)
CreateRule(r) ==
  /\ ~Exists(r) /\ ready
  /\ dataset[Latest("observed")].fits
  /\ r \in WantsFeedback => dataset[Latest("feedback")].fits
  /\ rule' = [rule EXCEPT ![r] = [enabled |-> TRUE, created |-> clock]]
  /\ UNCHANGED <<clock, ready, dataset, execution, runs, output, worker, owed, troubles>>

(* A request that shows an older revision is refused and changes nothing.      *)
SetEnabled(r, enabled) ==
  /\ Exists(r) /\ rule[r].enabled # enabled /\ Trouble
  /\ rule' = [rule EXCEPT ![r].enabled = enabled]
  /\ owed' = [d \in DOMAIN owed |->
                IF enabled \/ (d \in Versions /\ dataset[d].processed) THEN owed[d] ELSE owed[d] \ {r}]
  /\ UNCHANGED <<clock, ready, dataset, execution, runs, output, worker>>

(* The version, and its event.                                               *)
Published(v) ==
  /\ Len(dataset) < MaxDatasets
  /\ dataset' = Append(dataset, v)
  /\ owed' = [owed EXCEPT ![Len(dataset) + 1] = {r \in Rules : Exists(r) /\ rule[r].enabled}]

Publish ==
  /\ ready
  /\ \E u \in Uploads : Published(Version(u, clock))
  /\ UNCHANGED <<clock, ready, rule, execution, runs, output, worker, troubles>>

(* A batch run succeeds: the reconciler reads its clock, and locks the project  *)
(* some time later.                                                         *)
ReadClock ==
  /\ output = Never /\ Trouble
  /\ output' = clock
  /\ UNCHANGED <<clock, ready, rule, dataset, execution, runs, worker, owed>>

PublishOutput ==
  /\ output # Never
  /\ \E u \in Uploads : u.name = "observed" /\ Published(Version(u, output))
  /\ output' = Never
  /\ UNCHANGED <<clock, ready, rule, execution, runs, worker, troubles>>

(* The project is deleted.                                                   *)
Unready ==
  /\ ready /\ Trouble
  /\ ready' = FALSE
  /\ UNCHANGED <<clock, rule, dataset, execution, runs, output, worker, owed>>

-----------------------------------------------------------------------------
(* The dispatcher. A pass takes events first and then executions that wait, at  *)
(* most fifty of each; the next pass goes on, so any order of the two is one     *)
(* that passes can have.                                                    *)

Goes(w, k) == worker' = [worker EXCEPT ![w] = k]

(* Mutant: row locks are not asked for. *)
Locked_Never(item) == FALSE
Locked(item) == \E w \in Dispatchers : worker[w].pc \in {"event", "wait"} /\ worker[w].item = item

Pending == {d \in Versions : ~dataset[d].processed /\ ~Locked(<<d>>)}
Oldest  == {d \in Pending : \A o \in Pending : dataset[d].created <= dataset[o].created}

TakeEvent(w) ==
  /\ worker[w].pc = "idle"
  /\ \E d \in Oldest : Goes(w, [Idle EXCEPT !.pc = "event", !.item = <<d>>])
  /\ UNCHANGED <<clock, ready, rule, dataset, execution, runs, output, owed, troubles>>

(* dataset_for_date: the latest one. *)
FeedbackFor(d) ==
  LET found == {f \in Versions : dataset[f].name = "feedback" /\ dataset[f].date = dataset[d].date}
  IN IF found = {} THEN 0 ELSE Max(found)

Failed(x, why)   == [x EXCEPT !.status = "FAILED", !.reason = why]
Waiting(x, now)  == [x EXCEPT !.next = Later(now, Retry)]
(* The check is built, and its run created with it.                           *)
Started(x, f)    == [x EXCEPT !.status = "DISPATCHED", !.feedback = f]

(* Mutant: the deadline is looked at first. *)
Dispatched_DeadlineFirst(r, d, x, now) ==
  IF r \in WantsFeedback /\ now >= x.deadline THEN Failed(x, "deadline")
  ELSE IF r \in WantsFeedback /\ FeedbackFor(d) = 0 THEN Waiting(x, now)
  ELSE Started(x, IF r \in WantsFeedback THEN FeedbackFor(d) ELSE 0)

(* What _dispatch makes of execution x of rule r for version d.                *)
Dispatched(r, d, x, now) ==
  LET wants == r \in WantsFeedback
      f     == IF wants THEN FeedbackFor(d) ELSE 0
  IN IF wants /\ dataset[d].date = "none" THEN Failed(x, "undated")
     ELSE IF wants /\ f = 0
          THEN IF now >= x.deadline THEN Failed(x, "deadline") ELSE Waiting(x, now)
     ELSE IF ~dataset[d].fits \/ (f # 0 /\ ~dataset[f].fits) THEN Failed(x, "unfit")
     ELSE IF ~ready THEN Failed(x, "project")
     ELSE Started(x, f)

New(r, now) ==
  [status |-> "WAITING_FEEDBACK", reason |-> "", feedback |-> 0,
   deadline |-> Later(now, Patience), next |-> now]

(* Mutant: every rule of the project. *)
Matches_Always(r, d) == Exists(r) /\ rule[r].enabled
(* No backfill: a rule sees what is published after it was created.            *)
Matches(r, d) ==
  /\ Exists(r) /\ rule[r].enabled
  /\ rule[r].created <= dataset[d].created
  /\ dataset[d].name = "observed"

(* Mutant: the first rule that matches is the one that counts. *)
Matching_One(d) == IF \E r \in Rules : Matches(r, d) THEN {CHOOSE r \in Rules : Matches(r, d)} ELSE {}
Matching(d) == {r \in Rules : Matches(r, d) /\ execution[<<r, d>>] = None}

RunsOf(new) ==
  [e \in DOMAIN runs |->
     IF new[e].status = "DISPATCHED" /\ execution[e].status # "DISPATCHED" THEN runs[e] + 1 ELSE runs[e]]

(* The project is locked, and all that follows from the event is committed.    *)
HandleEvent(w) ==
  LET d   == worker[w].item[1]
      new == [e \in DOMAIN execution |->
                IF e[2] = d /\ e[1] \in Matching(d)
                THEN Dispatched(e[1], d, New(e[1], clock), clock) ELSE execution[e]]
  IN /\ worker[w].pc = "event"
     /\ execution' = new /\ runs' = RunsOf(new)
     /\ dataset' = [dataset EXCEPT ![d].processed = TRUE]
     /\ Goes(w, Idle)
     /\ UNCHANGED <<clock, ready, rule, output, owed, troubles>>

Due == {e \in Executions : /\ execution[e].status = "WAITING_FEEDBACK"
                           /\ execution[e].next <= clock /\ ~Locked(e)}

TakeWaiting(w) ==
  /\ worker[w].pc = "idle"
  /\ \E e \in Due :
       /\ \A o \in Due : execution[e].next <= execution[o].next
       /\ Goes(w, [pc |-> "wait", item |-> e, now |-> clock])
  /\ UNCHANGED <<clock, ready, rule, dataset, execution, runs, output, owed, troubles>>

(* The time is that of the look; the row of the execution is written whole.    *)
HandleWaiting(w) ==
  LET e   == worker[w].item
      new == [execution EXCEPT ![e] =
                Dispatched(e[1], e[2], [@ EXCEPT !.status = "WAITING_FEEDBACK"], worker[w].now)]
  IN /\ worker[w].pc = "wait"
     /\ execution' = new /\ runs' = RunsOf(new)
     /\ Goes(w, Idle)
     /\ UNCHANGED <<clock, ready, rule, dataset, output, owed, troubles>>

(* The transaction fails or its process dies; the pass is over.               *)
Lost(w) ==
  /\ worker[w].pc # "idle"
  /\ Trouble
  /\ Goes(w, Idle)
  /\ UNCHANGED <<clock, ready, rule, dataset, execution, runs, output, owed>>

Tick ==
  /\ clock < MaxTime
  /\ clock' = clock + 1
  /\ UNCHANGED <<ready, rule, dataset, execution, runs, output, worker, owed, troubles>>

Pass(w) == TakeEvent(w) \/ HandleEvent(w) \/ TakeWaiting(w) \/ HandleWaiting(w)

Next ==
  \/ \E r \in Rules : CreateRule(r) \/ \E enabled \in BOOLEAN : SetEnabled(r, enabled)
  \/ Publish \/ ReadClock \/ PublishOutput \/ Unready
  \/ \E w \in Dispatchers : Pass(w) \/ Lost(w)
  \/ Tick

Fairness == WF_vars(Tick) /\ \A w \in Dispatchers : WF_vars(Pass(w))

Spec == Init /\ [][Next]_vars /\ Fairness

-----------------------------------------------------------------------------
(* Properties.                                                              *)

(* An event that was processed has left one execution for every rule that was   *)
(* there, by the time in the version, and enabled from its publication on;      *)
(* none is there before, nor for a version older than the rule; and each has    *)
(* one run if it was dispatched and none otherwise, whichever dispatchers       *)
(* overlapped, failed or died.                                               *)
IntentsAreKept ==
  /\ \A d \in Versions : dataset[d].processed /\ dataset[d].name = "observed" =>
       \A r \in owed[d] : rule[r].created <= dataset[d].created => execution[<<r, d>>] # None
  /\ \A e \in Executions :
       /\ dataset[e[2]].processed /\ dataset[e[2]].name = "observed"
       /\ rule[e[1]].created <= dataset[e[2]].created
       /\ runs[e] = IF execution[e].status = "DISPATCHED" THEN 1 ELSE 0

(* What an execution may become: see DecisionsByTheBook.                       *)
Decides(e) ==
  LET old == execution[e]
      new == execution'[e]
      fb  == {f \in Versions : dataset[f].name = "feedback" /\ dataset[f].date = dataset[e[2]].date}
  IN /\ old.status \in {"DISPATCHED", "FAILED"} => new = old
     /\ new.status = "DISPATCHED" /\ new # old =>
          new.feedback = IF e[1] \in WantsFeedback THEN Max(fb) ELSE 0
     /\ new.status = "FAILED" /\ new # old =>
          \/ new.reason = "deadline" /\ fb = {} /\ clock >= new.deadline
          \/ new.reason = "undated" /\ e[1] \in WantsFeedback
          \/ new.reason \in {"unfit", "project"}

(* An execution is decided once: it starts with the latest feedback of its date *)
(* at that moment, and is given up for want of feedback only after its          *)
(* deadline and while there is none, however late, or by whom, it is looked at. *)
DecisionsByTheBook == [][\A e \in DOMAIN execution : Decides(e)]_vars

(* "A project monitoring rule watches future versions of a named observed       *)
(* dataset" (docs/monitoring-automation.md): versions published after the rule  *)
(* was created. The version of a batch output bears a time read before.         *)
WatchesFutureVersions ==
  \A d \in Versions : dataset[d].processed /\ dataset[d].name = "observed" =>
    \A r \in owed[d] : execution[<<r, d>>] # None

(* Once nothing more is published, every event is processed, and every          *)
(* execution that waits is decided, with or without feedback.                  *)
EveryIntentDecided ==
  <>[](/\ \A d \in Versions : dataset[d].processed
       /\ \A e \in Executions : execution[e].status \in {"DISPATCHED", "FAILED"})

=============================================================================
