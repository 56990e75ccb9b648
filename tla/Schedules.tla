----------------------------- MODULE Schedules ------------------------------
(***************************************************************************)
(* Scheduled jobs and pipelines. A schedule has a cursor, the instant of    *)
(* its next occurrence. A dispatcher pass first looks again at the oldest   *)
(* queued occurrence of each schedule, then records the occurrences that    *)
(* have come due, and starts a run for those its concurrency policy lets    *)
(* through. Each schedule is handled in one transaction, which holds the    *)
(* lock of the schedule's row and, once it has an occurrence to decide, the *)
(* advisory lock of the target. Its writes are seen when it commits, the    *)
(* writes of others while it runs: requests that edit a schedule, runs that *)
(* end, and a second dispatcher when two leaders overlap.                  *)
(*                                                                         *)
(* Time is counted in units of the shortest cron interval. Between executions *)
(* due at one instant the order is that of random ids; here it is that of   *)
(* their schedules.                                                        *)
(***************************************************************************)
EXTENDS Naturals, Sequences, FiniteSets

CONSTANTS
  Ids,          \* the ids of the schedules, which break ties between instants
  Target,       \* the job or pipeline each schedule starts
  Dispatchers,  \* reconciler processes; one, unless two leaders overlap
  Crons,        \* the intervals a schedule can have
  Policies, Scopes, MissedPolicies,   \* the settings a schedule can have
  Deadline,     \* deadline_seconds: how late an occurrence may start
  QueueTTL,     \* queue_ttl_seconds
  MaxQueue,     \* max_queue_size
  OccurrenceLimit,   \* occurrences of one schedule handled in a pass
  MaxTime,      \* bound on the clock
  MaxEdits,     \* bound on the requests that edit a schedule
  MaxFaults     \* bound on failed transactions and refused occurrences

ASSUME SchedulesAssumption ==
  /\ Ids \subseteq Nat /\ IsFiniteSet(Ids)
  /\ Crons \subseteq Nat \ {0}
  /\ Policies \subseteq {"ALLOW", "FORBID", "QUEUE"}
  /\ Scopes \subseteq {"SCHEDULE", "TARGET"}
  /\ MissedPolicies \subseteq {"SKIP", "CATCH_UP"}
  /\ {Deadline, MaxTime, MaxEdits, MaxFaults} \subseteq Nat
  /\ {QueueTTL, MaxQueue, OccurrenceLimit} \subseteq Nat \ {0}

VARIABLES
  now,          \* the clock
  sched,        \* the schedules rows
  execs,        \* the schedule_executions rows, by schedule and instant
  proc,         \* what each dispatcher is doing
  edits, faults,   \* how many there have been
  since         \* history: when each schedule got the cron it has

vars == <<now, sched, execs, proc, edits, faults, since>>

-----------------------------------------------------------------------------
NextOccurrence(every, t) == (t \div every + 1) * every

Schedule  == [paused : BOOLEAN, every : Crons, policy : Policies, scope : Scopes,
              missed : MissedPolicies, next : Nat]
Execution == [policy : Policies, scope : Scopes, expires : Nat,
              status : {"QUEUED", "DISPATCHED", "SKIPPED", "MISSED"},
              run : {"none", "open", "ended"}]

(* A dispatcher: the time its pass began, the queued occurrences and the due *)
(* schedules it has still to visit; then the transaction it is in: the       *)
(* schedule whose row it has locked, whether it has the target's lock, how   *)
(* many occurrences it may still take, and the cursor and the executions it  *)
(* will commit.                                                            *)
Visit(at, heads, due) ==
  [at |-> at, heads |-> heads, due |-> due,
   txn |-> "none", id |-> 0, coordinated |-> FALSE, left |-> 0, next |-> 0, news |-> << >>]
Idle == Visit(0, << >>, << >>)

Keys  == Ids \X (0 .. MaxTime)
Visits(rows) ==
  [at : 0 .. now, heads : Seq(Keys), due : Seq(Ids), txn : {"none", "head", "due"}, id : Ids \cup {0},
   coordinated : BOOLEAN, left : 0 .. OccurrenceLimit, next : Nat, news : [rows -> Execution]]

TypeOK ==
  /\ now \in 0 .. MaxTime
  /\ sched \in [Ids -> Schedule]
  /\ DOMAIN execs \subseteq Keys /\ execs \in [DOMAIN execs -> Execution]
  /\ \A k \in DOMAIN execs :
       /\ execs[k].run # "none" <=> execs[k].status = "DISPATCHED"
       /\ execs[k].status = "QUEUED" => execs[k].policy = "QUEUE"
  /\ DOMAIN proc = Dispatchers
  /\ \A d \in Dispatchers :
       /\ proc[d] \in Visits(DOMAIN proc[d].news) /\ DOMAIN proc[d].news \subseteq Keys
       /\ \A i \in DOMAIN proc[d].heads : proc[d].heads[i] \in DOMAIN execs
  /\ edits \in 0 .. MaxEdits /\ faults \in 0 .. MaxFaults
  /\ since \in [Ids -> 0 .. MaxTime]

Init ==
  /\ now = 0
  /\ \E every \in [Ids -> Crons], policy \in [Ids -> Policies],
        scope \in [Ids -> Scopes], missed \in [Ids -> MissedPolicies] :
       sched = [s \in Ids |-> [paused |-> FALSE, every |-> every[s], policy |-> policy[s],
                               scope |-> scope[s], missed |-> missed[s],
                               next |-> NextOccurrence(every[s], 0)]]
  /\ execs = << >>
  /\ proc = [d \in Dispatchers |-> Idle]
  /\ edits = 0 /\ faults = 0
  /\ since = [s \in Ids |-> 0]


-----------------------------------------------------------------------------
(* What a transaction sees and holds.                                       *)

Over(db, news) == [k \in DOMAIN db \cup DOMAIN news |-> IF k \in DOMAIN news THEN news[k] ELSE db[k]]
Only(k, e)     == [j \in {k} |-> e]
Visible(d)     == Over(execs, proc[d].news)

Started(d, s)   == proc[d].txn # "none" /\ proc[d].id = s
(* Mutant: rows are read without FOR UPDATE. *)
RowLocked_Ignored(s) == FALSE
RowLocked(s)    == \E d \in Dispatchers : Started(d, s)
(* Mutant: the advisory lock is left out. *)
TargetLocked_Ignored(d, s) == FALSE
TargetLocked(d, s) ==
  \E c \in Dispatchers \ {d} : proc[c].coordinated /\ Target[proc[c].id] = Target[s]

(* The executions of db that count with e, an execution of schedule s.       *)
InScope(db, s, e) ==
  {k \in DOMAIN db : IF e.scope = "SCHEDULE" THEN k[1] = s ELSE Target[k[1]] = Target[s]}

Earlier(j, k) == j[2] < k[2] \/ (j[2] = k[2] /\ j[1] < k[1])

Queued(db, K)     == {k \in K : db[k].status = "QUEUED"}
QueueSize(db, s, e) == Cardinality(Queued(db, InScope(db, s, e)))
Busy(db, s, e)    == \E k \in InScope(db, s, e) : db[k].run = "open"
(* Mutants: the order is left out; the queue of a paused schedule counts. *)
OlderQueued_Ignored(db, k, e) == FALSE
OlderQueued_PausedToo(db, k, e) ==
  \E j \in Queued(db, InScope(db, k[1], e)) : Earlier(j, k)
OlderQueued(db, k, e) ==
  \E j \in Queued(db, InScope(db, k[1], e)) : ~sched[j[1]].paused /\ Earlier(j, k)

-----------------------------------------------------------------------------
(* Deciding an occurrence. A project that is not READY, a definition that    *)
(* is gone or parameters it refuses make it MISSED instead.                 *)

(* Mutant: the run stays with an execution it was not created for. *)
Missed_RunKept(e) == [e EXCEPT !.status = "MISSED"]

Missed(e)     == [e EXCEPT !.status = "MISSED", !.run = "none"]
Skipped(e)    == [e EXCEPT !.status = "SKIPPED"]
Dispatched(e) == [e EXCEPT !.status = "DISPATCHED", !.run = "open"]

Dispatch(db, k, e, t) ==
  IF e.policy = "QUEUE" /\ e.expires <= t THEN Missed(e)
  ELSE IF e.policy = "FORBID" /\ Busy(db, k[1], e) THEN Skipped(e)
  ELSE IF e.policy = "QUEUE" /\ (Busy(db, k[1], e) \/ OlderQueued(db, k, e)) THEN e
  ELSE Dispatched(e)

TooLate(row, at, t)    == t - at > Deadline
Superseded(row, at, t) == row.missed = "SKIP" /\ NextOccurrence(row.every, at) <= t
Full(db, s, e)         == e.policy = "QUEUE" /\ QueueSize(db, s, e) >= MaxQueue

Occurrence(row, at) ==
  [policy |-> row.policy, scope |-> row.scope, expires |-> at + QueueTTL,
   status |-> "QUEUED", run |-> "none"]

Decide(db, s, row, at, t) ==
  LET e == Occurrence(row, at)
  IN IF TooLate(row, at, t) \/ Superseded(row, at, t) THEN Missed(e)
     ELSE IF Full(db, s, e) THEN Skipped(e)
     ELSE Dispatch(Over(db, Only(<<s, at>>, e)), <<s, at>>, e, t)

(* What becomes of decision e: e itself, or MISSED at the cost of a fault.   *)
Outcome(e, o) ==
  \/ o = e /\ UNCHANGED faults
  \/ e.status # "MISSED" /\ faults < MaxFaults /\ o = Missed(e) /\ faults' = faults + 1

-----------------------------------------------------------------------------
(* A pass of dispatcher d.                                                  *)

Heads ==
  {k \in Queued(execs, DOMAIN execs) :
     /\ ~sched[k[1]].paused
     /\ \A j \in Queued(execs, DOMAIN execs) : j[1] = k[1] => ~Earlier(j, k)}
Due       == {s \in Ids : ~sched[s].paused /\ sched[s].next <= now}
HeadsInOrder ==
  {q \in [1 .. Cardinality(Heads) -> Heads] : \A i, j \in DOMAIN q : i < j => Earlier(q[i], q[j])}
Sooner(r, s) == Earlier(<<r, sched[r].next>>, <<s, sched[s].next>>)
DueInOrder ==
  {q \in [1 .. Cardinality(Due) -> Due] : \A i, j \in DOMAIN q : i < j => Sooner(q[i], q[j])}

Resting(d) == proc[d].txn = "none" /\ proc[d].heads = << >> /\ proc[d].due = << >>

Begin(d) ==
  /\ Resting(d) /\ (Heads # {} \/ Due # {})
  /\ \E heads \in HeadsInOrder, due \in DueInOrder :
       proc' = [proc EXCEPT ![d] = Visit(now, heads, due)]
  /\ UNCHANGED <<now, sched, execs, edits, faults, since>>

(* The state of d once it has left its transaction, with so much to visit.   *)
Leave(d, heads, due) ==
  proc' = [proc EXCEPT ![d] =
    IF heads = << >> /\ due = << >> THEN Idle ELSE Visit(proc[d].at, heads, due)]

OpenHead(d) ==
  /\ proc[d].txn = "none" /\ proc[d].heads # << >>
  /\ LET k == Head(proc[d].heads)
         s == k[1]
     IN IF RowLocked(s) \/ sched[s].paused \/ execs[k].status # "QUEUED" \/ TargetLocked(d, s)
        THEN Leave(d, Tail(proc[d].heads), proc[d].due) /\ UNCHANGED faults
        ELSE \E o \in {Dispatch(execs, k, execs[k], proc[d].at), Missed(execs[k])} :
               /\ Outcome(Dispatch(execs, k, execs[k], proc[d].at), o)
               /\ proc' = [proc EXCEPT ![d] =
                    [@ EXCEPT !.txn = "head", !.id = s, !.coordinated = TRUE, !.news = Only(k, o)]]
  /\ UNCHANGED <<now, sched, execs, edits, since>>

CommitHead(d) ==
  /\ proc[d].txn = "head"
  /\ execs' = Visible(d)
  /\ Leave(d, Tail(proc[d].heads), proc[d].due)
  /\ UNCHANGED <<now, sched, edits, faults, since>>

OpenDue(d) ==
  /\ proc[d].txn = "none" /\ proc[d].heads = << >> /\ proc[d].due # << >>
  /\ LET s == Head(proc[d].due)
     IN IF RowLocked(s) \/ sched[s].paused
        THEN Leave(d, << >>, Tail(proc[d].due))
        ELSE proc' = [proc EXCEPT ![d] =
               [@ EXCEPT !.txn = "due", !.id = s, !.left = OccurrenceLimit, !.next = sched[s].next]]
  /\ UNCHANGED <<now, sched, execs, edits, faults, since>>

(* Mutant: the next occurrence is taken from the clock. *)
Following_FromNow(row, at, t) == NextOccurrence(row.every, t)
Following(row, at, t) == NextOccurrence(row.every, at)

(* One occurrence after the other: the cursor passes those recorded already,  *)
(* and stays where it is when the target's lock is taken.                   *)
More(d) == proc[d].txn = "due" /\ proc[d].left > 0 /\ proc[d].next <= proc[d].at

Occur(d) ==
  /\ More(d)
  /\ LET p == proc[d]
         s == p.id
         k == <<s, p.next>>
         after == [p EXCEPT !.left = @ - 1, !.next = Following(sched[s], @, p.at)]
         e == Decide(Visible(d), s, sched[s], p.next, p.at)
     IN IF k \in DOMAIN Visible(d)
        THEN proc' = [proc EXCEPT ![d] = after] /\ UNCHANGED faults
        ELSE IF TargetLocked(d, s)
        THEN proc' = [proc EXCEPT ![d].left = 0] /\ UNCHANGED faults
        ELSE \E o \in {e, Missed(e)} :
               /\ Outcome(e, o)
               /\ proc' = [proc EXCEPT ![d] =
                    [after EXCEPT !.coordinated = TRUE, !.news = Over(@, Only(k, o))]]
  /\ UNCHANGED <<now, sched, execs, edits, since>>

(* The whole row is saved, which changes the cursor only: it was locked.     *)
CommitDue(d) ==
  /\ proc[d].txn = "due" /\ ~More(d)
  /\ sched' = [sched EXCEPT ![proc[d].id].next = proc[d].next]
  /\ execs' = Visible(d)
  /\ Leave(d, << >>, Tail(proc[d].due))
  /\ UNCHANGED <<now, edits, faults, since>>

(* An exception or a crash ends the whole pass and rolls back what it was in. *)
Fail(d) ==
  /\ proc[d].txn # "none" /\ faults < MaxFaults
  /\ proc' = [proc EXCEPT ![d] = Idle]
  /\ faults' = faults + 1
  /\ UNCHANGED <<now, sched, execs, edits, since>>

-----------------------------------------------------------------------------
(* A request edits a schedule; it waits for the lock of the row. A new cron   *)
(* moves the cursor, to an occurrence that is still to come.                *)
Edit(s) ==
  /\ edits < MaxEdits /\ ~RowLocked(s)
  /\ \E paused \in BOOLEAN, every \in Crons, policy \in Policies :
       LET moved == every # sched[s].every
           row   == [sched[s] EXCEPT !.paused = paused, !.every = every, !.policy = policy,
                                     !.next = IF moved THEN NextOccurrence(every, now) ELSE @]
       IN /\ row # sched[s]
          /\ sched' = [sched EXCEPT ![s] = row]
          /\ since' = [since EXCEPT ![s] = IF moved THEN now ELSE @]
  /\ edits' = edits + 1
  /\ UNCHANGED <<now, execs, proc, faults>>

(* The run of an execution ends.                                            *)
RunEnds(k) ==
  /\ execs[k].run = "open"
  /\ execs' = [execs EXCEPT ![k].run = "ended"]
  /\ UNCHANGED <<now, sched, proc, edits, faults, since>>

Tick ==
  /\ now < MaxTime
  /\ now' = now + 1
  /\ UNCHANGED <<sched, execs, proc, edits, faults, since>>

DispatcherStep(d) ==
  Begin(d) \/ OpenHead(d) \/ CommitHead(d) \/ OpenDue(d) \/ Occur(d) \/ CommitDue(d)

Next ==
  \/ \E d \in Dispatchers : DispatcherStep(d) \/ Fail(d)
  \/ \E s \in Ids : Edit(s)
  \/ \E k \in DOMAIN execs : RunEnds(k)
  \/ Tick

Spec == Init /\ [][Next]_vars

(* The loop of a reconciler runs the dispatcher again and again; the runs of  *)
(* the platform end (EveryRunEnds of RunLifecycle).                         *)
FairSpec ==
  /\ Spec
  /\ \A d \in Dispatchers : WF_vars(DispatcherStep(d))
  /\ \A s \in Ids, t \in 0 .. MaxTime :
       WF_vars(<<s, t>> \in DOMAIN execs /\ RunEnds(<<s, t>>))
  /\ WF_vars(Tick)

-----------------------------------------------------------------------------
(* Properties.                                                              *)

(* Policy FORBID and QUEUE promise that a run starts only when none of their  *)
(* scope is open, whichever schedule and dispatcher opened it and however     *)
(* long the two transactions overlap.                                       *)
AloneInScope ==
  \A k \in DOMAIN execs' :
    /\ execs'[k].status = "DISPATCHED"
    /\ execs'[k].policy # "ALLOW"
    /\ k \in DOMAIN execs => execs[k].status # "DISPATCHED"
    => \A j \in InScope(execs', k[1], execs'[k]) \ {k} : execs'[j].run # "open"

(* The cursor loses no occurrence and invents none: since a schedule has had  *)
(* its cron, those before the cursor have a record each and no other has,      *)
(* through failed passes, pauses and dispatchers that skip each other's locks. *)
EveryOccurrenceRecorded ==
  \A s \in Ids :
    {k[2] : k \in {k \in DOMAIN execs : k[1] = s /\ k[2] > since[s]}}
      = {t \in since[s] + 1 .. sched[s].next - 1 : t % sched[s].every = 0}

(* A queue is kept in order: an occurrence that queues never starts before an  *)
(* older one of its schedule which still does, and the queue of a schedule    *)
(* stays within its size.                                                   *)
QueueInOrder ==
  \A s \in Ids :
    /\ \A k, j \in DOMAIN execs :
         /\ k[1] = s /\ j[1] = s /\ Earlier(j, k)
         /\ execs[k].policy = "QUEUE" /\ execs[k].status = "DISPATCHED"
         => execs[j].status # "QUEUED"
    /\ Cardinality({k \in Queued(execs, DOMAIN execs) : k[1] = s}) <= MaxQueue

(* While a schedule is paused its occurrences are neither recorded nor        *)
(* decided, by passes under way as little as by later ones.                  *)
QuietWhilePaused ==
  \A s \in Ids : sched[s].paused =>
    \A k \in DOMAIN execs' : k[1] = s =>
      k \in DOMAIN execs /\ execs'[k].status = execs[k].status

(* What one dispatcher decides, no overlapping pass or edit makes untrue: runs *)
(* are alone in their scope, and a paused schedule stays as it is.           *)
DecisionsHold == [][AloneInScope /\ QuietWhilePaused]_vars

(* The record of a schedule is complete and in order.                         *)
ScheduleIsKept == TypeOK /\ EveryOccurrenceRecorded

Undecided(s, t) == <<s, t>> \in Queued(execs, DOMAIN execs)

(* A queued occurrence is decided at last, unless its schedule is paused: a   *)
(* pause of another schedule of the target does not hold it up.             *)
EveryIntentDecided ==
  \A s \in Ids, t \in 1 .. MaxTime :
    Undecided(s, t) ~> (~Undecided(s, t) \/ sched[s].paused)

=============================================================================
