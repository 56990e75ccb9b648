-------------------------- MODULE FoundationsProofs -------------------------
(***************************************************************************)
(* Theorems about Schedules, for any schedules, targets and settings, any    *)
(* number of dispatchers that overlap, of edits and of failures; and about   *)
(* ServingAdapter, for any number of reconcilers that overlap, revisions,    *)
(* backends and edits by other people.                                      *)
(***************************************************************************)
EXTENDS MCFoundations, FiniteSetTheorems, SequenceTheorems, TLAPS

InTxn(d) == proc[d].txn # "none"

(* A dispatcher between two transactions has nothing to commit; one in a      *)
(* transaction has locked the row of a schedule that is not paused, and       *)
(* decides only once it has the lock of the target.                         *)
LockOK(d) ==
  /\ ~ InTxn(d) => ~ proc[d].coordinated
  /\ ~ proc[d].coordinated => DOMAIN proc[d].news = {}
  /\ InTxn(d) => proc[d].id \in Ids /\ ~ sched[proc[d].id].paused

Apart(c, d) ==
  /\ InTxn(c) /\ InTxn(d) => proc[c].id # proc[d].id
  /\ proc[c].coordinated /\ proc[d].coordinated => Target[proc[c].id] # Target[proc[d].id]

(* What is to be committed: rows of the schedule, decided by its policy.      *)
NewsOK(d) ==
  \A k \in DOMAIN proc[d].news :
    /\ k[1] = proc[d].id /\ k[2] <= now
    /\ proc[d].news[k].run = IF proc[d].news[k].status = "DISPATCHED" THEN "open" ELSE "none"
    /\ proc[d].news[k].status = "QUEUED" => proc[d].news[k].policy = "QUEUE"
    /\ proc[d].txn = "due" => proc[d].news[k].policy = sched[proc[d].id].policy

(* The runs to be committed will be alone in their scope.                    *)
AloneOK(d) ==
  \A k \in DOMAIN proc[d].news :
    proc[d].news[k].status = "DISPATCHED" /\ proc[d].news[k].policy # "ALLOW"
    => \A j \in InScope(Visible(d), k[1], proc[d].news[k]) \ {k} : Visible(d)[j].run # "open"

(* The record of one schedule, up to a cursor: every occurrence since it got   *)
(* the cron it has, none at or after the cursor, in order, within the size of  *)
(* the queue.                                                              *)
Complete(ex, s, from, every, next) ==
  /\ \A k \in DOMAIN ex : k[1] = s => k[2] < next
  /\ from < next /\ next % every = 0
  /\ \A t \in from + 1 .. next - 1 : <<s, t>> \in DOMAIN ex <=> t % every = 0
Ordered(ex, s) ==
  \A k, j \in DOMAIN ex :
    /\ k[1] = s /\ j[1] = s /\ j[2] < k[2]
    /\ ex[k].policy = "QUEUE" /\ ex[k].status = "DISPATCHED"
    => ex[j].status # "QUEUED"
Waiting(ex, s) == {k \in Queued(ex, DOMAIN ex) : k[1] = s}
Kept(ex, s, from, every, next) ==
  Complete(ex, s, from, every, next) /\ Ordered(ex, s) /\ Cardinality(Waiting(ex, s)) <= MaxQueue

(* It is kept by what has been committed and by what a transaction sees.      *)
Cursor(d) == IF proc[d].txn = "due" THEN proc[d].next ELSE sched[proc[d].id].next
SightOK(d) ==
  InTxn(d) => Kept(Visible(d), proc[d].id, since[proc[d].id], sched[proc[d].id].every, Cursor(d))
RecordOK ==
  /\ \A k \in DOMAIN execs : k[2] <= now
  /\ \A s \in Ids : Kept(execs, s, since[s], sched[s].every, sched[s].next)

DispatcherOK(d) == LockOK(d) /\ NewsOK(d) /\ AloneOK(d) /\ SightOK(d)

IInv ==
  /\ TypeOK
  /\ RecordOK
  /\ \A d \in Dispatchers : DispatcherOK(d)
  /\ \A c, d \in Dispatchers : c # d => Apart(c, d)

-----------------------------------------------------------------------------
(* Operators of the model.                                                  *)

LEMMA Bounds ==
  /\ Ids \subseteq Nat /\ IsFiniteSet(Ids)
  /\ Crons \subseteq Nat \ {0} /\ Policies \subseteq {"ALLOW", "FORBID", "QUEUE"}
  /\ Scopes \subseteq {"SCHEDULE", "TARGET"}
  /\ Deadline \in Nat /\ MaxTime \in Nat /\ MaxEdits \in Nat /\ MaxFaults \in Nat
  /\ QueueTTL \in Nat \ {0} /\ MaxQueue \in Nat \ {0} /\ OccurrenceLimit \in Nat \ {0}
BY SchedulesAssumption

LEMMA OverSays ==
  ASSUME NEW ex, NEW news
  PROVE  /\ DOMAIN Over(ex, news) = DOMAIN ex \cup DOMAIN news
         /\ \A k \in DOMAIN news : Over(ex, news)[k] = news[k]
         /\ \A k \in DOMAIN ex \ DOMAIN news : Over(ex, news)[k] = ex[k]
         /\ \A K1, K2 : ex \in [K1 -> Execution] /\ news \in [K2 -> Execution]
              => Over(ex, news) \in [K1 \cup K2 -> Execution]
BY DEF Over

LEMMA OnlySays ==
  ASSUME NEW k, NEW e
  PROVE  DOMAIN Only(k, e) = {k} /\ Only(k, e)[k] = e /\ (e \in Execution => Only(k, e) \in [{k} -> Execution])
BY DEF Only

LEMMA KeysSay ==
  /\ IsFiniteSet(Keys)
  /\ \A k \in Keys : k[1] \in Ids /\ k[2] \in 0 .. MaxTime /\ k = <<k[1], k[2]>>
<1>1. IsFiniteSet(Ids) /\ IsFiniteSet(0 .. MaxTime)
  BY Bounds, FS_Interval
<1>2. IsFiniteSet(Keys)
  BY <1>1, FS_Product DEF Keys
<1> QED BY <1>2 DEF Keys

(* The next multiple of an interval.                                        *)
LEMMA Multiples ==
  ASSUME NEW e \in Nat \ {0}, NEW a \in Nat, NEW b \in Nat, a < b
  PROVE  (a + 1) * e <= b * e
OBVIOUS

LEMMA NextSays ==
  ASSUME NEW every \in Nat \ {0}, NEW t \in Nat
  PROVE  /\ NextOccurrence(every, t) \in Nat /\ NextOccurrence(every, t) > t
         /\ NextOccurrence(every, t) % every = 0
         /\ \A u \in t + 1 .. NextOccurrence(every, t) - 1 : u % every # 0
<1>1. NextOccurrence(every, t) \in Nat /\ NextOccurrence(every, t) > t
  BY DEF NextOccurrence
<1>2. NextOccurrence(every, t) % every = 0
  BY DEF NextOccurrence
<1>3. ASSUME NEW u \in Nat, u > t, u % every = 0
      PROVE  NextOccurrence(every, t) <= u
  <2>1. /\ t \div every \in Nat /\ u \div every \in Nat
        /\ t = every * (t \div every) + (t % every) /\ t % every \in 0 .. every - 1
        /\ u = every * (u \div every)
    BY <1>3
  <2>2. t \div every < u \div every
    <3>1. SUFFICES ASSUME u \div every <= t \div every PROVE FALSE
      BY <2>1
    <3>2. every * (u \div every) <= every * (t \div every)
      BY <3>1, <2>1
    <3> QED BY <3>2, <2>1, <1>3
  <2> QED BY <2>1, <2>2, Multiples DEF NextOccurrence
<1>4. ASSUME NEW u \in t + 1 .. NextOccurrence(every, t) - 1 PROVE u % every # 0
  BY <1>1, <1>3
<1> QED BY <1>1, <1>2, <1>4

-----------------------------------------------------------------------------
(* The record of a schedule.                                                *)

(* What waits is finite.                                                    *)
LEMMA WaitingSays ==
  ASSUME NEW ex, DOMAIN ex \subseteq Keys, NEW s
  PROVE  IsFiniteSet(Waiting(ex, s)) /\ Cardinality(Waiting(ex, s)) \in Nat
<1>1. Waiting(ex, s) \subseteq Keys
  BY DEF Waiting, Queued
<1> QED BY <1>1, KeysSay, FS_Subset, FS_CardinalityType

(* It is kept by rows of which it sees no difference.                        *)
LEMMA KeptSame ==
  ASSUME NEW ex, NEW new, DOMAIN ex \subseteq Keys, DOMAIN new \subseteq Keys, NEW s,
         NEW from, NEW every, NEW next,
         \A k \in Keys : k[1] = s =>
           /\ k \in DOMAIN ex <=> k \in DOMAIN new
           /\ k \in DOMAIN ex => new[k].status = ex[k].status /\ new[k].policy = ex[k].policy,
         Kept(ex, s, from, every, next)
  PROVE  Kept(new, s, from, every, next)
<1>1. Waiting(new, s) = Waiting(ex, s)
  BY DEF Waiting, Queued
<1>2. Ordered(new, s)
  BY DEF Kept, Ordered
<1>3. Complete(new, s, from, every, next)
  <2>1. \A k \in DOMAIN new : k[1] = s => k[2] < next
    BY DEF Kept, Complete
  <2>2. ASSUME NEW t \in from + 1 .. next - 1 PROVE <<s, t>> \in DOMAIN new <=> t % every = 0
    <3>1. <<s, t>> \in DOMAIN ex <=> t % every = 0
      BY DEF Kept, Complete
    <3>2. <<s, t>>[1] = s
      OBVIOUS
    <3> QED BY <3>1, <3>2
  <2> QED BY <2>1, <2>2 DEF Kept, Complete
<1> QED BY <1>1, <1>2, <1>3 DEF Kept

(* A queued occurrence is decided: nothing older waits if it starts.         *)
LEMMA KeptDecided ==
  ASSUME NEW ex, DOMAIN ex \subseteq Keys, NEW k \in DOMAIN ex, ex[k].status = "QUEUED", NEW o,
         o.status = "DISPATCHED" => \A j \in DOMAIN ex : j[1] = k[1] /\ j[2] < k[2] => ex[j].status # "QUEUED",
         NEW from, NEW every, NEW next,
         Kept(ex, k[1], from, every, next)
  PROVE  Kept(Over(ex, Only(k, o)), k[1], from, every, next)
<1> DEFINE new == Over(ex, Only(k, o))
<1>1. DOMAIN new = DOMAIN ex /\ new[k] = o /\ \A j \in DOMAIN ex \ {k} : new[j] = ex[j]
  BY DEF Over, Only
<1>2. Complete(new, k[1], from, every, next)
  BY <1>1 DEF Kept, Complete
<1>3. Ordered(new, k[1])
  BY <1>1, KeysSay DEF Kept, Ordered
<1>4. Cardinality(Waiting(new, k[1])) <= MaxQueue
  <2>1. Waiting(new, k[1]) \subseteq Waiting(ex, k[1])
    BY <1>1 DEF Waiting, Queued
  <2>2. Cardinality(Waiting(new, k[1])) <= Cardinality(Waiting(ex, k[1]))
    BY <2>1, WaitingSays, FS_Subset
  <2> QED BY <2>2, <1>1, WaitingSays, Bounds DEF Kept
<1> QED BY <1>2, <1>3, <1>4 DEF Kept

(* An occurrence at the cursor is recorded, and the cursor moves on.          *)
LEMMA KeptRecorded ==
  ASSUME NEW ex, DOMAIN ex \subseteq Keys, NEW s \in Ids, NEW t \in 0 .. MaxTime, NEW o,
         o.status = "DISPATCHED" /\ o.policy = "QUEUE"
           => \A j \in DOMAIN ex : j[1] = s => ex[j].status # "QUEUED",
         o.status = "QUEUED" => Cardinality(Waiting(ex, s)) < MaxQueue,
         NEW from \in Nat, NEW every \in Nat \ {0},
         Kept(ex, s, from, every, t)
  PROVE  Kept(Over(ex, Only(<<s, t>>, o)), s, from, every, NextOccurrence(every, t))
<1> DEFINE k == <<s, t>>
           new == Over(ex, Only(k, o))
           next == NextOccurrence(every, t)
<1>1. k \in Keys /\ k[1] = s /\ k[2] = t /\ k \notin DOMAIN ex
  <2>1. k \in Keys /\ k[1] = s /\ k[2] = t
    BY DEF Keys
  <2> QED BY <2>1 DEF Kept, Complete
<1>2. DOMAIN new = DOMAIN ex \cup {k} /\ new[k] = o /\ \A j \in DOMAIN ex : new[j] = ex[j]
  BY <1>1 DEF Over, Only
<1>3. next \in Nat /\ t < next /\ next % every = 0 /\ \A u \in t + 1 .. next - 1 : u % every # 0
  <2>1. t \in Nat
    BY Bounds
  <2> QED BY <2>1, NextSays
<1>4. \A j \in DOMAIN ex : j[1] = s => j[2] < t
  BY DEF Kept, Complete
<1>5. Complete(new, s, from, every, next)
  <2>1. \A j \in DOMAIN new : j[1] = s => j[2] < next
    BY <1>1, <1>2, <1>3, <1>4, KeysSay, Bounds
  <2>2. from < t /\ t % every = 0
    BY DEF Kept, Complete
  <2>3. ASSUME NEW u \in from + 1 .. next - 1 PROVE <<s, u>> \in DOMAIN new <=> u % every = 0
    <3>1. CASE u < t
      <4>1. u \in from + 1 .. t - 1 /\ <<s, u>> # k
        BY <3>1, <1>3
      <4> QED BY <4>1, <1>2 DEF Kept, Complete
    <3>2. CASE u = t
      BY <3>2, <2>2, <1>2
    <3>3. CASE u > t
      <4>1. u % every # 0 /\ <<s, u>> # k
        BY <3>3, <1>3
      <4>2. <<s, u>> \notin DOMAIN ex
        <5>1. <<s, u>>[1] = s /\ <<s, u>>[2] = u
          OBVIOUS
        <5> QED BY <5>1, <3>3, <1>4
      <4> QED BY <4>1, <4>2, <1>2
    <3> QED BY <3>1, <3>2, <3>3
  <2> QED BY <2>1, <2>2, <2>3, <1>3 DEF Complete
<1>6. Ordered(new, s)
  <2>1. SUFFICES ASSUME NEW i \in DOMAIN new, NEW j \in DOMAIN new, i[1] = s, j[1] = s, j[2] < i[2],
                        new[i].policy = "QUEUE", new[i].status = "DISPATCHED"
                 PROVE  new[j].status # "QUEUED"
    BY DEF Ordered
  <2>2. j # k
    BY <2>1, <1>1, <1>2, <1>4, KeysSay
  <2>3. CASE i = k
    BY <2>1, <2>2, <2>3, <1>2
  <2>4. CASE i # k
    BY <2>1, <2>2, <2>4, <1>2 DEF Kept, Ordered
  <2> QED BY <2>3, <2>4
<1>7. Cardinality(Waiting(new, s)) <= MaxQueue
  <2>1. CASE o.status = "QUEUED"
    <3>1. Waiting(new, s) = Waiting(ex, s) \cup {k} /\ k \notin Waiting(ex, s)
      BY <2>1, <1>1, <1>2 DEF Waiting, Queued
    <3>2. Cardinality(Waiting(new, s)) = Cardinality(Waiting(ex, s)) + 1
      BY <3>1, WaitingSays, FS_AddElement
    <3> QED BY <2>1, <3>2, WaitingSays, Bounds
  <2>2. CASE o.status # "QUEUED"
    <3>1. Waiting(new, s) = Waiting(ex, s)
      BY <2>2, <1>1, <1>2 DEF Waiting, Queued
    <3> QED BY <3>1 DEF Kept
  <2> QED BY <2>1, <2>2
<1> QED BY <1>5, <1>6, <1>7 DEF Kept

-----------------------------------------------------------------------------
(* Decisions. *)

(* A run starts under FORBID and QUEUE only where none is open, under QUEUE   *)
(* only after what has waited longer; only QUEUE lets an occurrence wait.     *)
Sound(o, ex, k, e) ==
  /\ o \in Execution /\ o.policy = e.policy /\ o.scope = e.scope
  /\ o.run = IF o.status = "DISPATCHED" THEN "open" ELSE "none"
  /\ o.status = "QUEUED" => e.policy = "QUEUE"
  /\ o.status = "DISPATCHED" /\ e.policy # "ALLOW" => ~ Busy(ex, k[1], e)
  /\ o.status = "DISPATCHED" /\ e.policy = "QUEUE" => ~ OlderQueued(ex, k, e)

LEMMA DispatchSays ==
  ASSUME NEW ex, NEW k, NEW e \in Execution, e.status = "QUEUED", e.run = "none", NEW t
  PROVE  Sound(Dispatch(ex, k, e, t), ex, k, e) /\ Sound(Missed(Dispatch(ex, k, e, t)), ex, k, e)
<1> DEFINE c == Dispatch(ex, k, e, t)
<1>1. \A x \in Execution :
        /\ Missed(x) \in Execution /\ Missed(x).policy = x.policy /\ Missed(x).scope = x.scope
        /\ Missed(x).status = "MISSED" /\ Missed(x).run = "none"
  BY DEF Missed, Execution
<1>2. /\ Skipped(e) \in Execution /\ Skipped(e).policy = e.policy /\ Skipped(e).scope = e.scope
      /\ Skipped(e).status = "SKIPPED" /\ Skipped(e).run = "none"
  BY DEF Skipped, Execution
<1>3. /\ Dispatched(e) \in Execution /\ Dispatched(e).policy = e.policy /\ Dispatched(e).scope = e.scope
      /\ Dispatched(e).status = "DISPATCHED" /\ Dispatched(e).run = "open"
  BY DEF Dispatched, Execution
<1>4. e.policy \in {"ALLOW", "FORBID", "QUEUE"}
  BY Bounds DEF Execution
<1>5. \/ c = Missed(e) \/ c = Skipped(e)
      \/ c = e /\ e.policy = "QUEUE"
      \/ /\ c = Dispatched(e)
         /\ e.policy # "ALLOW" => ~ Busy(ex, k[1], e)
         /\ e.policy = "QUEUE" => ~ OlderQueued(ex, k, e)
  BY <1>4 DEF Dispatch
<1>6. Sound(c, ex, k, e)
  BY <1>1, <1>2, <1>3, <1>5 DEF Sound
<1>7. Sound(Missed(c), ex, k, e)
  BY <1>1, <1>6 DEF Sound
<1> QED BY <1>6, <1>7

(* The same of an occurrence that comes due, at the cursor of its schedule;   *)
(* and it waits only where there is room in the queue.                      *)
LEMMA DecideSays ==
  ASSUME NEW ex, DOMAIN ex \subseteq Keys, NEW s \in Ids, NEW sch \in Schedule, NEW at \in 0 .. MaxTime,
         NEW t, <<s, at>> \notin DOMAIN ex,
         NEW o, o \in {Decide(ex, s, sch, at, t), Missed(Decide(ex, s, sch, at, t))}
  PROVE  /\ o \in Execution /\ o.policy = sch.policy /\ o.scope = sch.scope
         /\ o.run = IF o.status = "DISPATCHED" THEN "open" ELSE "none"
         /\ o.status = "QUEUED" => o.policy = "QUEUE" /\ QueueSize(ex, s, o) < MaxQueue
         /\ o.status = "DISPATCHED" /\ o.policy # "ALLOW" =>
              \A j \in InScope(ex, s, o) : ex[j].run # "open"
         /\ o.status = "DISPATCHED" /\ o.policy = "QUEUE" =>
              \A j \in InScope(ex, s, o) :
                ex[j].status = "QUEUED" => sched[j[1]].paused \/ ~ Earlier(j, <<s, at>>)
<1> DEFINE e == Occurrence(sch, at)
           k == <<s, at>>
           new == Over(ex, Only(k, e))
           c == Dispatch(new, k, e, t)
<1>1. /\ e \in Execution /\ e.policy = sch.policy /\ e.scope = sch.scope
      /\ e.status = "QUEUED" /\ e.run = "none"
  <2>1. sch.policy \in Policies /\ sch.scope \in Scopes /\ at + QueueTTL \in Nat
    BY Bounds DEF Schedule
  <2> QED BY <2>1 DEF Occurrence, Execution
<1>2. \A x \in Execution :
        /\ Missed(x) \in Execution /\ Missed(x).policy = x.policy /\ Missed(x).scope = x.scope
        /\ Missed(x).status = "MISSED" /\ Missed(x).run = "none"
  BY DEF Missed, Execution
<1>3. /\ Skipped(e) \in Execution /\ Skipped(e).policy = sch.policy /\ Skipped(e).scope = sch.scope
      /\ Skipped(e).status = "SKIPPED" /\ Skipped(e).run = "none"
  BY <1>1 DEF Skipped, Execution
<1>4. \/ o = Missed(e) \/ o = Skipped(e) \/ o = Missed(Missed(e)) \/ o = Missed(Skipped(e))
      \/ o \in {c, Missed(c)} /\ ~ Full(ex, s, e)
  BY DEF Decide
<1>5. CASE o = Missed(e) \/ o = Skipped(e) \/ o = Missed(Missed(e)) \/ o = Missed(Skipped(e))
  BY <1>1, <1>2, <1>3, <1>5
<1>6. CASE o \in {c, Missed(c)} /\ ~ Full(ex, s, e)
  <2>1. /\ o \in Execution /\ o.policy = e.policy /\ o.scope = e.scope
        /\ o.run = IF o.status = "DISPATCHED" THEN "open" ELSE "none"
        /\ o.status = "QUEUED" => e.policy = "QUEUE"
        /\ o.status = "DISPATCHED" /\ e.policy # "ALLOW" => ~ Busy(new, k[1], e)
        /\ o.status = "DISPATCHED" /\ e.policy = "QUEUE" => ~ OlderQueued(new, k, e)
    <3>1. Sound(o, new, k, e)
      <4> HIDE DEF e, k, new
      <4> QED BY <1>1, <1>6, DispatchSays
    <3> QED BY <3>1 DEF Sound
  <2>2. DOMAIN new = DOMAIN ex \cup {k} /\ \A j \in DOMAIN ex : new[j] = ex[j]
    BY DEF Over, Only
  <2>3. k[1] = s /\ InScope(ex, s, o) = InScope(ex, s, e) /\ InScope(ex, s, e) \subseteq InScope(new, s, e)
    BY <2>1, <2>2 DEF InScope
  <2>4. o.status = "QUEUED" => QueueSize(ex, s, o) < MaxQueue
    <3>1. QueueSize(ex, s, o) = QueueSize(ex, s, e)
      BY <2>3 DEF QueueSize
    <3>2. QueueSize(ex, s, e) \in Nat
      <4>1. Queued(ex, InScope(ex, s, e)) \subseteq Keys
        BY DEF Queued, InScope
      <4> QED BY <4>1, KeysSay, FS_Subset, FS_CardinalityType DEF QueueSize
    <3> QED BY <3>1, <3>2, <2>1, <1>6, Bounds DEF Full
  <2>5. InScope(ex, s, o) \subseteq DOMAIN ex
    BY DEF InScope
  <2>6. o.status = "DISPATCHED" /\ o.policy # "ALLOW" => \A j \in InScope(ex, s, o) : ex[j].run # "open"
    <3> HIDE DEF e, k, new
    <3> QED BY <2>1, <2>2, <2>3, <2>5 DEF Busy
  <2>7. o.status = "DISPATCHED" /\ o.policy = "QUEUE" =>
          \A j \in InScope(ex, s, o) : ex[j].status = "QUEUED" => sched[j[1]].paused \/ ~ Earlier(j, k)
    <3> HIDE DEF e, k, new
    <3> QED BY <2>1, <2>2, <2>3, <2>5 DEF OlderQueued, Queued
  <2> QED BY <1>1, <2>1, <2>4, <2>6, <2>7
<1> QED BY <1>4, <1>5, <1>6

LEMMA OutcomeSays ==
  ASSUME TypeOK, NEW e, NEW o, Outcome(e, o)
  PROVE  faults' \in 0 .. MaxFaults
BY Bounds DEF TypeOK, Outcome

-----------------------------------------------------------------------------
(* What one dispatcher does in memory is its own business.                   *)

(* Between two transactions. *)
LEMMA VisitSays ==
  ASSUME NEW at \in 0 .. now, NEW heads \in Seq(Keys), NEW due \in Seq(Ids)
  PROVE  /\ Visit(at, heads, due) \in Visits({}) /\ Visit(at, heads, due).txn = "none"
         /\ Visit(at, heads, due).heads = heads /\ Visit(at, heads, due).at = at
         /\ Visit(at, heads, due).due = due
         /\ ~ Visit(at, heads, due).coordinated /\ DOMAIN Visit(at, heads, due).news = {}
<1>1. << >> \in [{} -> Execution] /\ DOMAIN << >> = {}
  OBVIOUS
<1> QED BY <1>1, Bounds DEF Visit, Visits

LEMMA OwnKeeps ==
  ASSUME IInv, NEW d \in Dispatchers, NEW v, proc' = [proc EXCEPT ![d] = v],
         UNCHANGED <<now, sched, execs, since>>, edits' \in 0 .. MaxEdits, faults' \in 0 .. MaxFaults,
         v \in Visits(DOMAIN v.news), DOMAIN v.news \subseteq Keys,
         \A i \in DOMAIN v.heads : v.heads[i] \in DOMAIN execs,
         DispatcherOK(d)', \A c \in Dispatchers \ {d} : Apart(c, d)' /\ Apart(d, c)'
  PROVE  IInv'
<1>1. proc'[d] = v /\ DOMAIN proc' = Dispatchers /\ \A c \in Dispatchers \ {d} : proc'[c] = proc[c]
  BY DEF IInv, TypeOK
<1>2. TypeOK'
  BY <1>1 DEF IInv, TypeOK, Visits
<1>3. RecordOK'
  BY DEF IInv, RecordOK
<1>4. ASSUME NEW c \in Dispatchers PROVE DispatcherOK(c)'
  <2>1. CASE c = d
    BY <2>1
  <2>2. CASE c # d
    <3>1. DispatcherOK(c) /\ proc'[c] = proc[c] /\ Visible(c)' = Visible(c)
      BY <1>1, <2>2 DEF IInv, Visible
    <3>2. LockOK(c)' /\ NewsOK(c)'
      BY <3>1 DEF DispatcherOK, LockOK, NewsOK, InTxn
    <3>3. AloneOK(c)'
      BY <3>1 DEF DispatcherOK, AloneOK
    <3>4. SightOK(c)'
      BY <3>1 DEF DispatcherOK, SightOK, InTxn, Cursor
    <3> QED BY <3>2, <3>3, <3>4 DEF DispatcherOK
  <2> QED BY <2>1, <2>2
<1>5. ASSUME NEW b \in Dispatchers, NEW c \in Dispatchers, b # c PROVE Apart(b, c)'
  <2>1. CASE b = d \/ c = d
    BY <2>1, <1>5
  <2>2. CASE b # d /\ c # d
    BY <1>1, <1>5, <2>2 DEF IInv, Apart, InTxn
  <2> QED BY <2>1, <2>2
<1> QED BY <1>2, <1>3, <1>4, <1>5 DEF IInv

(* A dispatcher that is in no transaction. *)
LEMMA OutSays ==
  ASSUME NEW d, proc'[d].txn = "none", ~ proc'[d].coordinated, DOMAIN proc'[d].news = {}
  PROVE  DispatcherOK(d)' /\ \A c : Apart(c, d)' /\ Apart(d, c)'
BY DEF DispatcherOK, LockOK, NewsOK, AloneOK, SightOK, InTxn, Apart

LEMMA OutKeeps ==
  ASSUME IInv, NEW d \in Dispatchers, NEW at \in 0 .. now, NEW heads \in Seq(Keys), NEW due \in Seq(Ids),
         proc' = [proc EXCEPT ![d] = Visit(at, heads, due)],
         \A i \in DOMAIN heads : heads[i] \in DOMAIN execs,
         UNCHANGED <<now, sched, execs, since>>, edits' \in 0 .. MaxEdits, faults' \in 0 .. MaxFaults
  PROVE  IInv'
<1> DEFINE v == Visit(at, heads, due)
<1>1. /\ v \in Visits({}) /\ v.txn = "none" /\ v.heads = heads
      /\ ~ v.coordinated /\ DOMAIN v.news = {}
  BY VisitSays
<1>2. proc'[d] = v
  BY DEF IInv, TypeOK
<1>3. DispatcherOK(d)' /\ \A c \in Dispatchers \ {d} : Apart(c, d)' /\ Apart(d, c)'
  BY <1>1, <1>2, OutSays
<1>4. /\ v \in Visits(DOMAIN v.news)
      /\ DOMAIN v.news \subseteq Keys /\ \A i \in DOMAIN v.heads : v.heads[i] \in DOMAIN execs
  BY <1>1
<1> HIDE DEF v
<1> QED BY <1>1, <1>3, <1>4, OwnKeeps DEF v

LEMMA SeqSays ==
  ASSUME NEW S, IsFiniteSet(S), NEW q \in [1 .. Cardinality(S) -> S]
  PROVE  q \in Seq(S)
<1>1. Cardinality(S) \in Nat
  BY FS_CardinalityType
<1> QED BY <1>1

LEMMA TailSays ==
  ASSUME NEW S, NEW q \in Seq(S), q # << >>
  PROVE  /\ Head(q) \in S /\ Head(q) = q[1] /\ 1 \in DOMAIN q /\ Tail(q) \in Seq(S)
         /\ \A i \in DOMAIN Tail(q) : i + 1 \in DOMAIN q /\ Tail(q)[i] = q[i + 1]
<1>1. Len(q) \in Nat /\ Len(q) # 0 /\ Len(Tail(q)) = Len(q) - 1 /\ DOMAIN q = 1 .. Len(q)
      /\ Tail(q) \in Seq(S)
  OBVIOUS
<1>2. DOMAIN Tail(q) = 1 .. Len(q) - 1
  BY <1>1
<1> QED BY <1>1, <1>2

LEMMA BeginKeeps ==
  ASSUME IInv, NEW d \in Dispatchers, Begin(d)
  PROVE  IInv'
<1>1. PICK heads \in HeadsInOrder, due \in DueInOrder :
        proc' = [proc EXCEPT ![d] = Visit(now, heads, due)]
  BY DEF Begin
<1>2. Heads \subseteq DOMAIN execs /\ DOMAIN execs \subseteq Keys /\ Due \subseteq Ids
  BY DEF IInv, TypeOK, Heads, Queued, Due
<1>3. IsFiniteSet(Heads) /\ IsFiniteSet(Due)
  BY <1>2, KeysSay, Bounds, FS_Subset
<1>4. heads \in Seq(Heads) /\ due \in Seq(Due)
  BY <1>3, SeqSays DEF HeadsInOrder, DueInOrder
<1>5. heads \in Seq(Keys) /\ due \in Seq(Ids) /\ \A i \in DOMAIN heads : heads[i] \in DOMAIN execs
  BY <1>2, <1>4
<1>6. now \in 0 .. now /\ edits \in 0 .. MaxEdits /\ faults \in 0 .. MaxFaults
  BY Bounds DEF IInv, TypeOK
<1> QED BY <1>1, <1>5, <1>6, OutKeeps DEF Begin

(* A visit is over, and with it perhaps the pass.                            *)
LEMMA LeaveSays ==
  ASSUME IInv, NEW d \in Dispatchers, NEW heads \in Seq(Keys), NEW due \in Seq(Ids),
         Leave(d, heads, due)
  PROVE  \E at \in 0 .. now, h \in {heads, << >>}, u \in {due, << >>} :
           proc' = [proc EXCEPT ![d] = Visit(at, h, u)]
<1>1. proc[d].at \in 0 .. now /\ 0 \in 0 .. now
  BY Bounds DEF IInv, TypeOK, Visits
<1> QED BY <1>1 DEF Leave, Idle

LEMMA LeaveKeeps ==
  ASSUME IInv, NEW d \in Dispatchers, NEW heads \in Seq(Keys), NEW due \in Seq(Ids),
         Leave(d, heads, due), \A i \in DOMAIN heads : heads[i] \in DOMAIN execs,
         UNCHANGED <<now, sched, execs, edits, faults, since>>
  PROVE  IInv'
<1>1. PICK at \in 0 .. now, h \in {heads, << >>}, u \in {due, << >>} :
        proc' = [proc EXCEPT ![d] = Visit(at, h, u)]
  BY LeaveSays
<1>2. << >> \in Seq(Keys) /\ << >> \in Seq(Ids) /\ DOMAIN << >> = {}
  OBVIOUS
<1>4. h \in Seq(Keys) /\ u \in Seq(Ids) /\ \A i \in DOMAIN h : h[i] \in DOMAIN execs
  BY <1>1, <1>2
<1>3. edits \in 0 .. MaxEdits /\ faults \in 0 .. MaxFaults
  BY DEF IInv, TypeOK
<1> QED BY <1>1, <1>3, <1>4, OutKeeps

LEMMA FailKeeps ==
  ASSUME IInv, NEW d \in Dispatchers, Fail(d)
  PROVE  IInv'
<1>1. proc' = [proc EXCEPT ![d] = Visit(0, << >>, << >>)]
  BY DEF Fail, Idle
<1>2. /\ 0 \in 0 .. now /\ faults' \in 0 .. MaxFaults /\ edits' \in 0 .. MaxEdits
      /\ UNCHANGED <<now, sched, execs, since>>
  BY Bounds DEF IInv, TypeOK, Fail
<1>3. << >> \in Seq(Keys) /\ << >> \in Seq(Ids) /\ DOMAIN << >> = {}
  OBVIOUS
<1> QED BY <1>1, <1>2, <1>3, OutKeeps

-----------------------------------------------------------------------------
(* Transactions begin and go on.                                            *)

(* Nobody else has the row or the target that is free.                       *)
LEMMA FreeSays ==
  ASSUME IInv, NEW d \in Dispatchers, NEW s \in Ids
  PROVE  /\ ~ RowLocked(s) => \A c \in Dispatchers : InTxn(c) => proc[c].id # s
         /\ ~ TargetLocked(d, s) =>
              \A c \in Dispatchers \ {d} : proc[c].coordinated => Target[proc[c].id] # Target[s]
BY DEF RowLocked, Started, InTxn, TargetLocked

(* Before its first decision a transaction sees what has been committed.     *)
LEMMA NothingNew ==
  ASSUME NEW ex, NEW news, DOMAIN news = {}, NEW K, ex \in [K -> Execution]
  PROVE  Over(ex, news) = ex
BY DEF Over

LEMMA OpenDueKeeps ==
  ASSUME IInv, NEW d \in Dispatchers, OpenDue(d)
  PROVE  IInv'
<1> DEFINE s == Head(proc[d].due)
           v == [proc[d] EXCEPT !.txn = "due", !.id = s, !.left = OccurrenceLimit, !.next = sched[s].next]
<1>1. /\ proc[d] \in Visits(DOMAIN proc[d].news) /\ proc[d].due \in Seq(Ids) /\ proc[d].due # << >>
      /\ proc[d].txn = "none" /\ UNCHANGED <<now, sched, execs, edits, faults, since>>
  BY DEF IInv, TypeOK, OpenDue, Visits
<1>2. s \in Ids /\ Tail(proc[d].due) \in Seq(Ids)
  BY <1>1, TailSays
<1>3. CASE RowLocked(s) \/ sched[s].paused
  <2>1. Leave(d, << >>, Tail(proc[d].due))
    BY <1>3 DEF OpenDue
  <2>2. << >> \in Seq(Keys) /\ DOMAIN << >> = {}
    OBVIOUS
  <2> QED BY <2>1, <2>2, <1>1, <1>2, LeaveKeeps
<1>4. CASE ~ (RowLocked(s) \/ sched[s].paused)
  <2>1. proc' = [proc EXCEPT ![d] = v]
    BY <1>4 DEF OpenDue
  <2>2. ~ proc[d].coordinated /\ DOMAIN proc[d].news = {}
    BY <1>1 DEF IInv, DispatcherOK, LockOK, InTxn
  <2>3. sched[s].next \in Nat /\ OccurrenceLimit \in 0 .. OccurrenceLimit
    <3>1. sched[s] \in Schedule
      BY <1>2 DEF IInv, TypeOK
    <3> QED BY <3>1, Bounds DEF Schedule
  <2>4. /\ v \in Visits(DOMAIN proc[d].news) /\ v.news = proc[d].news /\ v.heads = proc[d].heads
        /\ v.txn = "due" /\ v.id = s /\ v.next = sched[s].next /\ v.coordinated = proc[d].coordinated
    BY <1>1, <1>2, <2>3 DEF Visits
  <2>5. proc'[d] = v
    BY <2>1 DEF IInv, TypeOK
  <2>6. DOMAIN v.news = {} /\ ~ v.coordinated
    BY <2>2, <2>4
  <2> HIDE DEF v
  <2>7. Visible(d)' = execs
    BY <2>5, <2>6, <1>1, NothingNew DEF Visible, IInv, TypeOK
  <2>8. DispatcherOK(d)'
    <3>1. LockOK(d)' /\ NewsOK(d)' /\ AloneOK(d)'
      BY <2>4, <2>5, <2>6, <1>1, <1>2, <1>4 DEF LockOK, NewsOK, AloneOK, InTxn
    <3>2. SightOK(d)'
      BY <2>4, <2>5, <2>7, <1>1, <1>2 DEF SightOK, Cursor, IInv, RecordOK
    <3> QED BY <3>1, <3>2 DEF DispatcherOK
  <2>9. ASSUME NEW c \in Dispatchers \ {d} PROVE Apart(c, d)' /\ Apart(d, c)'
    <3>1. proc'[c] = proc[c]
      BY <2>1 DEF IInv, TypeOK
    <3> QED BY <3>1, <2>4, <2>5, <2>6, <1>2, <1>4, FreeSays DEF Apart, InTxn
  <2>10. /\ v \in Visits(DOMAIN v.news) /\ DOMAIN v.news \subseteq Keys
         /\ \A i \in DOMAIN v.heads : v.heads[i] \in DOMAIN execs
    BY <2>4, <2>6 DEF IInv, TypeOK
  <2> QED BY <2>1, <2>8, <2>9, <2>10, <1>1, OwnKeeps DEF IInv, TypeOK
<1> QED BY <1>3, <1>4

(* The oldest queued occurrence of a schedule is decided again.               *)
LEMMA OpenHeadKeeps ==
  ASSUME IInv, NEW d \in Dispatchers, OpenHead(d)
  PROVE  IInv'
<1> DEFINE k == Head(proc[d].heads)
           s == k[1]
           c == Dispatch(execs, k, execs[k], proc[d].at)
<1>1. /\ proc[d] \in Visits(DOMAIN proc[d].news) /\ proc[d].heads \in Seq(Keys) /\ proc[d].heads # << >>
      /\ proc[d].due \in Seq(Ids)
      /\ proc[d].txn = "none" /\ UNCHANGED <<now, sched, execs, edits, since>>
  BY DEF IInv, TypeOK, OpenHead, Visits
<1>2. /\ k \in DOMAIN execs /\ Tail(proc[d].heads) \in Seq(Keys)
      /\ \A i \in DOMAIN Tail(proc[d].heads) : Tail(proc[d].heads)[i] \in DOMAIN execs
  BY <1>1, TailSays DEF IInv, TypeOK
<1>3. /\ k \in Keys /\ s \in Ids /\ execs \in [DOMAIN execs -> Execution] /\ execs[k] \in Execution
      /\ DOMAIN execs \subseteq Keys
  BY <1>2, KeysSay DEF IInv, TypeOK
<1>4. CASE RowLocked(s) \/ sched[s].paused \/ execs[k].status # "QUEUED" \/ TargetLocked(d, s)
  <2>1. Leave(d, Tail(proc[d].heads), proc[d].due) /\ UNCHANGED faults
    BY <1>4 DEF OpenHead
  <2> QED BY <2>1, <1>1, <1>2, LeaveKeeps
<1>5. CASE ~ (RowLocked(s) \/ sched[s].paused \/ execs[k].status # "QUEUED" \/ TargetLocked(d, s))
  <2>1. PICK o : /\ Outcome(c, o)
                 /\ proc' = [proc EXCEPT ![d] = [proc[d] EXCEPT !.txn = "head", !.id = s,
                                                    !.coordinated = TRUE, !.news = Only(k, o)]]
    BY <1>5 DEF OpenHead
  <2> DEFINE v == [proc[d] EXCEPT !.txn = "head", !.id = s, !.coordinated = TRUE, !.news = Only(k, o)]
  <2>2. execs[k].run = "none" /\ execs[k].policy = "QUEUE"
    BY <1>2, <1>3, <1>5 DEF IInv, TypeOK, Execution
  <2>3. /\ o \in Execution /\ o.policy = "QUEUE" /\ o.scope = execs[k].scope
        /\ o.run = IF o.status = "DISPATCHED" THEN "open" ELSE "none"
        /\ o.status = "DISPATCHED" => ~ Busy(execs, s, execs[k]) /\ ~ OlderQueued(execs, k, execs[k])
    <3>1. o \in {c, Missed(c)}
      BY <2>1 DEF Outcome
    <3>2. Sound(o, execs, k, execs[k])
      BY <3>1, <2>2, <1>3, <1>5, DispatchSays
    <3> QED BY <3>2, <2>2 DEF Sound
  <2>4. /\ Only(k, o) \in [{k} -> Execution] /\ DOMAIN Only(k, o) = {k} /\ Only(k, o)[k] = o
    BY <2>3, OnlySays
  <2>5. /\ v \in Visits({k}) /\ v.news = Only(k, o) /\ v.heads = proc[d].heads
        /\ v.txn = "head" /\ v.id = s /\ v.coordinated = TRUE
    BY <2>4, <1>1, <1>3 DEF Visits
  <2>6. proc'[d] = v /\ \A b \in Dispatchers \ {d} : proc'[b] = proc[b]
    BY <2>1 DEF IInv, TypeOK
  <2> HIDE DEF v
  <2>7. Visible(d)' = Over(execs, Only(k, o))
    BY <2>5, <2>6, <1>1 DEF Visible
  <2>8. LockOK(d)'
    BY <2>5, <2>6, <1>1, <1>3, <1>5 DEF LockOK, InTxn
  <2>9. NewsOK(d)'
    <3>1. k[2] <= now
      BY <1>2 DEF IInv, RecordOK
    <3> QED BY <2>3, <2>4, <2>5, <2>6, <3>1, <1>1 DEF NewsOK
  <2>10. AloneOK(d)'
    <3>1. SUFFICES ASSUME o.status = "DISPATCHED",
                          NEW j \in InScope(Over(execs, Only(k, o)), s, o) \ {k}
                   PROVE  Over(execs, Only(k, o))[j].run # "open"
      BY <2>4, <2>5, <2>6, <2>7 DEF AloneOK
    <3>2. j \in InScope(execs, s, execs[k]) /\ Over(execs, Only(k, o))[j] = execs[j]
      BY <3>1, <2>3 DEF InScope, Over, Only
    <3> QED BY <3>1, <3>2, <2>3 DEF Busy
  <2>11. SightOK(d)'
    <3>1. Kept(execs, s, since[s], sched[s].every, sched[s].next)
      BY <1>3 DEF IInv, RecordOK
    <3>2. ASSUME o.status = "DISPATCHED", NEW j \in DOMAIN execs, j[1] = s, j[2] < k[2]
          PROVE  execs[j].status # "QUEUED"
      <4>1. j \in InScope(execs, k[1], execs[k]) /\ ~ sched[j[1]].paused /\ Earlier(j, k)
        BY <3>2, <1>5 DEF InScope, Earlier
      <4> QED BY <4>1, <3>2, <2>3 DEF OlderQueued, Queued
    <3>3. Kept(Over(execs, Only(k, o)), s, since[s], sched[s].every, sched[s].next)
      BY <3>1, <3>2, <1>2, <1>3, <1>5, KeptDecided
    <3> QED BY <3>3, <2>5, <2>6, <2>7, <1>1 DEF SightOK, Cursor
  <2>12. ASSUME NEW b \in Dispatchers \ {d} PROVE Apart(b, d)' /\ Apart(d, b)'
    BY <2>5, <2>6, <1>3, <1>5, FreeSays DEF Apart, InTxn
  <2>13. /\ v \in Visits(DOMAIN v.news) /\ DOMAIN v.news \subseteq Keys
         /\ \A i \in DOMAIN v.heads : v.heads[i] \in DOMAIN execs
    BY <2>4, <2>5, <1>3 DEF IInv, TypeOK
  <2>14. faults' \in 0 .. MaxFaults /\ edits' \in 0 .. MaxEdits
    BY <2>1, <1>1, OutcomeSays DEF IInv, TypeOK
  <2>15. DispatcherOK(d)'
    BY <2>8, <2>9, <2>10, <2>11 DEF DispatcherOK
  <2> QED BY <2>1, <2>12, <2>13, <2>14, <2>15, <1>1, OwnKeeps DEF v
<1> QED BY <1>4, <1>5

(* Rows recorded one after the other. *)
LEMMA OverOver ==
  ASSUME NEW ex, NEW news, NEW k, NEW o
  PROVE  Over(ex, Over(news, Only(k, o))) = Over(Over(ex, news), Only(k, o))
BY DEF Over, Only

(* What a transaction sees is well formed.                                   *)
LEMMA VisibleSays ==
  ASSUME IInv, NEW d \in Dispatchers
  PROVE  /\ DOMAIN Visible(d) = DOMAIN execs \cup DOMAIN proc[d].news /\ DOMAIN Visible(d) \subseteq Keys
         /\ \A k \in DOMAIN proc[d].news : Visible(d)[k] = proc[d].news[k]
         /\ \A k \in DOMAIN execs \ DOMAIN proc[d].news : Visible(d)[k] = execs[k]
         /\ Visible(d) \in [DOMAIN Visible(d) -> Execution]
<1>1. /\ proc[d].news \in [DOMAIN proc[d].news -> Execution] /\ DOMAIN proc[d].news \subseteq Keys
      /\ execs \in [DOMAIN execs -> Execution] /\ DOMAIN execs \subseteq Keys
  BY DEF IInv, TypeOK, Visits
<1>2. DOMAIN Visible(d) = DOMAIN execs \cup DOMAIN proc[d].news
  BY DEF Visible, Over
<1>3. \A k \in DOMAIN proc[d].news : Visible(d)[k] = proc[d].news[k]
  BY DEF Visible, Over
<1>4. \A k \in DOMAIN execs \ DOMAIN proc[d].news : Visible(d)[k] = execs[k]
  BY DEF Visible, Over
<1>5. Visible(d) \in [DOMAIN execs \cup DOMAIN proc[d].news -> Execution]
  BY <1>1 DEF Visible, Over
<1> QED BY <1>1, <1>2, <1>3, <1>4, <1>5

(* The cursor of a transaction passes one occurrence.                        *)
LEMMA OccurKeeps ==
  ASSUME IInv, NEW d \in Dispatchers, Occur(d)
  PROVE  IInv'
<1> DEFINE p == proc[d]
           s == p.id
           k == <<s, p.next>>
           ex == Visible(d)
           next == NextOccurrence(sched[s].every, p.next)
           after == [p EXCEPT !.left = @ - 1, !.next = Following(sched[s], @, p.at)]
           e == Decide(ex, s, sched[s], p.next, p.at)
<1>1. /\ p \in Visits(DOMAIN p.news) /\ DOMAIN p.news \subseteq Keys
      /\ p.txn = "due" /\ p.left > 0 /\ p.next <= p.at
      /\ UNCHANGED <<now, sched, execs, edits, since>>
  BY DEF IInv, TypeOK, Occur, More
<1>2. /\ LockOK(d) /\ NewsOK(d) /\ AloneOK(d) /\ SightOK(d)
      /\ s \in Ids /\ ~ sched[s].paused
  BY <1>1 DEF IInv, DispatcherOK, LockOK, InTxn
<1>3. /\ p.at \in 0 .. now /\ now \in 0 .. MaxTime /\ p.next \in 0 .. MaxTime
      /\ p.left - 1 \in 0 .. OccurrenceLimit /\ 0 \in 0 .. OccurrenceLimit
  <2>1. p.at \in 0 .. now /\ p.left \in 0 .. OccurrenceLimit /\ p.next \in Nat
    BY <1>1 DEF Visits
  <2> QED BY <2>1, <1>1, Bounds DEF IInv, TypeOK
<1>4. /\ sched[s] \in Schedule /\ sched[s].every \in Nat \ {0} /\ since[s] \in Nat
  <2>1. sched[s] \in Schedule /\ since[s] \in 0 .. MaxTime
    BY <1>2 DEF IInv, TypeOK
  <2>2. sched[s].every \in Crons
    BY <2>1 DEF Schedule
  <2> HIDE DEF s
  <2>3. sched[s].every \in Nat \ {0}
    BY <2>2, Bounds
  <2>4. since[s] \in Nat
    BY <2>1, Bounds
  <2> QED BY <2>1, <2>3, <2>4
<1>5. Kept(ex, s, since[s], sched[s].every, p.next)
  BY <1>1, <1>2 DEF SightOK, InTxn, Cursor
<1>6. k \in Keys /\ k[1] = s /\ k[2] = p.next /\ k \notin DOMAIN ex
  <2>1. k \in Keys /\ k[1] = s /\ k[2] = p.next
    BY <1>2, <1>3 DEF Keys
  <2> QED BY <2>1, <1>3, <1>5 DEF Kept, Complete
<1>7. CASE TargetLocked(d, s)
  <2> DEFINE v == [p EXCEPT !.left = 0]
  <2>1. proc' = [proc EXCEPT ![d] = v] /\ UNCHANGED faults
    BY <1>6, <1>7 DEF Occur
  <2>2. /\ v \in Visits(DOMAIN p.news) /\ v.news = p.news /\ v.heads = p.heads /\ v.at = p.at
        /\ v.txn = "due" /\ v.id = s /\ v.coordinated = p.coordinated /\ v.next = p.next
    BY <1>1, <1>3 DEF Visits
  <2>3. proc'[d] = v /\ \A b \in Dispatchers \ {d} : proc'[b] = proc[b]
    BY <2>1 DEF IInv, TypeOK
  <2> HIDE DEF v
  <2>4. Visible(d)' = ex
    BY <2>2, <2>3, <1>1 DEF Visible
  <2>5. LockOK(d)' /\ NewsOK(d)' /\ SightOK(d)'
    BY <2>2, <2>3, <2>4, <1>1, <1>2 DEF LockOK, NewsOK, SightOK, InTxn, Cursor
  <2>6. AloneOK(d)'
    BY <2>2, <2>3, <2>4, <1>2 DEF AloneOK
  <2>7. ASSUME NEW b \in Dispatchers \ {d} PROVE Apart(b, d)' /\ Apart(d, b)'
    BY <2>2, <2>3, <1>1 DEF IInv, Apart, InTxn
  <2>8. /\ v \in Visits(DOMAIN v.news) /\ DOMAIN v.news \subseteq Keys
        /\ \A i \in DOMAIN v.heads : v.heads[i] \in DOMAIN execs
    BY <2>2, <1>1 DEF IInv, TypeOK
  <2>9. edits' \in 0 .. MaxEdits /\ faults' \in 0 .. MaxFaults /\ DispatcherOK(d)'
    BY <2>1, <2>5, <2>6, <1>1 DEF IInv, TypeOK, DispatcherOK
  <2> QED BY <2>1, <2>7, <2>8, <2>9, <1>1, OwnKeeps DEF v
<1>8. CASE ~ TargetLocked(d, s)
  <2>1. PICK o : /\ Outcome(e, o)
                 /\ proc' = [proc EXCEPT ![d] = [after EXCEPT !.coordinated = TRUE,
                                                             !.news = Over(@, Only(k, o))]]
    BY <1>6, <1>8 DEF Occur
  <2> DEFINE v == [after EXCEPT !.coordinated = TRUE, !.news = Over(@, Only(k, o))]
             news == Over(p.news, Only(k, o))
             new == Over(ex, Only(k, o))
  <2>2. /\ o \in Execution /\ o.policy = sched[s].policy /\ o.scope = sched[s].scope
        /\ o.run = IF o.status = "DISPATCHED" THEN "open" ELSE "none"
        /\ o.status = "QUEUED" => o.policy = "QUEUE" /\ QueueSize(ex, s, o) < MaxQueue
        /\ o.status = "DISPATCHED" /\ o.policy # "ALLOW" =>
             \A j \in InScope(ex, s, o) : ex[j].run # "open"
        /\ o.status = "DISPATCHED" /\ o.policy = "QUEUE" =>
             \A j \in InScope(ex, s, o) :
               ex[j].status = "QUEUED" => sched[j[1]].paused \/ ~ Earlier(j, k)
    <3>1. o \in {e, Missed(e)} /\ DOMAIN ex \subseteq Keys
      BY <2>1, VisibleSays DEF Outcome
    <3> HIDE DEF ex
    <3> QED BY <3>1, <1>2, <1>3, <1>4, <1>6, DecideSays
  <2>3. /\ DOMAIN news = DOMAIN p.news \cup {k} /\ news[k] = o
        /\ \A i \in DOMAIN p.news : news[i] = p.news[i] /\ i # k
        /\ news \in [DOMAIN news -> Execution]
    <3>1. k \notin DOMAIN p.news /\ p.news \in [DOMAIN p.news -> Execution]
      BY <1>1, <1>6, VisibleSays DEF Visits
    <3> QED BY <3>1, <2>2 DEF Over, Only
  <2>4. /\ DOMAIN new = DOMAIN ex \cup {k} /\ new[k] = o
        /\ \A i \in DOMAIN ex : new[i] = ex[i] /\ i # k
    BY <1>6 DEF Over, Only
  <2>5. next \in Nat
    <3>1. p.next \in Nat
      BY <1>3
    <3> HIDE DEF s
    <3> QED BY <3>1, <1>4, NextSays
  <2>6. /\ v \in Visits(DOMAIN news) /\ v.news = news /\ v.heads = p.heads /\ v.at = p.at
        /\ v.txn = "due" /\ v.id = s /\ v.coordinated = TRUE /\ v.next = next
    <3>1. Following(sched[s], p.next, p.at) = next
      BY DEF Following
    <3>2. /\ after \in Visits(DOMAIN p.news) /\ after.news = p.news /\ after.heads = p.heads
          /\ after.at = p.at /\ after.txn = "due" /\ after.id = s /\ after.next = next
      BY <3>1, <2>5, <1>1, <1>3 DEF Visits
    <3> HIDE DEF after, news, next
    <3> QED BY <3>2, <2>3 DEF Visits, news
  <2>7. proc'[d] = v /\ \A b \in Dispatchers \ {d} : proc'[b] = proc[b]
    BY <2>1 DEF IInv, TypeOK
  <2> HIDE DEF v
  <2>8. Visible(d)' = new
    BY <2>6, <2>7, <1>1, OverOver DEF Visible
  <2>9. LockOK(d)'
    BY <2>6, <2>7, <1>1, <1>2 DEF LockOK, InTxn
  <2>10. NewsOK(d)'
    <3>1. k[2] <= now
      BY <1>1, <1>3, <1>6
    <3> QED BY <3>1, <2>2, <2>3, <2>6, <2>7, <1>1, <1>2, <1>6 DEF NewsOK
  <2>11. AloneOK(d)'
    <3>1. SUFFICES ASSUME NEW i \in DOMAIN news, news[i].status = "DISPATCHED", news[i].policy # "ALLOW",
                          NEW j \in InScope(new, i[1], news[i]) \ {i}
                   PROVE  new[j].run # "open"
      BY <2>6, <2>7, <2>8 DEF AloneOK
    <3>2. CASE i = k
      <4>1. j \in InScope(ex, s, o) /\ new[j] = ex[j]
        BY <3>1, <3>2, <2>3, <2>4, <1>6 DEF InScope
      <4> QED BY <4>1, <3>1, <3>2, <2>2, <2>3
    <3>3. CASE i # k /\ j # k
      <4>1. i \in DOMAIN p.news /\ news[i] = p.news[i] /\ j \in InScope(ex, i[1], p.news[i]) \ {i} /\ new[j] = ex[j]
        BY <3>1, <3>3, <2>3, <2>4 DEF InScope
      <4> QED BY <4>1, <3>1, <1>2 DEF AloneOK
    <3>4. CASE i # k /\ j = k
      <4>1. /\ i \in DOMAIN p.news /\ i[1] = s /\ p.news[i].run = "open" /\ p.news[i].policy = sched[s].policy
            /\ news[i] = p.news[i]
        BY <3>1, <3>4, <2>3, <1>1, <1>2 DEF NewsOK
      <4>2. i \in InScope(ex, s, o) /\ ex[i].run = "open"
        BY <4>1, VisibleSays DEF InScope
      <4> QED BY <4>1, <4>2, <3>1, <3>4, <2>2, <2>4
    <3> QED BY <3>2, <3>3, <3>4
  <2>12. SightOK(d)'
    <3>1. DOMAIN ex \subseteq Keys
      BY VisibleSays
    <3>2. o.status = "QUEUED" => Cardinality(Waiting(ex, s)) < MaxQueue
      <4>1. Waiting(ex, s) \subseteq Queued(ex, InScope(ex, s, o)) /\ Queued(ex, InScope(ex, s, o)) \subseteq Keys
        BY <3>1 DEF Waiting, Queued, InScope
      <4>2. IsFiniteSet(Queued(ex, InScope(ex, s, o)))
        BY <4>1, KeysSay, FS_Subset
      <4>3. /\ Cardinality(Waiting(ex, s)) <= QueueSize(ex, s, o)
            /\ Cardinality(Waiting(ex, s)) \in Nat /\ QueueSize(ex, s, o) \in Nat
        BY <4>1, <4>2, FS_Subset, FS_CardinalityType DEF QueueSize
      <4> QED BY <4>3, <2>2, Bounds
    <3>3. o.status = "DISPATCHED" /\ o.policy = "QUEUE"
            => \A j \in DOMAIN ex : j[1] = s => ex[j].status # "QUEUED"
      <4>1. \A j \in DOMAIN ex : j[1] = s => j \in InScope(ex, s, o) /\ Earlier(j, k) /\ ~ sched[j[1]].paused
        BY <1>2, <1>5, <1>6 DEF InScope, Earlier, Kept, Complete
      <4> QED BY <4>1, <2>2
    <3>4. Kept(new, s, since[s], sched[s].every, next)
      <4> HIDE DEF ex
      <4> QED BY <3>1, <3>2, <3>3, <1>2, <1>3, <1>4, <1>5, KeptRecorded
    <3> QED BY <3>4, <2>6, <2>7, <2>8, <1>1 DEF SightOK, Cursor
  <2>13. ASSUME NEW b \in Dispatchers \ {d} PROVE Apart(b, d)' /\ Apart(d, b)'
    <3>1. Apart(b, d) /\ Apart(d, b)
      BY DEF IInv
    <3> QED BY <3>1, <2>6, <2>7, <1>1, <1>2, <1>8, FreeSays DEF Apart, InTxn
  <2>14. /\ v \in Visits(DOMAIN v.news) /\ DOMAIN v.news \subseteq Keys
         /\ \A i \in DOMAIN v.heads : v.heads[i] \in DOMAIN execs
    BY <2>3, <2>6, <1>1, <1>6 DEF IInv, TypeOK
  <2>15. faults' \in 0 .. MaxFaults /\ edits' \in 0 .. MaxEdits /\ DispatcherOK(d)'
    BY <2>1, <2>9, <2>10, <2>11, <2>12, <1>1, OutcomeSays DEF IInv, TypeOK, DispatcherOK
  <2> QED BY <2>1, <2>13, <2>14, <2>15, <1>1, OwnKeeps DEF v
<1> QED BY <1>7, <1>8

-----------------------------------------------------------------------------
(* Transactions commit.                                                     *)

(* The keys of the rows of a database. *)
LEMMA RowsSay ==
  ASSUME IInv
  PROVE  /\ execs \in [DOMAIN execs -> Execution] /\ DOMAIN execs \subseteq Keys
         /\ \A k \in DOMAIN execs :
              /\ execs[k].run # "none" <=> execs[k].status = "DISPATCHED"
              /\ execs[k].status = "QUEUED" => execs[k].policy = "QUEUE"
              /\ k[2] <= now
         /\ \A d \in Dispatchers :
              /\ proc[d] \in Visits(DOMAIN proc[d].news)
              /\ DOMAIN proc[d].news \subseteq Keys
BY DEF IInv, TypeOK, RecordOK

(* The writes of one transaction, as another dispatcher sees them.           *)
LEMMA OthersSee ==
  ASSUME IInv, NEW c \in Dispatchers, NEW d \in Dispatchers, c # d, InTxn(d),
         proc'[c] = proc[c], execs' = Visible(d)
  PROVE  /\ DOMAIN Visible(c)' = DOMAIN execs \cup DOMAIN proc[d].news \cup DOMAIN proc[c].news
         /\ \A k \in DOMAIN proc[c].news : Visible(c)'[k] = proc[c].news[k]
         /\ \A k \in DOMAIN Visible(c)' \ DOMAIN proc[c].news : Visible(c)'[k] = Visible(d)[k]
         /\ \A k \in DOMAIN Visible(c) \ DOMAIN proc[d].news : Visible(c)'[k] = Visible(c)[k]
         /\ \A k \in DOMAIN proc[c].news, j \in DOMAIN proc[d].news :
              k[1] # j[1] /\ Target[k[1]] # Target[j[1]]
<1>1. DOMAIN Visible(d) = DOMAIN execs \cup DOMAIN proc[d].news
  BY VisibleSays
<1>2. Visible(c)' = Over(Visible(d), proc[c].news)
  BY DEF Visible
<1>3. /\ DOMAIN Visible(c)' = DOMAIN execs \cup DOMAIN proc[d].news \cup DOMAIN proc[c].news
      /\ \A k \in DOMAIN proc[c].news : Visible(c)'[k] = proc[c].news[k]
      /\ \A k \in DOMAIN Visible(c)' \ DOMAIN proc[c].news : Visible(c)'[k] = Visible(d)[k]
  BY <1>1, <1>2 DEF Over
<1>4. \A k \in DOMAIN Visible(c) \ DOMAIN proc[d].news : Visible(c)'[k] = Visible(c)[k]
  BY <1>3, VisibleSays
<1>5. ASSUME NEW k \in DOMAIN proc[c].news, NEW j \in DOMAIN proc[d].news
      PROVE  k[1] # j[1] /\ Target[k[1]] # Target[j[1]]
  <2>1. DispatcherOK(c) /\ DispatcherOK(d) /\ Apart(c, d)
    BY DEF IInv
  <2>2. k[1] = proc[c].id /\ j[1] = proc[d].id
    BY <2>1 DEF DispatcherOK, NewsOK
  <2>3. proc[c].coordinated /\ proc[d].coordinated
    BY <2>1 DEF DispatcherOK, LockOK
  <2>4. InTxn(c)
    BY <2>1, <2>3 DEF DispatcherOK, LockOK
  <2> QED BY <2>1, <2>2, <2>3, <2>4 DEF Apart
<1> QED BY <1>3, <1>4, <1>5

LEMMA CommitKeeps ==
  ASSUME IInv, NEW d \in Dispatchers, InTxn(d), execs' = Visible(d),
         sched' \in [Ids -> Schedule],
         \A s \in Ids : /\ sched'[s].paused = sched[s].paused /\ sched'[s].every = sched[s].every
                        /\ sched'[s].policy = sched[s].policy
                        /\ sched'[s].next = IF s = proc[d].id THEN Cursor(d) ELSE sched[s].next,
         NEW heads \in Seq(Keys), NEW due \in Seq(Ids), Leave(d, heads, due),
         \A i \in DOMAIN heads : heads[i] \in DOMAIN execs,
         UNCHANGED <<now, edits, faults, since>>
  PROVE  IInv'
<1>1. PICK at \in 0 .. now, h \in {heads, << >>}, u \in {due, << >>} :
        proc' = [proc EXCEPT ![d] = Visit(at, h, u)]
  BY LeaveSays
<1> DEFINE v == Visit(at, h, u)
<1>2. h \in Seq(Keys) /\ u \in Seq(Ids) /\ \A i \in DOMAIN h : h[i] \in DOMAIN execs
  <2>1. << >> \in Seq(Keys) /\ << >> \in Seq(Ids) /\ DOMAIN << >> = {}
    OBVIOUS
  <2> QED BY <1>1, <2>1
<1>3. /\ v \in Visits({}) /\ v.txn = "none" /\ v.heads = h
      /\ ~ v.coordinated /\ DOMAIN v.news = {}
  BY <1>2, VisitSays
<1>4. proc'[d] = v /\ DOMAIN proc' = Dispatchers /\ \A c \in Dispatchers \ {d} : proc'[c] = proc[c]
  BY <1>1 DEF IInv, TypeOK
<1> HIDE DEF v
<1>5. DispatcherOK(d)' /\ \A c : Apart(c, d)' /\ Apart(d, c)'
  BY <1>3, <1>4, OutSays
<1>6. proc[d].id \in Ids /\ DispatcherOK(d)
  BY DEF IInv, DispatcherOK, LockOK
<1>7. /\ DOMAIN execs' = DOMAIN execs \cup DOMAIN proc[d].news /\ DOMAIN execs' \subseteq Keys
      /\ execs' \in [DOMAIN execs' -> Execution]
      /\ \A k \in DOMAIN proc[d].news : execs'[k] = proc[d].news[k]
      /\ \A k \in DOMAIN execs \ DOMAIN proc[d].news : execs'[k] = execs[k]
  BY VisibleSays
<1>8. \A k \in DOMAIN execs' :
        /\ execs'[k].run # "none" <=> execs'[k].status = "DISPATCHED"
        /\ execs'[k].status = "QUEUED" => execs'[k].policy = "QUEUE"
        /\ k[2] <= now
  BY <1>6, <1>7, RowsSay DEF DispatcherOK, NewsOK
<1>9. ASSUME NEW c \in Dispatchers
      PROVE  /\ (proc[c] \in Visits(DOMAIN proc[c].news) /\ DOMAIN proc[c].news \subseteq Keys)'
             /\ (\A i \in DOMAIN proc[c].heads : proc[c].heads[i] \in DOMAIN execs)'
  <2>1. \A some : Visits(some)' = Visits(some)
    BY DEF Visits
  <2>2. CASE c = d
    <3>1. v \in Visits(DOMAIN v.news) /\ DOMAIN v.news \subseteq Keys
      BY <1>3
    <3>2. \A i \in DOMAIN v.heads : v.heads[i] \in DOMAIN execs'
      BY <1>2, <1>3, <1>7
    <3> QED BY <2>1, <2>2, <3>1, <3>2, <1>4
  <2>3. CASE c # d
    <3>1. \A i \in DOMAIN proc[c].heads : proc[c].heads[i] \in DOMAIN execs'
      BY <1>7 DEF IInv, TypeOK
    <3> QED BY <2>1, <2>3, <3>1, <1>4, RowsSay
  <2> QED BY <2>2, <2>3
<1>10. TypeOK'
  BY <1>4, <1>7, <1>8, <1>9 DEF IInv, TypeOK
<1>11. ASSUME NEW s \in Ids PROVE Kept(execs, s, since[s], sched[s].every, sched[s].next)'
  <2>1. CASE s = proc[d].id
    BY <2>1, <1>6 DEF DispatcherOK, SightOK
  <2>2. CASE s # proc[d].id
    <3>1. Kept(execs, s, since[s], sched[s].every, sched[s].next)
      BY DEF IInv, RecordOK
    <3>2. \A k \in Keys : k[1] = s =>
            /\ k \in DOMAIN execs <=> k \in DOMAIN execs'
            /\ k \in DOMAIN execs => execs'[k].status = execs[k].status /\ execs'[k].policy = execs[k].policy
      BY <2>2, <1>6, <1>7 DEF DispatcherOK, NewsOK
    <3> DEFINE new == execs'
               ex == execs
               every == sched[s].every
               next == sched[s].next
    <3>4. DOMAIN new \subseteq Keys /\ DOMAIN ex \subseteq Keys
      BY <1>7, RowsSay
    <3>5. \A k \in Keys : k[1] = s =>
            /\ k \in DOMAIN ex <=> k \in DOMAIN new
            /\ k \in DOMAIN ex => new[k].status = ex[k].status /\ new[k].policy = ex[k].policy
      BY <3>2
    <3>7. Kept(ex, s, since[s], every, next)
      BY <3>1
    <3> HIDE DEF new, ex, every, next
    <3>6. Kept(new, s, since[s], every, next)
      BY <3>7, <3>4, <3>5, KeptSame
    <3>3. Kept(execs', s, since[s], sched[s].every, sched[s].next)
      BY <3>6 DEF new, every, next
    <3> QED BY <2>2, <3>3
  <2> QED BY <2>1, <2>2
<1>12. RecordOK'
  BY <1>8, <1>11 DEF RecordOK
<1>13. ASSUME NEW c \in Dispatchers, c # d PROVE DispatcherOK(c)'
  <2>1. DispatcherOK(c) /\ proc'[c] = proc[c] /\ Apart(c, d)
    BY <1>4, <1>13 DEF IInv
  <2> DEFINE ex == Visible(c)
             new == Visible(c)'
             other == proc[d].news
             own == proc[c].news
  <2>5. /\ DOMAIN new = DOMAIN execs \cup DOMAIN other \cup DOMAIN own
        /\ \A k \in DOMAIN ex \ DOMAIN other : new[k] = ex[k]
        /\ \A k \in DOMAIN own, j \in DOMAIN other : k[1] # j[1] /\ Target[k[1]] # Target[j[1]]
    BY <2>1, <1>13, OthersSee
  <2>6. DOMAIN ex = DOMAIN execs \cup DOMAIN own /\ DOMAIN ex \subseteq Keys
    BY VisibleSays
  <2>7. DOMAIN new \subseteq Keys
    BY <2>5, RowsSay
  <2>2. LockOK(c)' /\ NewsOK(c)'
    BY <2>1 DEF DispatcherOK, LockOK, NewsOK, InTxn
  <2>3. AloneOK(c)'
    <3>1. SUFFICES ASSUME NEW k \in DOMAIN proc[c].news, proc[c].news[k].status = "DISPATCHED",
                          proc[c].news[k].policy # "ALLOW",
                          NEW j \in InScope(Visible(c)', k[1], proc[c].news[k]) \ {k}
                   PROVE  Visible(c)'[j].run # "open"
      BY <2>1 DEF AloneOK
    <3> HIDE DEF ex, new
    <3>2. j \in DOMAIN new /\ j \notin DOMAIN other
      BY <3>1, <2>5 DEF InScope, new, own
    <3>3. j \in DOMAIN ex /\ new[j] = ex[j]
      BY <3>2, <2>5, <2>6
    <3>4. j \in InScope(ex, k[1], proc[c].news[k]) \ {k}
      BY <3>1, <3>3 DEF InScope
    <3> USE DEF ex, new
    <3> QED BY <3>1, <3>3, <3>4, <2>1 DEF DispatcherOK, AloneOK
  <2>4. SightOK(c)'
    <3>1. SUFFICES ASSUME InTxn(c)
                   PROVE  Kept(Visible(c), proc[c].id, since[proc[c].id], sched[proc[c].id].every, Cursor(c))'
      BY <2>1 DEF SightOK, InTxn
    <3> DEFINE s == proc[c].id
    <3>2. s \in Ids /\ s # proc[d].id
      BY <3>1, <2>1 DEF Apart, DispatcherOK, LockOK
    <3>3. Cursor(c)' = Cursor(c) /\ s' = s /\ since'[s] = since[s] /\ sched'[s].every = sched[s].every
      BY <2>1, <3>2 DEF Cursor
    <3>4. Kept(Visible(c), s, since[s], sched[s].every, Cursor(c))
      BY <3>1, <2>1 DEF DispatcherOK, SightOK
    <3>5. \A k \in DOMAIN other : k[1] # s
      BY <3>2, <1>6 DEF DispatcherOK, NewsOK
    <3> HIDE DEF ex, new, other, own
    <3>6. \A k \in Keys : k[1] = s =>
            /\ k \in DOMAIN ex <=> k \in DOMAIN new
            /\ k \in DOMAIN ex => new[k].status = ex[k].status /\ new[k].policy = ex[k].policy
      BY <3>5, <2>5, <2>6
    <3> DEFINE next == Cursor(c)
    <3>8. Kept(ex, s, since[s], sched[s].every, next)
      BY <3>4 DEF ex
    <3> HIDE DEF next
    <3>9. Kept(new, s, since[s], sched[s].every, next)
      BY <3>6, <3>8, <2>6, <2>7, KeptSame
    <3>7. Kept(Visible(c)', s, since[s], sched[s].every, Cursor(c))
      BY <3>9 DEF new, next
    <3> QED BY <3>3, <3>7
  <2> QED BY <2>2, <2>3, <2>4 DEF DispatcherOK
<1>14. ASSUME NEW b \in Dispatchers, NEW c \in Dispatchers, b # c PROVE Apart(b, c)'
  <2>1. CASE b = d \/ c = d
    BY <2>1, <1>5
  <2>2. CASE b # d /\ c # d
    BY <1>4, <1>14, <2>2 DEF IInv, Apart, InTxn
  <2> QED BY <2>1, <2>2
<1> QED BY <1>5, <1>10, <1>12, <1>13, <1>14 DEF IInv

LEMMA CommitHeadKeeps ==
  ASSUME IInv, NEW d \in Dispatchers, CommitHead(d)
  PROVE  IInv'
<1> DEFINE heads == Tail(proc[d].heads)
<1>1. /\ InTxn(d) /\ Cursor(d) = sched[proc[d].id].next /\ execs' = Visible(d) /\ sched' = sched
      /\ Leave(d, heads, proc[d].due) /\ UNCHANGED <<now, edits, faults, since>>
  BY DEF CommitHead, InTxn, Cursor
<1>2. sched' \in [Ids -> Schedule]
  BY <1>1 DEF IInv, TypeOK
<1>3. proc[d].heads \in Seq(Keys) /\ proc[d].due \in Seq(Ids)
  BY RowsSay DEF Visits
<1>4. heads \in Seq(Keys) /\ \A i \in DOMAIN heads : heads[i] \in DOMAIN execs
  <2>1. CASE proc[d].heads = << >>
    <3>1. heads = << >> /\ DOMAIN << >> = {} /\ << >> \in Seq(Keys)
      BY <2>1
    <3> QED BY <3>1
  <2>2. CASE proc[d].heads # << >>
    BY <2>2, <1>3, TailSays DEF IInv, TypeOK
  <2> QED BY <2>1, <2>2
<1> HIDE DEF heads
<1> QED BY <1>1, <1>2, <1>3, <1>4, CommitKeeps

LEMMA CommitDueKeeps ==
  ASSUME IInv, NEW d \in Dispatchers, CommitDue(d)
  PROVE  IInv'
<1> DEFINE due == Tail(proc[d].due)
<1>1. /\ InTxn(d) /\ Cursor(d) = proc[d].next /\ execs' = Visible(d)
      /\ sched' = [sched EXCEPT ![proc[d].id].next = proc[d].next]
      /\ Leave(d, << >>, due) /\ UNCHANGED <<now, edits, faults, since>>
  BY DEF CommitDue, InTxn, Cursor
<1>2. proc[d] \in Visits(DOMAIN proc[d].news) /\ proc[d].due \in Seq(Ids) /\ proc[d].next \in Nat
  BY RowsSay DEF Visits
<1>3. proc[d].id \in Ids
  BY <1>1 DEF IInv, DispatcherOK, LockOK
<1>4. sched' \in [Ids -> Schedule]
  <2>1. sched \in [Ids -> Schedule]
    BY DEF IInv, TypeOK
  <2>2. [sched[proc[d].id] EXCEPT !.next = proc[d].next] \in Schedule
    <3>1. sched[proc[d].id] \in Schedule
      BY <2>1, <1>3
    <3> QED BY <3>1, <1>2 DEF Schedule
  <2> QED BY <2>1, <2>2, <1>1
<1>5. ASSUME NEW s \in Ids
      PROVE  /\ sched'[s].paused = sched[s].paused /\ sched'[s].every = sched[s].every
             /\ sched'[s].policy = sched[s].policy
             /\ sched'[s].next = IF s = proc[d].id THEN Cursor(d) ELSE sched[s].next
  <2>1. sched \in [Ids -> Schedule] /\ sched[s] \in Schedule
    BY DEF IInv, TypeOK
  <2>2. sched'[s] = IF s = proc[d].id THEN [sched[s] EXCEPT !.next = Cursor(d)] ELSE sched[s]
    BY <2>1, <1>1
  <2> QED BY <2>1, <2>2 DEF Schedule
<1>6. << >> \in Seq(Keys) /\ DOMAIN << >> = {}
  OBVIOUS
<1>7. due \in Seq(Ids)
  <2>1. CASE proc[d].due = << >>
    <3>1. due = << >> /\ << >> \in Seq(Ids)
      BY <2>1
    <3> QED BY <3>1
  <2>2. CASE proc[d].due # << >>
    BY <2>2, <1>2, TailSays
  <2> QED BY <2>1, <2>2
<1> HIDE DEF due
<1> QED BY <1>1, <1>4, <1>5, <1>6, <1>7, CommitKeeps

-----------------------------------------------------------------------------
(* Steps of others.                                                         *)

(* Runs that end leave every record, and every scope with fewer open runs.    *)
LEMMA RunEndsKeeps ==
  ASSUME IInv, NEW k \in DOMAIN execs, RunEnds(k)
  PROVE  IInv'
<1> DEFINE new == execs'
<1>1. /\ execs \in [DOMAIN execs -> Execution] /\ DOMAIN execs \subseteq Keys /\ execs[k] \in Execution
      /\ execs[k].run = "open"
      /\ UNCHANGED <<now, sched, proc, edits, faults, since>>
  BY RowsSay DEF RunEnds
<1>2. /\ DOMAIN new = DOMAIN execs
      /\ \A j \in DOMAIN execs : new[j] = IF j = k THEN [execs[k] EXCEPT !.run = "ended"] ELSE execs[j]
  BY <1>1 DEF RunEnds
<1>3. ASSUME NEW j \in DOMAIN execs
      PROVE  /\ new[j] \in Execution /\ new[j].status = execs[j].status /\ new[j].policy = execs[j].policy
             /\ new[j].run = "open" => execs[j].run = "open"
             /\ new[j].run = "none" <=> execs[j].run = "none"
  <2>1. execs[j] \in Execution
    BY <1>1
  <2>2. new[j] = IF j = k THEN [execs[k] EXCEPT !.run = "ended"] ELSE execs[j]
    BY <1>2
  <2> HIDE DEF new
  <2> QED BY <2>1, <2>2, <1>1 DEF Execution
<1>4. new \in [DOMAIN new -> Execution]
  <2>1. new = [execs EXCEPT ![k].run = "ended"]
    BY DEF RunEnds
  <2> QED BY <2>1, <1>1, <1>2, <1>3
<1> HIDE DEF new
<1>5. TypeOK'
  <2>1. \A d \in Dispatchers : (proc[d] \in Visits(DOMAIN proc[d].news))'
    BY <1>1, RowsSay DEF Visits
  <2>2. \A j \in DOMAIN execs' :
          /\ execs'[j].run # "none" <=> execs'[j].status = "DISPATCHED"
          /\ execs'[j].status = "QUEUED" => execs'[j].policy = "QUEUE"
    BY <1>2, <1>3, RowsSay DEF new
  <2>3. execs' \in [DOMAIN execs' -> Execution] /\ DOMAIN execs' = DOMAIN execs
    BY <1>2, <1>4 DEF new
  <2> QED BY <2>1, <2>2, <2>3, <1>1 DEF IInv, TypeOK
<1>6. RecordOK'
  <2>1. ASSUME NEW s \in Ids PROVE Kept(execs, s, since[s], sched[s].every, sched[s].next)'
    <3> DEFINE every == sched[s].every
               next == sched[s].next
               ex == execs
    <3>1. Kept(ex, s, since[s], every, next) /\ DOMAIN ex \subseteq Keys
      BY <1>1 DEF IInv, RecordOK
    <3>2. DOMAIN new = DOMAIN ex /\ \A j \in DOMAIN ex : new[j].status = ex[j].status /\ new[j].policy = ex[j].policy
      BY <1>2, <1>3
    <3> HIDE DEF every, next, ex
    <3>3. Kept(new, s, since[s], every, next)
      BY <3>1, <3>2, KeptSame
    <3> QED BY <3>3, <1>1 DEF new, every, next
  <2> QED BY <2>1, <1>1, <1>2, RowsSay DEF RecordOK, new
<1>7. ASSUME NEW d \in Dispatchers PROVE DispatcherOK(d)'
  <2> DEFINE news == proc[d].news
             ex == Visible(d)
             seen == Over(new, news)
  <2>1. /\ DispatcherOK(d) /\ DOMAIN ex = DOMAIN execs \cup DOMAIN news
        /\ \A j \in DOMAIN news : ex[j] = news[j]
        /\ \A j \in DOMAIN execs \ DOMAIN news : ex[j] = execs[j]
    BY VisibleSays DEF IInv
  <2>2. Visible(d)' = seen
    BY <1>1 DEF Visible, new
  <2>3. /\ DOMAIN seen = DOMAIN ex /\ DOMAIN seen \subseteq Keys
        /\ \A j \in DOMAIN ex : /\ seen[j].status = ex[j].status /\ seen[j].policy = ex[j].policy
                                /\ seen[j].run = "open" => ex[j].run = "open"
    BY <2>1, <1>1, <1>2, <1>3, RowsSay DEF Over
  <2>4. LockOK(d)' /\ NewsOK(d)'
    BY <2>1, <1>1 DEF DispatcherOK, LockOK, NewsOK, InTxn
  <2> HIDE DEF ex, seen
  <2>5. AloneOK(d)'
    <3>1. SUFFICES ASSUME NEW i \in DOMAIN news, news[i].status = "DISPATCHED", news[i].policy # "ALLOW",
                          NEW j \in InScope(seen, i[1], news[i]) \ {i}
                   PROVE  seen[j].run # "open"
      BY <2>2, <1>1 DEF AloneOK
    <3>2. j \in InScope(ex, i[1], news[i]) \ {i}
      BY <3>1, <2>3 DEF InScope
    <3>3. ex[j].run # "open"
      BY <3>1, <3>2, <2>1 DEF DispatcherOK, AloneOK, ex
    <3> QED BY <3>2, <3>3, <2>3 DEF InScope
  <2>6. SightOK(d)'
    <3> DEFINE s == proc[d].id
               every == sched[s].every
               next == Cursor(d)
    <3>1. SUFFICES ASSUME InTxn(d) PROVE Kept(seen, s, since[s], every, next)
      BY <2>2, <1>1 DEF SightOK, InTxn, Cursor
    <3>2. Kept(ex, s, since[s], every, next)
      BY <3>1, <2>1 DEF DispatcherOK, SightOK, ex
    <3>3. DOMAIN ex \subseteq Keys /\ DOMAIN seen \subseteq Keys
      BY <2>3
    <3> HIDE DEF s, every, next
    <3> QED BY <3>2, <3>3, <2>3, KeptSame
  <2> QED BY <2>4, <2>5, <2>6 DEF DispatcherOK
<1>8. \A c, d \in Dispatchers : c # d => Apart(c, d)'
  BY <1>1 DEF IInv, Apart, InTxn
<1> QED BY <1>5, <1>6, <1>7, <1>8 DEF IInv

(* An edit waits for the transactions of its schedule. A new cron starts the   *)
(* record anew, from now on.                                                *)
LEMMA EditKeeps ==
  ASSUME IInv, NEW s \in Ids, Edit(s)
  PROVE  IInv'
<1>1. PICK paused \in BOOLEAN, every \in Crons, policy \in Policies :
        /\ sched' = [sched EXCEPT ![s] =
             [sched[s] EXCEPT !.paused = paused, !.every = every, !.policy = policy,
                              !.next = IF every # sched[s].every THEN NextOccurrence(every, now) ELSE @]]
        /\ since' = [since EXCEPT ![s] = IF every # sched[s].every THEN now ELSE @]
  BY DEF Edit
<1>2. UNCHANGED <<now, execs, proc, faults>> /\ edits' \in 0 .. MaxEdits
  BY Bounds DEF IInv, TypeOK, Edit
<1>3. /\ sched \in [Ids -> Schedule] /\ sched[s] \in Schedule /\ since \in [Ids -> 0 .. MaxTime]
      /\ now \in 0 .. MaxTime /\ now \in Nat
  BY Bounds DEF IInv, TypeOK
<1>4. /\ NextOccurrence(every, now) \in Nat /\ NextOccurrence(every, now) > now
      /\ NextOccurrence(every, now) % every = 0
      /\ \A u \in now + 1 .. NextOccurrence(every, now) - 1 : u % every # 0
  <2>1. every \in Nat \ {0}
    BY Bounds
  <2> QED BY <2>1, <1>3, NextSays
<1>5. /\ sched'[s] \in Schedule /\ sched'[s].every = every
      /\ sched'[s].next = IF every # sched[s].every THEN NextOccurrence(every, now) ELSE sched[s].next
  <2> DEFINE sch == [sched[s] EXCEPT !.paused = paused, !.every = every, !.policy = policy,
                       !.next = IF every # sched[s].every THEN NextOccurrence(every, now) ELSE @]
  <2>1. /\ sch \in Schedule /\ sch.every = every
        /\ sch.next = IF every # sched[s].every THEN NextOccurrence(every, now) ELSE sched[s].next
    BY <1>3, <1>4 DEF Schedule
  <2>2. sched' = [sched EXCEPT ![s] = sch]
    BY <1>1
  <2> HIDE DEF sch
  <2> QED BY <2>1, <2>2, <1>3
<1>6. /\ \A r \in Ids \ {s} : sched'[r] = sched[r] /\ since'[r] = since[r]
      /\ since'[s] = IF every # sched[s].every THEN now ELSE since[s]
  BY <1>1, <1>3
<1>7. sched' \in [Ids -> Schedule] /\ since' \in [Ids -> 0 .. MaxTime]
  <2>1. sched' = [r \in Ids |-> sched'[r]] /\ \A r \in Ids : sched'[r] \in Schedule
    BY <1>1, <1>3, <1>5, <1>6
  <2>2. since' = [r \in Ids |-> since'[r]] /\ \A r \in Ids : since'[r] \in 0 .. MaxTime
    BY <1>1, <1>3, <1>6
  <2> QED BY <2>1, <2>2
<1>8. TypeOK'
  <2>1. \A d \in Dispatchers : (proc[d] \in Visits(DOMAIN proc[d].news))'
    BY <1>2, RowsSay DEF Visits
  <2> QED BY <2>1, <1>2, <1>7 DEF IInv, TypeOK
<1>9. RecordOK'
  <2>1. ASSUME NEW r \in Ids PROVE Kept(execs, r, since[r], sched[r].every, sched[r].next)'
    <3>1. Kept(execs, r, since[r], sched[r].every, sched[r].next)
      BY DEF IInv, RecordOK
    <3>2. CASE r # s \/ every = sched[s].every
      <4>1. since'[r] = since[r] /\ sched'[r].every = sched[r].every /\ sched'[r].next = sched[r].next
        BY <3>2, <1>5, <1>6
      <4> QED BY <3>1, <4>1, <1>2
    <3>3. CASE r = s /\ every # sched[s].every
      <4> DEFINE next == NextOccurrence(every, now)
      <4>1. since'[s] = now /\ sched'[s].every = every /\ sched'[s].next = next
        BY <3>3, <1>5, <1>6
      <4>2. \A k \in DOMAIN execs : k[2] <= now /\ k[2] \in Nat
        BY RowsSay, KeysSay, Bounds
      <4>3. Complete(execs, s, now, every, next)
        <5>1. \A k \in DOMAIN execs : k[1] = s => k[2] < next
          BY <4>2, <1>3, <1>4
        <5>2. ASSUME NEW t \in now + 1 .. next - 1 PROVE <<s, t>> \in DOMAIN execs <=> t % every = 0
          <6>1. t % every # 0
            BY <1>4
          <6>2. <<s, t>> \notin DOMAIN execs
            <7>1. <<s, t>>[2] = t
              OBVIOUS
            <7> QED BY <7>1, <4>2, <1>3, <1>4
          <6> QED BY <6>1, <6>2
        <5> QED BY <5>1, <5>2, <1>4 DEF Complete
      <4>4. Kept(execs, s, now, every, next)
        BY <3>1, <3>3, <4>3 DEF Kept
      <4> HIDE DEF next
      <4> QED BY <3>3, <4>1, <4>4, <1>2
    <3> QED BY <3>2, <3>3
  <2> QED BY <2>1, <1>2, RowsSay DEF RecordOK
<1>10. ASSUME NEW d \in Dispatchers PROVE DispatcherOK(d)'
  <2>1. DispatcherOK(d) /\ Visible(d)' = Visible(d) /\ proc'[d] = proc[d]
    BY <1>2 DEF IInv, Visible
  <2>2. InTxn(d) => proc[d].id \in Ids \ {s}
    <3>1. ~ RowLocked(s)
      BY DEF Edit
    <3> QED BY <3>1, <2>1, FreeSays DEF DispatcherOK, LockOK
  <2>3. InTxn(d) => sched'[proc[d].id] = sched[proc[d].id] /\ since'[proc[d].id] = since[proc[d].id]
    BY <2>2, <1>6
  <2>4. LockOK(d)'
    BY <2>1, <2>3 DEF DispatcherOK, LockOK, InTxn
  <2>5. NewsOK(d)'
    BY <2>1, <2>3, <1>2 DEF DispatcherOK, NewsOK, InTxn
  <2>6. AloneOK(d)'
    BY <2>1, <1>2 DEF DispatcherOK, AloneOK
  <2>7. SightOK(d)'
    BY <2>1, <2>3 DEF DispatcherOK, SightOK, InTxn, Cursor
  <2> QED BY <2>4, <2>5, <2>6, <2>7 DEF DispatcherOK
<1>11. \A c, d \in Dispatchers : c # d => Apart(c, d)'
  BY <1>2 DEF IInv, Apart, InTxn
<1> QED BY <1>8, <1>9, <1>10, <1>11 DEF IInv

LEMMA TickKeeps ==
  ASSUME IInv, Tick
  PROVE  IInv'
<1>1. UNCHANGED <<sched, execs, proc, edits, faults, since>> /\ now' = now + 1 /\ now' \in 0 .. MaxTime
      /\ now \in Nat /\ 0 .. now \subseteq 0 .. now'
  BY Bounds DEF IInv, TypeOK, Tick
<1>2. \A t : t \in 0 .. MaxTime /\ t <= now => t <= now'
  BY <1>1, Bounds
<1>3. TypeOK'
  <2>1. ASSUME NEW d \in Dispatchers PROVE (proc[d] \in Visits(DOMAIN proc[d].news))'
    <3>1. proc[d] \in Visits(DOMAIN proc[d].news)
      BY RowsSay
    <3> QED BY <3>1, <1>1 DEF Visits
  <2> QED BY <2>1, <1>1 DEF IInv, TypeOK
<1>4. RecordOK'
  <2>1. \A k \in DOMAIN execs : k[2] <= now'
    BY <1>2, RowsSay, KeysSay
  <2> QED BY <2>1, <1>1 DEF IInv, RecordOK
<1>5. ASSUME NEW d \in Dispatchers PROVE DispatcherOK(d)'
  <2>1. DispatcherOK(d) /\ Visible(d)' = Visible(d)
    BY <1>1 DEF IInv, Visible
  <2>2. LockOK(d)' /\ SightOK(d)' /\ AloneOK(d)'
    BY <2>1, <1>1 DEF DispatcherOK, LockOK, SightOK, AloneOK, InTxn, Cursor
  <2>3. \A k \in DOMAIN proc[d].news : k[2] <= now'
    BY <2>1, <1>2, RowsSay, KeysSay DEF DispatcherOK, NewsOK
  <2>4. NewsOK(d)'
    BY <2>1, <2>3, <1>1 DEF DispatcherOK, NewsOK
  <2> QED BY <2>2, <2>4 DEF DispatcherOK
<1>6. \A c, d \in Dispatchers : c # d => Apart(c, d)'
  BY <1>1 DEF IInv, Apart, InTxn
<1> QED BY <1>3, <1>4, <1>5, <1>6 DEF IInv

LEMMA StutterKeeps ==
  ASSUME IInv, UNCHANGED vars
  PROVE  IInv'
<1>1. UNCHANGED <<now, sched, execs, proc, edits, faults, since>>
  BY DEF vars
<1>2. TypeOK' /\ RecordOK'
  BY <1>1 DEF IInv, TypeOK, RecordOK, Visits
<1>3. ASSUME NEW d \in Dispatchers PROVE DispatcherOK(d)'
  <2>1. DispatcherOK(d) /\ Visible(d)' = Visible(d)
    BY <1>1 DEF IInv, Visible
  <2> QED BY <2>1, <1>1 DEF DispatcherOK, LockOK, NewsOK, SightOK, AloneOK, InTxn, Cursor
<1>4. \A c, d \in Dispatchers : c # d => Apart(c, d)'
  BY <1>1 DEF IInv, Apart, InTxn
<1> QED BY <1>2, <1>3, <1>4 DEF IInv

-----------------------------------------------------------------------------
(* The invariant. *)

LEMMA Initially == Init => IInv
<1> SUFFICES ASSUME Init PROVE IInv
  OBVIOUS
<1>1. PICK every \in [Ids -> Crons], policy \in [Ids -> Policies],
           scope \in [Ids -> Scopes], missed \in [Ids -> MissedPolicies] :
        sched = [s \in Ids |-> [paused |-> FALSE, every |-> every[s], policy |-> policy[s],
                                scope |-> scope[s], missed |-> missed[s],
                                next |-> NextOccurrence(every[s], 0)]]
  BY DEF Init
<1>2. now = 0 /\ execs = << >> /\ proc = [d \in Dispatchers |-> Visit(0, << >>, << >>)]
      /\ edits = 0 /\ faults = 0 /\ since = [s \in Ids |-> 0]
  BY DEF Init, Idle
<1>3. 0 \in 0 .. MaxTime /\ 0 \in 0 .. MaxEdits /\ 0 \in 0 .. MaxFaults /\ 0 \in 0 .. now /\ 0 \in Nat
  BY <1>2, Bounds
<1>4. ASSUME NEW s \in Ids
      PROVE  /\ sched[s] \in Schedule /\ sched[s].next \in Nat /\ sched[s].next > 0
             /\ sched[s].next % sched[s].every = 0
             /\ \A u \in 1 .. sched[s].next - 1 : u % sched[s].every # 0
  <2> DEFINE n == NextOccurrence(every[s], 0)
  <2>1. every[s] \in Crons /\ every[s] \in Nat \ {0}
    BY Bounds
  <2>2. n \in Nat /\ n > 0 /\ n % every[s] = 0 /\ \A u \in 0 + 1 .. n - 1 : u % every[s] # 0
    BY <2>1, <1>3, NextSays
  <2>3. 0 + 1 = 1
    OBVIOUS
  <2> HIDE DEF n
  <2>4. sched[s] = [paused |-> FALSE, every |-> every[s], policy |-> policy[s],
                    scope |-> scope[s], missed |-> missed[s], next |-> n]
    BY <1>1 DEF n
  <2>5. sched[s] \in Schedule
    BY <2>1, <2>2, <2>4 DEF Schedule
  <2>6. sched[s].next = n /\ sched[s].every = every[s]
    BY <2>4
  <2> QED BY <2>2, <2>3, <2>5, <2>6
<1>5. sched \in [Ids -> Schedule]
  BY <1>1, <1>4
<1>6. << >> \in Seq(Keys) /\ << >> \in Seq(Ids) /\ DOMAIN << >> = {} /\ << >> \in [{} -> Execution]
  OBVIOUS
<1>7. ASSUME NEW d \in Dispatchers
      PROVE  /\ proc[d] \in Visits({}) /\ proc[d].txn = "none" /\ ~ proc[d].coordinated
             /\ DOMAIN proc[d].news = {} /\ proc[d].heads = << >>
  <2> DEFINE v == Visit(0, << >>, << >>)
  <2>1. proc[d] = v
    BY <1>2
  <2>2. /\ v \in Visits({}) /\ v.txn = "none" /\ v.heads = << >>
        /\ ~ v.coordinated /\ DOMAIN v.news = {}
    BY <1>3, <1>6, Bounds DEF Visit, Visits
  <2> HIDE DEF v
  <2> QED BY <2>1, <2>2
<1>8. TypeOK
  <2>1. DOMAIN execs = {} /\ execs \in [{} -> Execution]
    BY <1>2, <1>6
  <2>2. DOMAIN proc = Dispatchers /\ since \in [Ids -> 0 .. MaxTime]
    BY <1>2, <1>3
  <2>3. ASSUME NEW d \in Dispatchers
        PROVE  /\ proc[d] \in Visits(DOMAIN proc[d].news) /\ DOMAIN proc[d].news \subseteq Keys
               /\ \A i \in DOMAIN proc[d].heads : proc[d].heads[i] \in DOMAIN execs
    <3>1. DOMAIN proc[d].heads = {}
      BY <1>6, <1>7
    <3> QED BY <3>1, <1>7
  <2> QED BY <2>1, <2>2, <2>3, <1>2, <1>3, <1>5 DEF TypeOK
<1>9. RecordOK
  <2>1. DOMAIN execs = {}
    BY <1>2, <1>6
  <2>2. ASSUME NEW s \in Ids PROVE Kept(execs, s, since[s], sched[s].every, sched[s].next)
    <3>1. since[s] = 0 /\ 0 + 1 = 1
      BY <1>2
    <3>2. Complete(execs, s, since[s], sched[s].every, sched[s].next)
      BY <2>1, <3>1, <1>4 DEF Complete
    <3>3. Ordered(execs, s)
      BY <2>1 DEF Ordered
    <3>4. Waiting(execs, s) = {}
      BY <2>1 DEF Waiting, Queued
    <3>5. Cardinality(Waiting(execs, s)) <= MaxQueue
      BY <3>4, FS_EmptySet, Bounds
    <3> QED BY <3>2, <3>3, <3>5 DEF Kept
  <2> QED BY <2>1, <2>2 DEF RecordOK
<1>10. \A d \in Dispatchers : DispatcherOK(d)
  BY <1>7 DEF DispatcherOK, LockOK, NewsOK, AloneOK, SightOK, InTxn
<1>11. \A c, d \in Dispatchers : c # d => Apart(c, d)
  BY <1>7 DEF Apart, InTxn
<1> QED BY <1>8, <1>9, <1>10, <1>11 DEF IInv

LEMMA EveryStepKeeps == IInv /\ [Next]_vars => IInv'
<1> SUFFICES ASSUME IInv, [Next]_vars PROVE IInv'
  OBVIOUS
<1>1. ASSUME NEW d \in Dispatchers, DispatcherStep(d) PROVE IInv'
  BY <1>1, BeginKeeps, OpenHeadKeeps, CommitHeadKeeps, OpenDueKeeps, OccurKeeps, CommitDueKeeps
  DEF DispatcherStep
<1>2. ASSUME NEW d \in Dispatchers, Fail(d) PROVE IInv'
  BY <1>2, FailKeeps
<1>3. ASSUME NEW s \in Ids, Edit(s) PROVE IInv'
  BY <1>3, EditKeeps
<1>4. ASSUME NEW k \in DOMAIN execs, RunEnds(k) PROVE IInv'
  BY <1>4, RunEndsKeeps
<1>5. CASE Tick
  BY <1>5, TickKeeps
<1>6. CASE UNCHANGED vars
  BY <1>6, StutterKeeps
<1> QED BY <1>1, <1>2, <1>3, <1>4, <1>5, <1>6 DEF Next

(* The invariant that makes overlapping transactions safe: they are of        *)
(* different schedules and, once they decide, of different targets; each sees  *)
(* a complete and ordered record of its schedule, and will commit runs that    *)
(* are alone in their scope.                                                *)
THEOREM Inductive == Spec => []IInv
<1>1. Init => IInv
  BY Initially
<1>2. IInv /\ [Next]_vars => IInv'
  BY EveryStepKeeps
<1> QED BY <1>1, <1>2, PTL DEF Spec

(* The cursor of a schedule loses no occurrence and invents none, through      *)
(* failed passes, pauses, new crons and dispatchers that overlap.             *)
THEOREM RecordHolds == Spec => []ScheduleIsKept
<1>1. IInv => ScheduleIsKept
  <2> SUFFICES ASSUME IInv PROVE ScheduleIsKept
    OBVIOUS
  <2>1. ASSUME NEW s \in Ids
        PROVE  {k[2] : k \in {k \in DOMAIN execs : k[1] = s /\ k[2] > since[s]}}
                 = {t \in since[s] + 1 .. sched[s].next - 1 : t % sched[s].every = 0}
    <3>1. since[s] \in Nat /\ sched[s].next \in Nat
      <4>1. since[s] \in 0 .. MaxTime /\ sched[s] \in Schedule
        BY DEF IInv, TypeOK
      <4> QED BY <4>1, Bounds DEF Schedule
    <3>2. Complete(execs, s, since[s], sched[s].every, sched[s].next)
      BY DEF IInv, RecordOK, Kept
    <3>3. \A k \in DOMAIN execs : k[2] \in Nat /\ k = <<k[1], k[2]>>
      BY RowsSay, KeysSay, Bounds
    <3>4. ASSUME NEW k \in DOMAIN execs, k[1] = s, k[2] > since[s]
          PROVE  k[2] \in since[s] + 1 .. sched[s].next - 1 /\ k[2] % sched[s].every = 0
      <4>1. k[2] \in since[s] + 1 .. sched[s].next - 1
        BY <3>1, <3>2, <3>3, <3>4 DEF Complete
      <4> QED BY <4>1, <3>2, <3>3, <3>4 DEF Complete
    <3>5. ASSUME NEW t \in since[s] + 1 .. sched[s].next - 1, t % sched[s].every = 0
          PROVE  \E k \in DOMAIN execs : k[1] = s /\ k[2] > since[s] /\ k[2] = t
      <4>1. <<s, t>> \in DOMAIN execs
        BY <3>2, <3>5 DEF Complete
      <4>2. <<s, t>>[1] = s /\ <<s, t>>[2] = t /\ t > since[s]
        BY <3>1
      <4> QED BY <4>1, <4>2
    <3> QED BY <3>4, <3>5
  <2> QED BY <2>1 DEF IInv, ScheduleIsKept, EveryOccurrenceRecorded
<1> QED BY <1>1, Inductive, PTL

(* Of one schedule, nothing that queues starts before what has waited longer,  *)
(* and no more wait than its queue may hold.                                *)
THEOREM QueueHolds == Spec => []QueueInOrder
<1>1. IInv => QueueInOrder
  <2> SUFFICES ASSUME IInv PROVE QueueInOrder
    OBVIOUS
  <2>1. ASSUME NEW s \in Ids
        PROVE  /\ \A k, j \in DOMAIN execs :
                    /\ k[1] = s /\ j[1] = s /\ Earlier(j, k)
                    /\ execs[k].policy = "QUEUE" /\ execs[k].status = "DISPATCHED"
                    => execs[j].status # "QUEUED"
               /\ Cardinality({k \in Queued(execs, DOMAIN execs) : k[1] = s}) <= MaxQueue
    <3>1. Ordered(execs, s) /\ Cardinality(Waiting(execs, s)) <= MaxQueue
      BY DEF IInv, RecordOK, Kept
    <3>2. s \in Nat
      BY Bounds
    <3> QED BY <3>1, <3>2 DEF Ordered, Waiting, Earlier
  <2> QED BY <2>1 DEF QueueInOrder
<1> QED BY <1>1, Inductive, PTL

(* What a transaction commits: runs alone in their scope, of a schedule that   *)
(* is not paused.                                                           *)
LEMMA CommitDecides ==
  ASSUME IInv, NEW d \in Dispatchers, InTxn(d), execs' = Visible(d)
  PROVE  AloneInScope /\ QuietWhilePaused
<1> DEFINE ex == Visible(d)
           news == proc[d].news
<1>1. /\ DOMAIN ex = DOMAIN execs \cup DOMAIN news
      /\ \A k \in DOMAIN news : ex[k] = news[k]
      /\ \A k \in DOMAIN execs \ DOMAIN news : ex[k] = execs[k]
  BY VisibleSays
<1>2. DispatcherOK(d) /\ proc[d].id \in Ids /\ ~ sched[proc[d].id].paused
  BY DEF IInv, DispatcherOK, LockOK
<1>3. AloneInScope
  <2>1. SUFFICES ASSUME NEW k \in DOMAIN ex, ex[k].status = "DISPATCHED", ex[k].policy # "ALLOW",
                        k \in DOMAIN execs => execs[k].status # "DISPATCHED",
                        NEW j \in InScope(ex, k[1], ex[k]) \ {k}
                 PROVE  ex[j].run # "open"
    BY DEF AloneInScope
  <2>2. k \in DOMAIN news
    BY <2>1, <1>1
  <2> QED BY <2>1, <2>2, <1>1, <1>2 DEF DispatcherOK, AloneOK
<1>4. QuietWhilePaused
  <2>1. SUFFICES ASSUME NEW k \in DOMAIN ex, sched[k[1]].paused
                 PROVE  k \in DOMAIN execs /\ ex[k].status = execs[k].status
    BY DEF QuietWhilePaused
  <2>2. k \notin DOMAIN news
    BY <2>1, <1>2 DEF DispatcherOK, NewsOK
  <2> QED BY <2>1, <2>2, <1>1
<1> QED BY <1>3, <1>4

LEMMA OthersDecideNothing ==
  ASSUME DOMAIN execs' = DOMAIN execs, \A k \in DOMAIN execs : execs'[k].status = execs[k].status
  PROVE  AloneInScope /\ QuietWhilePaused
BY DEF AloneInScope, QuietWhilePaused

(* What one dispatcher decides stays true when it commits, whatever passes and *)
(* edits overlap: a run under FORBID or QUEUE starts alone in its scope, and a *)
(* paused schedule stays as it is.                                          *)
THEOREM DecisionsHoldTrue == Spec => DecisionsHold
<1>1. IInv /\ [Next]_vars => [AloneInScope /\ QuietWhilePaused]_vars
  <2> SUFFICES ASSUME IInv, Next PROVE AloneInScope /\ QuietWhilePaused
    OBVIOUS
  <2>1. ASSUME NEW d \in Dispatchers, CommitHead(d) \/ CommitDue(d) PROVE AloneInScope /\ QuietWhilePaused
    BY <2>1, CommitDecides DEF CommitHead, CommitDue, InTxn
  <2>2. ASSUME NEW k \in DOMAIN execs, RunEnds(k) PROVE AloneInScope /\ QuietWhilePaused
    <3>1. execs \in [DOMAIN execs -> Execution]
      BY RowsSay
    <3>2. ASSUME NEW j \in DOMAIN execs PROVE execs'[j].status = execs[j].status
      <4>1. execs'[j] = IF j = k THEN [execs[j] EXCEPT !.run = "ended"] ELSE execs[j]
        BY <2>2 DEF RunEnds
      <4>2. execs[j] \in Execution
        BY <3>1
      <4> QED BY <4>1, <4>2 DEF Execution
    <3>3. DOMAIN execs' = DOMAIN execs
      BY <2>2 DEF RunEnds
    <3> QED BY <3>2, <3>3, OthersDecideNothing
  <2>3. ASSUME UNCHANGED execs PROVE AloneInScope /\ QuietWhilePaused
    BY <2>3, OthersDecideNothing
  <2>4. ASSUME NEW d \in Dispatchers, DispatcherStep(d) \/ Fail(d) PROVE AloneInScope /\ QuietWhilePaused
    BY <2>4, <2>1, <2>3 DEF DispatcherStep, Begin, OpenHead, OpenDue, Occur, Fail
  <2> QED BY <2>2, <2>3, <2>4 DEF Next, Edit, Tick
<1>2. Spec => [][AloneInScope /\ QuietWhilePaused]_vars
  BY <1>1, Inductive, PTL DEF Spec
<1> QED BY <1>2 DEF DecisionsHold

-----------------------------------------------------------------------------
(* The serving adapter, for any reconcilers, of which any look at the status, and any *)
(* revisions.  Times and shares are not compared, and revision 0 is none.             *)

Named(asked) == \A a \in asked : a[1] # 0
Revisions(asked) == {0} \cup {a[1] : a \in asked}
Shares(asked)    == {100} \cup {a[2] : a \in asked}

(* What Report may name as ready: the greatest of some backends.                      *)
Greatest == {0} \cup {CHOOSE b \in some : \A d \in some : d <= b : some \in SUBSET Nat}

ServiceRow(asked) ==
  [revision : Revisions(asked), previous : Revisions(asked), apply : Nat, content : Revisions(asked),
   share : Shares(asked), leaving : BOOLEAN]
BackendRow(asked) ==
  [revision : Revisions(asked), apply : Nat, content : Revisions(asked),
   state : {"none", "loading", "failed", "ready"}, fell : BOOLEAN]
StatusRow == [latest : Nat, ready : Greatest, rolled : Nat, isReady : BOOLEAN, failed : Nat, blocked : BOOLEAN]
ToDeploy == {"account", "write", "read", "create", "reread", "patch"}
ToLook   == {"look", "backend", "former"}
ToRemove == {"delete", "gone", "list", "remove"}
CallRow(asked, stored) ==
  [pc : {"idle"} \cup ToDeploy \cup ToLook \cup ToRemove, revision : Revisions(asked), share : Shares(asked),
   changed : BOOLEAN, fresh : BOOLEAN, raced : BOOLEAN, previous : Revisions(asked),
   seen : ServiceRow(asked), report : StatusRow, found : BackendRow(asked),
   removes : BOOLEAN, list : SUBSET stored, stale : SUBSET stored, swept : BOOLEAN]

AdapterTypeOK(who, asked, stored) ==
  /\ service \in ServiceRow(asked) /\ backends \in Seq(BackendRow(asked)) /\ status \in StatusRow
  /\ account \in [stored -> {"absent", "ours", "wrong", "foreign"}]
  /\ call \in [who -> CallRow(asked, stored)]
  /\ applies \in Nat /\ moves \in Nat /\ strangers \in Nat /\ overlap \in BOOLEAN
  /\ deployment \in {"live", "DELETING", "DELETED"}

(* A backend holds what was applied, and the status names backends there are; one it  *)
(* calls failed has failed.                                                           *)
ServiceOK ==
  /\ service.apply <= applies
  /\ service.revision # 0 => service.apply > 0 /\ (service.content = service.revision \/ service.apply \in edited)
  /\ service.revision = 0 => service.apply = 0 /\ backends = <<>> /\ status.latest = 0 /\ status.failed = 0
BackendOK(b) ==
  /\ b.content = b.revision \/ b.apply \in edited
  /\ b.state = "failed" => b.fell
BackendsOK == \A b \in 1 .. Len(backends) : BackendOK(backends[b])
StatusOK ==
  /\ status.latest <= Len(backends)
  /\ status.failed # 0 => status.failed \in 1 .. Len(backends) /\ backends[status.failed].fell

(* What has become of the service since it was looked at: the backend that the status  *)
(* named is there, or the service is another one, and so will its backends be.        *)
LookOK(c) ==
  c.pc \in {"backend", "former"} =>
    LET n == c.report.latest IN
    /\ c.seen.apply \in 1 .. applies /\ n > 0
    /\ n > Len(backends) => service.apply # c.seen.apply
    /\ n <= Len(backends) /\ backends[n].apply = c.seen.apply /\ c.report.failed = n => backends[n].fell
FoundOK(c) ==
  c.pc = "former" =>
    /\ c.found.revision = c.seen.revision /\ c.found.state = "ready"
    /\ c.found.content = c.found.revision \/ c.seen.apply \in edited

(* As long as nobody deletes while it is deployed, and nobody else edits: whoever     *)
(* deploys a stored revision has its account from then on, and whoever deletes is     *)
(* alone and has all accounts on its list.                                            *)
Peace == ~overlap /\ strangers = 0
AccountOK(c, stored) ==
  /\ c.pc \in {"account", "write"} => c.revision \in stored
  /\ c.pc \in ToRemove \/ c.swept => c.removes
  /\ c.pc \in ToDeploy => c.revision # 0 /\ ~c.removes
  /\ Peace =>
       /\ c.pc \in ToDeploy => deployment = "live"
       /\ c.removes => deployment # "live"
       /\ c.pc \in ToDeploy \ {"account", "write"} /\ c.revision \in stored => account[c.revision] = "ours"
       /\ c.pc \in {"list", "remove"} \/ c.swept => service.revision = 0
       /\ c.pc = "remove" => \A r \in stored : account[r] \in {"ours", "wrong"} => r \in c.list
       /\ c.swept => \A r \in stored : account[r] \notin {"ours", "wrong"}
Served(stored) == Peace /\ service.revision \in stored /\ service.revision # 0 => account[service.revision] = "ours"

(* What is written, or removed, at the version read is still what was read.           *)
FreshOK(c) ==
  /\ c.pc = "reread" => c.raced
  /\ c.pc = "patch" /\ c.fresh => service.revision # 0
  /\ c.pc = "patch" /\ c.fresh /\ ~c.raced =>
       c.previous = IF service.revision # c.revision THEN service.revision ELSE service.previous
  /\ c.pc = "write" /\ c.fresh => account[c.revision] # "foreign"
  /\ \A r \in c.list \ c.stale : account[r] # "foreign"
  /\ c.list # {} => c.pc = "remove"

AdapterInv(who, watching, asked, stored) ==
  /\ AdapterTypeOK(who, asked, stored)
  /\ ServiceOK /\ BackendsOK /\ StatusOK
  /\ Served(stored)
  /\ \A p \in who : LookOK(call[p]) /\ FoundOK(call[p]) /\ AccountOK(call[p], stored) /\ FreshOK(call[p])
  /\ Adapter(who, watching, asked, stored)!StatusIsTrue

(* A caller as it was, but for what it had read and others have changed since.        *)
Alike(x, y) ==
  /\ \A f \in {"pc", "revision", "share", "changed", "raced", "previous", "seen", "report", "found", "removes",
               "list", "swept"} : y[f] = x[f]
  /\ y.fresh => x.fresh
  /\ x.stale \subseteq y.stale

LEMMA AlikeIs ==
  ASSUME NEW asked, NEW stored, NEW x \in CallRow(asked, stored), NEW y \in CallRow(asked, stored)
  PROVE  Alike(x, y) <=>
           /\ y.pc = x.pc /\ y.revision = x.revision /\ y.share = x.share /\ y.changed = x.changed
           /\ y.raced = x.raced /\ y.previous = x.previous /\ y.seen = x.seen /\ y.report = x.report
           /\ y.found = x.found /\ y.removes = x.removes /\ y.list = x.list /\ y.swept = x.swept
           /\ y.fresh => x.fresh
           /\ x.stale \subseteq y.stale
  BY DEF Alike

LEMMA ServiceMovesSay ==
  ASSUME NEW who, NEW watching, NEW asked, NEW stored, NEW cs \in [who -> CallRow(asked, stored)]
  PROVE  LET moved == Adapter(who, watching, asked, stored)!ServiceMoves(cs) IN
         /\ moved \in [who -> CallRow(asked, stored)]
         /\ \A q \in who : Alike(cs[q], moved[q]) /\ (moved[q].pc = "patch" => ~moved[q].fresh)
<1> DEFINE moved == Adapter(who, watching, asked, stored)!ServiceMoves(cs)
<1>1. ASSUME NEW q \in who
      PROVE  /\ moved[q] \in CallRow(asked, stored) /\ Alike(cs[q], moved[q])
             /\ moved[q].pc = "patch" => ~moved[q].fresh
  <2>1. cs[q] \in CallRow(asked, stored)
    OBVIOUS
  <2>2. moved[q] = IF cs[q].pc = "patch" THEN [cs[q] EXCEPT !.fresh = FALSE] ELSE cs[q]
    BY DEF Adapter!ServiceMoves
  <2> HIDE DEF moved
  <2>3. moved[q] \in CallRow(asked, stored)
    BY <2>1, <2>2 DEF CallRow
  <2> QED
    BY <2>1, <2>2, <2>3 DEF CallRow, Alike
<1>2. moved = [q \in who |-> moved[q]]
  BY DEF Adapter!ServiceMoves
<1> QED
  BY <1>1, <1>2

LEMMA AccountMovesSay ==
  ASSUME NEW who, NEW watching, NEW asked, NEW stored, NEW cs \in [who -> CallRow(asked, stored)], NEW r \in stored
  PROVE  LET moved == Adapter(who, watching, asked, stored)!AccountMoves(cs, r) IN
         /\ moved \in [who -> CallRow(asked, stored)]
         /\ \A q \in who :
              /\ Alike(cs[q], moved[q])
              /\ moved[q].pc = "write" /\ moved[q].revision = r => ~moved[q].fresh
              /\ r \in moved[q].list => r \in moved[q].stale \/ moved[q].pc = "write"
<1> DEFINE moved == Adapter(who, watching, asked, stored)!AccountMoves(cs, r)
<1>1. ASSUME NEW q \in who
      PROVE  /\ moved[q] \in CallRow(asked, stored) /\ Alike(cs[q], moved[q])
             /\ moved[q].pc = "write" /\ moved[q].revision = r => ~moved[q].fresh
             /\ r \in moved[q].list => r \in moved[q].stale \/ moved[q].pc = "write"
  <2>1. cs[q] \in CallRow(asked, stored)
    OBVIOUS
  <2>2. moved[q] = IF cs[q].pc = "write" /\ cs[q].revision = r THEN [cs[q] EXCEPT !.fresh = FALSE]
                   ELSE [cs[q] EXCEPT !.stale = @ \cup (cs[q].list \cap {r})]
    BY DEF Adapter!AccountMoves
  <2> HIDE DEF moved
  <2>3. CASE cs[q].pc = "write" /\ cs[q].revision = r
    <3>1. moved[q] \in CallRow(asked, stored)
      BY <2>1, <2>2, <2>3 DEF CallRow
    <3> QED
      BY <2>1, <2>2, <2>3, <3>1 DEF CallRow, Alike
  <2>4. CASE ~(cs[q].pc = "write" /\ cs[q].revision = r)
    <3>1. cs[q].list \in SUBSET stored /\ cs[q].stale \in SUBSET stored
      BY <2>1 DEF CallRow
    <3>2. moved[q] = [cs[q] EXCEPT !.stale = cs[q].stale \cup (cs[q].list \cap {r})]
      BY <2>1, <2>2, <2>4 DEF CallRow
    <3>3. moved[q] \in CallRow(asked, stored)
      BY <2>1, <3>1, <3>2 DEF CallRow
    <3> QED
      BY <2>1, <2>4, <3>2, <3>3 DEF CallRow, Alike
  <2> QED
    BY <2>3, <2>4
<1>2. moved = [q \in who |-> moved[q]]
  BY DEF Adapter!AccountMoves
<1> QED
  BY <1>1, <1>2

LEMMA RowsOf ==
  ASSUME NEW who, NEW watching, NEW asked, NEW stored
  PROVE  /\ Adapter(who, watching, asked, stored)!Idle \in CallRow(asked, stored)
         /\ Adapter(who, watching, asked, stored)!NoService \in ServiceRow(asked)
         /\ Adapter(who, watching, asked, stored)!NoStatus \in StatusRow
         /\ Adapter(who, watching, asked, stored)!NoBackend \in BackendRow(asked)
<1>1. 0 \in Revisions(asked) /\ 100 \in Shares(asked) /\ 0 \in Greatest
  BY DEF Revisions, Shares, Greatest
<1>2. Adapter(who, watching, asked, stored)!NoService \in ServiceRow(asked)
  BY <1>1 DEF Adapter!NoService, ServiceRow
<1>3. Adapter(who, watching, asked, stored)!NoStatus \in StatusRow
  BY <1>1 DEF Adapter!NoStatus, StatusRow
<1>4. Adapter(who, watching, asked, stored)!NoBackend \in BackendRow(asked)
  BY <1>1 DEF Adapter!NoBackend, BackendRow
<1> QED
  BY <1>1, <1>2, <1>3, <1>4 DEF Adapter!Idle, CallRow, ToDeploy, ToLook, ToRemove

LEMMA AdapterTypes ==
  ASSUME NEW who, NEW watching, NEW asked, NEW stored, AdapterTypeOK(who, asked, stored),
         \A p \in who : AccountOK(call[p], stored),
         Adapter(who, watching, asked, stored)!Next
  PROVE  AdapterTypeOK(who, asked, stored)'
<1> DEFINE Rows == [who -> CallRow(asked, stored)]
<1>t. /\ service \in ServiceRow(asked) /\ backends \in Seq(BackendRow(asked)) /\ status \in StatusRow
      /\ account \in [stored -> {"absent", "ours", "wrong", "foreign"}] /\ call \in Rows
      /\ applies \in Nat /\ moves \in Nat /\ strangers \in Nat /\ overlap \in BOOLEAN
      /\ deployment \in {"live", "DELETING", "DELETED"}
  BY DEF AdapterTypeOK
<1>i. /\ Adapter(who, watching, asked, stored)!Idle \in CallRow(asked, stored)
      /\ Adapter(who, watching, asked, stored)!NoService \in ServiceRow(asked)
      /\ Adapter(who, watching, asked, stored)!NoStatus \in StatusRow
      /\ Adapter(who, watching, asked, stored)!NoBackend \in BackendRow(asked)
  BY RowsOf
<1>a. ASSUME NEW p \in who, NEW x \in CallRow(asked, stored) PROVE [call EXCEPT ![p] = x] \in Rows
  BY <1>a, <1>t
<1>p. ASSUME NEW p \in who PROVE call[p] \in CallRow(asked, stored)
  BY <1>p, <1>t
<1> HIDE DEF Rows
<1>1. ASSUME NEW p \in who, NEW a \in asked, Adapter(who, watching, asked, stored)!Deploy(p, a[1], a[2])
      PROVE  AdapterTypeOK(who, asked, stored)'
  <2> DEFINE x == [Adapter(who, watching, asked, stored)!Idle EXCEPT
                     !.pc = IF a[1] \in stored THEN "account" ELSE "read", !.revision = a[1], !.share = a[2]]
  <2>1. x \in CallRow(asked, stored)
    BY <1>i DEF CallRow, ToDeploy, Revisions, Shares
  <2>2. call' = [call EXCEPT ![p] = x] /\ moves' = moves + 1
    BY <1>1 DEF Adapter!Deploy, Adapter!Begin
  <2> HIDE DEF x
  <2>3. call' \in Rows
    BY <1>a, <2>1, <2>2
  <2> QED
    BY <1>1, <1>t, <2>2, <2>3 DEF AdapterTypeOK, Rows, Adapter!Deploy
<1>2. ASSUME NEW p \in who, NEW x \in CallRow(asked, stored), call' = [call EXCEPT ![p] = x],
             UNCHANGED <<service, backends, status, account, applies, strangers, overlap>>, moves' \in Nat,
             deployment' \in {"live", "DELETING", "DELETED"}
      PROVE  AdapterTypeOK(who, asked, stored)'
  BY <1>2, <1>a, <1>t DEF AdapterTypeOK, Rows
<1>3. ASSUME NEW p \in who, Adapter(who, watching, asked, stored)!AccountRead(p) PROVE AdapterTypeOK(who, asked, stored)'
  <2>1. /\ [call[p] EXCEPT !.pc = "read"] \in CallRow(asked, stored)
        /\ [call[p] EXCEPT !.pc = "write", !.fresh = TRUE] \in CallRow(asked, stored)
    BY <1>p DEF CallRow, ToDeploy
  <2> QED
    BY <1>2, <1>3, <1>i, <1>t, <2>1
       DEF Adapter!AccountRead, Adapter!Ends, Adapter!Goes, Adapter!others
<1>4. ASSUME NEW p \in who, Adapter(who, watching, asked, stored)!ServiceRead(p) PROVE AdapterTypeOK(who, asked, stored)'
  <2> DEFINE before == Adapter(who, watching, asked, stored)!Before(call[p])
  <2>1. before \in Revisions(asked)
    BY <1>t DEF Adapter!Before, ServiceRow
  <2> HIDE DEF before
  <2>2. /\ [call[p] EXCEPT !.pc = "create"] \in CallRow(asked, stored)
        /\ [call[p] EXCEPT !.pc = "patch", !.fresh = TRUE, !.previous = before] \in CallRow(asked, stored)
    BY <1>p, <2>1 DEF CallRow, ToDeploy
  <2> QED
    BY <1>2, <1>4, <1>i, <1>t, <2>2
       DEF before, Adapter!ServiceRead, Adapter!Ends, Adapter!Goes, Adapter!others
<1>5. ASSUME NEW p \in who, Adapter(who, watching, asked, stored)!Reread(p) PROVE AdapterTypeOK(who, asked, stored)'
  <2>1. [call[p] EXCEPT !.pc = "patch", !.fresh = TRUE] \in CallRow(asked, stored)
    BY <1>p DEF CallRow, ToDeploy
  <2> QED
    BY <1>2, <1>5, <1>i, <1>t, <2>1 DEF Adapter!Reread, Adapter!Ends, Adapter!Goes, Adapter!others
<1>6. ASSUME NEW p \in who, Adapter(who, watching, asked, stored)!GetStatus(p) PROVE AdapterTypeOK(who, asked, stored)'
  <2>1. [Adapter(who, watching, asked, stored)!Idle EXCEPT !.pc = "look"] \in CallRow(asked, stored)
    BY <1>i DEF CallRow, ToLook
  <2> QED
    BY <1>2, <1>6, <1>t, <2>1 DEF Adapter!GetStatus, Adapter!Goes, Adapter!others
<1>7. ASSUME NEW p \in who, Adapter(who, watching, asked, stored)!Delete(p) PROVE AdapterTypeOK(who, asked, stored)'
  <2> DEFINE x == [Adapter(who, watching, asked, stored)!Idle EXCEPT !.pc = "delete", !.removes = TRUE]
  <2>1. x \in CallRow(asked, stored)
    BY <1>i DEF CallRow, ToRemove
  <2>2. /\ call' = [call EXCEPT ![p] = x] /\ moves' = moves + 1 /\ overlap' \in BOOLEAN
        /\ UNCHANGED <<service, backends, status, account, applies, strangers>> /\ deployment' = "DELETING"
    BY <1>7 DEF Adapter!Delete, Adapter!Begin
  <2> HIDE DEF x
  <2>3. call' \in Rows
    BY <1>a, <2>1, <2>2
  <2> QED
    BY <1>t, <2>2, <2>3 DEF AdapterTypeOK, Rows
<1>8. ASSUME NEW p \in who, Adapter(who, watching, asked, stored)!CheckGone(p) PROVE AdapterTypeOK(who, asked, stored)'
  <2>1. /\ [call[p] EXCEPT !.pc = "list"] \in CallRow(asked, stored)
        /\ [call[p] EXCEPT !.pc = "look"] \in CallRow(asked, stored)
    BY <1>p DEF CallRow, ToLook, ToRemove
  <2> QED
    BY <1>2, <1>8, <1>t, <2>1 DEF Adapter!CheckGone, Adapter!Goes, Adapter!others
<1>9. ASSUME NEW p \in who, Adapter(who, watching, asked, stored)!ListAccounts(p) PROVE AdapterTypeOK(who, asked, stored)'
  <2> DEFINE found == {r \in stored : Adapter(who, watching, asked, stored)!Ours(r)}
  <2>1. [call[p] EXCEPT !.pc = "remove", !.list = found] \in CallRow(asked, stored)
    BY <1>p DEF CallRow, ToRemove
  <2> QED
    BY <1>2, <1>9, <1>t, <2>1 DEF Adapter!ListAccounts, Adapter!Goes, Adapter!others
<1>10. ASSUME NEW p \in who, Adapter(who, watching, asked, stored)!Look(p) PROVE AdapterTypeOK(who, asked, stored)'
  <2> DEFINE c == [call[p] EXCEPT !.seen = service]
  <2>1. [c EXCEPT !.pc = "backend", !.report = status] \in CallRow(asked, stored)
    BY <1>p, <1>t DEF CallRow, ToLook
  <2>2. deployment' \in {"live", "DELETING", "DELETED"}
    BY <1>10, <1>t DEF Adapter!Look
  <2> QED
    BY <1>2, <1>10, <1>i, <1>t, <2>1, <2>2 DEF Adapter!Look, Adapter!Answers, Adapter!Ends, Adapter!Goes
<1>11. ASSUME NEW p \in who, Adapter(who, watching, asked, stored)!LookBackend(p) PROVE AdapterTypeOK(who, asked, stored)'
  <2> DEFINE b == IF call[p].report.latest \in DOMAIN backends THEN backends[call[p].report.latest]
                  ELSE Adapter(who, watching, asked, stored)!NoBackend
  <2>1. b \in BackendRow(asked)
    BY <1>i, <1>t
  <2> HIDE DEF b
  <2>2. [call[p] EXCEPT !.pc = "former", !.found = b] \in CallRow(asked, stored)
    BY <1>p, <2>1 DEF CallRow, ToLook
  <2> QED
    BY <1>2, <1>11, <1>i, <1>t, <2>2
       DEF b, Adapter!LookBackend, Adapter!Answers, Adapter!Ends, Adapter!Goes, Adapter!others
<1>12. ASSUME NEW p \in who, Adapter(who, watching, asked, stored)!LookFormer(p) PROVE AdapterTypeOK(who, asked, stored)'
  BY <1>2, <1>12, <1>i, <1>t DEF Adapter!LookFormer, Adapter!Answers, Adapter!Ends, Adapter!Goes, Adapter!others
<1>13. ASSUME NEW p \in who, Adapter(who, watching, asked, stored)!AccountWrite(p), AccountOK(call[p], stored)
       PROVE  AdapterTypeOK(who, asked, stored)'
  <2> DEFINE x == [call[p] EXCEPT !.pc = "read", !.fresh = FALSE, !.changed = TRUE]
             r == call[p].revision
  <2>1. x \in CallRow(asked, stored) /\ r \in stored
    BY <1>13, <1>p DEF CallRow, ToDeploy, AccountOK, Adapter!AccountWrite
  <2>2. [call EXCEPT ![p] = x] \in Rows
    BY <1>a, <2>1
  <2>3. Adapter(who, watching, asked, stored)!AccountMoves([call EXCEPT ![p] = x], r) \in Rows
    BY <2>1, <2>2, AccountMovesSay DEF Rows
  <2>4. call' \in Rows
    BY <1>13, <1>a, <1>i, <2>3 DEF Adapter!AccountWrite, Adapter!Ends, Adapter!Goes
  <2>5. account' \in [stored -> {"absent", "ours", "wrong", "foreign"}]
    BY <1>13, <1>t, <2>1 DEF Adapter!AccountWrite
  <2> QED
    BY <1>13, <1>t, <2>4, <2>5 DEF AdapterTypeOK, Rows, Adapter!AccountWrite, Adapter!others
<1>14. ASSUME NEW p \in who, NEW previous \in Revisions(asked),
              Adapter(who, watching, asked, stored)!Applied(call[p], previous)
       PROVE  service' \in ServiceRow(asked) /\ applies' \in Nat
  <2>1. call[p].revision \in Revisions(asked) /\ call[p].share \in Shares(asked)
    BY <1>p DEF CallRow
  <2>2. /\ service' = [service EXCEPT !.revision = call[p].revision, !.content = call[p].revision,
                                       !.share = call[p].share, !.previous = previous, !.apply = applies']
        /\ applies' = applies + 1
    BY <1>14 DEF Adapter!Applied
  <2>3. applies' \in Nat
    BY <1>t, <2>2
  <2>4. service' \in ServiceRow(asked)
    <3>1. service \in ServiceRow(asked) /\ previous \in Revisions(asked)
      BY <1>t
    <3> QED
      BY <2>1, <2>2, <2>3, <3>1 DEF ServiceRow
  <2> QED
    BY <2>3, <2>4
<1>15. ASSUME NEW p \in who, Adapter(who, watching, asked, stored)!Create(p) PROVE AdapterTypeOK(who, asked, stored)'
  <2>1. [call[p] EXCEPT !.pc = "reread", !.raced = TRUE] \in CallRow(asked, stored) /\ 0 \in Revisions(asked)
    BY <1>p DEF CallRow, ToDeploy, Revisions
  <2>2. call' \in Rows
    BY <1>15, <1>a, <1>i, <2>1 DEF Adapter!Create, Adapter!Ends, Adapter!Goes
  <2>3. service' \in ServiceRow(asked) /\ applies' \in Nat
    BY <1>14, <1>15, <1>t, <2>1 DEF Adapter!Create
  <2> QED
    BY <1>15, <1>t, <2>2, <2>3 DEF AdapterTypeOK, Rows, Adapter!Create
<1>16. ASSUME NEW p \in who, Adapter(who, watching, asked, stored)!Patch(p) PROVE AdapterTypeOK(who, asked, stored)'
  <2> DEFINE ended == [call EXCEPT ![p] = Adapter(who, watching, asked, stored)!Idle]
  <2>1. ended \in Rows
    BY <1>a, <1>i
  <2>2. Adapter(who, watching, asked, stored)!ServiceMoves(ended) \in Rows
    BY <2>1, ServiceMovesSay DEF Rows
  <2>3. call' \in Rows
    BY <1>16, <2>1, <2>2 DEF Adapter!Patch, Adapter!Ends, Adapter!Goes
  <2>4. call[p].previous \in Revisions(asked) /\ service.previous \in Revisions(asked)
    BY <1>p, <1>t DEF CallRow, ServiceRow
  <2>5. service' \in ServiceRow(asked) /\ applies' \in Nat
    BY <1>14, <1>16, <1>t, <2>4 DEF Adapter!Patch
  <2> QED
    BY <1>16, <1>t, <2>3, <2>5 DEF AdapterTypeOK, Rows, Adapter!Patch
<1>17. ASSUME NEW p \in who, Adapter(who, watching, asked, stored)!DeleteService(p)
       PROVE  AdapterTypeOK(who, asked, stored)'
  <2>1. [call[p] EXCEPT !.pc = "gone"] \in CallRow(asked, stored)
    BY <1>p DEF CallRow, ToRemove
  <2>2. [call EXCEPT ![p] = [call[p] EXCEPT !.pc = "gone"]] \in Rows
    BY <1>a, <2>1
  <2>3. call' \in Rows
    BY <1>17, <2>2, ServiceMovesSay DEF Rows, Adapter!DeleteService
  <2>4. service' \in ServiceRow(asked)
    BY <1>17, <1>t DEF Adapter!DeleteService, ServiceRow, Adapter!Exists
  <2> QED
    BY <1>17, <1>t, <2>3, <2>4 DEF AdapterTypeOK, Rows, Adapter!DeleteService, Adapter!others
<1>18. ASSUME NEW p \in who, Adapter(who, watching, asked, stored)!RemoveAccount(p)
       PROVE  AdapterTypeOK(who, asked, stored)'
  <2>1. CASE call[p].list = {}
    <3>1. [call[p] EXCEPT !.pc = "look", !.swept = TRUE] \in CallRow(asked, stored)
      BY <1>p DEF CallRow, ToLook
    <3> QED
      BY <1>2, <1>18, <1>t, <2>1, <3>1 DEF Adapter!RemoveAccount, Adapter!Goes, Adapter!others
  <2>2. CASE call[p].list # {}
    <3> DEFINE Shorter(r) == [call[p] EXCEPT !.list = @ \ {r}, !.stale = @ \ {r}]
               on(r) == [call EXCEPT ![p] = Shorter(r)]
    <3>1. PICK r \in call[p].list :
            \/ call' = on(r) /\ account' = account
            \/ account' = [account EXCEPT ![r] = "absent"]
               /\ call' = Adapter(who, watching, asked, stored)!AccountMoves(on(r), r)
            \/ Adapter(who, watching, asked, stored)!Ends(p) /\ account' = account
      BY <1>18, <2>2 DEF Adapter!RemoveAccount
    <3>2. call[p].list \in SUBSET stored /\ call[p].stale \in SUBSET stored
      BY <1>p DEF CallRow
    <3>3. Shorter(r) \in CallRow(asked, stored)
      BY <1>p, <3>2 DEF CallRow
    <3>4. on(r) \in Rows
      BY <1>a, <3>3
    <3>5. Adapter(who, watching, asked, stored)!AccountMoves(on(r), r) \in Rows
      BY <3>1, <3>2, <3>4, AccountMovesSay DEF Rows
    <3> HIDE DEF on
    <3>6. call' \in Rows
      BY <1>a, <1>i, <3>1, <3>4, <3>5 DEF Adapter!Ends, Adapter!Goes
    <3>7. account' \in [stored -> {"absent", "ours", "wrong", "foreign"}]
      BY <1>t, <3>1
    <3> QED
      BY <1>18, <1>t, <3>6, <3>7 DEF AdapterTypeOK, Rows, Adapter!RemoveAccount, Adapter!others
  <2> QED
    BY <2>1, <2>2
<1>19. CASE Adapter(who, watching, asked, stored)!NewBackend
  <2>1. PICK b : b \in BackendRow(asked) /\ backends' = Append(backends, b)
    BY <1>19, <1>t DEF Adapter!NewBackend, ServiceRow, BackendRow
  <2>2. backends' \in Seq(BackendRow(asked))
    BY <1>t, <2>1
  <2> QED
    BY <1>19, <1>t, <2>2 DEF AdapterTypeOK, Rows, Adapter!NewBackend, Adapter!others
<1>20. ASSUME NEW b \in DOMAIN backends, Adapter(who, watching, asked, stored)!Load(b)
       PROVE  AdapterTypeOK(who, asked, stored)'
  <2>1. backends[b] \in BackendRow(asked)
    BY <1>t
  <2>2. PICK x \in BackendRow(asked) : backends' = [backends EXCEPT ![b] = x]
    <3>1. /\ [backends[b] EXCEPT !.state = "failed", !.fell = TRUE] \in BackendRow(asked)
          /\ [backends[b] EXCEPT !.state = "ready"] \in BackendRow(asked)
      BY <2>1 DEF BackendRow
    <3>2. \/ backends' = [backends EXCEPT ![b] = [backends[b] EXCEPT !.state = "failed", !.fell = TRUE]]
          \/ backends' = [backends EXCEPT ![b] = [backends[b] EXCEPT !.state = "ready"]]
      BY <1>20, <1>t DEF Adapter!Load
    <3> QED
      BY <3>1, <3>2
  <2>3. backends' \in Seq(BackendRow(asked))
    BY <1>t, <2>2, ExceptSeq
  <2> QED
    BY <1>20, <1>t, <2>3 DEF AdapterTypeOK, Rows, Adapter!Load, Adapter!others
<1>21. CASE Adapter(who, watching, asked, stored)!Report
  <2>1. PICK n \in status.latest .. Len(backends) :
          /\ n > 0
          /\ \E good, stuck \in BOOLEAN, old \in {status.rolled} \cup Adapter(who, watching, asked, stored)!ReadyUpTo(n - 1) :
               status' = [latest |-> n, isReady |-> good, blocked |-> stuck, rolled |-> old,
                          ready  |-> IF Adapter(who, watching, asked, stored)!ReadyUpTo(n) = {} THEN 0
                                     ELSE CHOOSE b \in Adapter(who, watching, asked, stored)!ReadyUpTo(n) :
                                            \A d \in Adapter(who, watching, asked, stored)!ReadyUpTo(n) : d <= b,
                          failed |-> IF backends[n].state = "failed" THEN n ELSE status.failed]
    BY <1>21 DEF Adapter!Report
  <2> DEFINE some == Adapter(who, watching, asked, stored)!ReadyUpTo(n)
  <2>2. status.latest \in Nat /\ status.rolled \in Nat /\ status.failed \in Nat /\ Len(backends) \in Nat
    BY <1>t DEF StatusRow
  <2>3. n \in Nat
    BY <2>2
  <2>4. some \in SUBSET Nat /\ Adapter(who, watching, asked, stored)!ReadyUpTo(n - 1) \in SUBSET Nat
    BY <2>3 DEF Adapter!ReadyUpTo
  <2>5. (IF some = {} THEN 0 ELSE CHOOSE b \in some : \A d \in some : d <= b) \in Greatest
    BY <2>4 DEF Greatest
  <2>6. status' \in StatusRow
    BY <2>1, <2>2, <2>3, <2>4, <2>5 DEF StatusRow
  <2>7. call' \in Rows
    BY <1>21, <1>t, ServiceMovesSay DEF Rows, Adapter!Report
  <2> QED
    BY <1>21, <1>t, <2>6, <2>7 DEF AdapterTypeOK, Rows, Adapter!Report, Adapter!others
<1>22. CASE Adapter(who, watching, asked, stored)!Gone
  <2>1. call' \in Rows
    BY <1>22, <1>t, ServiceMovesSay DEF Rows, Adapter!Gone
  <2>2. backends' \in Seq(BackendRow(asked))
    BY <1>22 DEF Adapter!Gone
  <2> QED
    BY <1>22, <1>i, <1>t, <2>1, <2>2 DEF AdapterTypeOK, Rows, Adapter!Gone, Adapter!others
<1>23. CASE Adapter(who, watching, asked, stored)!EditService
  <2>1. call' \in Rows
    BY <1>23, <1>t, ServiceMovesSay DEF Rows, Adapter!EditService
  <2>2. service' \in ServiceRow(asked)
    BY <1>23, <1>t DEF Adapter!EditService, ServiceRow, Revisions
  <2> QED
    BY <1>23, <1>t, <2>1, <2>2 DEF AdapterTypeOK, Rows, Adapter!EditService, Adapter!Edit
<1>24. ASSUME NEW r \in stored, Adapter(who, watching, asked, stored)!EditAccount(r)
       PROVE  AdapterTypeOK(who, asked, stored)'
  <2>1. call' \in Rows
    BY <1>24, <1>t, AccountMovesSay DEF Rows, Adapter!EditAccount
  <2>2. account' \in [stored -> {"absent", "ours", "wrong", "foreign"}]
    BY <1>24, <1>t DEF Adapter!EditAccount
  <2> QED
    BY <1>24, <1>t, <2>1, <2>2 DEF AdapterTypeOK, Rows, Adapter!EditAccount, Adapter!Edit
<1> QED
  BY <1>1, <1>3, <1>4, <1>5, <1>6, <1>7, <1>8, <1>9, <1>10, <1>11, <1>12, <1>13, <1>15, <1>16, <1>17, <1>18, <1>19,
     <1>20, <1>21, <1>22, <1>23, <1>24 DEF Adapter!Next, Adapter!Asks, Adapter!Acts, Adapter!Cluster

(* Who waits for an answer about a backend goes on only when it comes.                *)
LEMMA WatchersWait ==
  ASSUME NEW who, NEW watching, NEW asked, NEW stored, AdapterTypeOK(who, asked, stored),
         \A p \in who : AccountOK(call[p], stored),
         \/ \E p \in who : Adapter(who, watching, asked, stored)!Acts(p)
         \/ Adapter(who, watching, asked, stored)!Cluster
  PROVE  \A q \in who : call'[q].pc \in {"backend", "former"} => Alike(call[q], call'[q])
<1> DEFINE Waits == \A q \in who : call'[q].pc \in {"backend", "former"} => Alike(call[q], call'[q])
           Rows == [who -> CallRow(asked, stored)]
<1>t. call \in Rows
  BY DEF AdapterTypeOK
<1>p. ASSUME NEW p \in who PROVE call[p] \in CallRow(asked, stored)
  BY <1>p, <1>t
<1>s. ASSUME NEW x \in CallRow(asked, stored) PROVE Alike(x, x)
  BY AlikeIs
<1>i. Adapter(who, watching, asked, stored)!Idle \in CallRow(asked, stored)
  BY RowsOf
<1>1. ASSUME NEW p \in who, NEW x, x.pc \notin {"backend", "former"}, call' = [call EXCEPT ![p] = x] PROVE Waits
  BY <1>1, <1>t, <1>p, <1>s
<1>2. ASSUME NEW p \in who, NEW x \in CallRow(asked, stored), x.pc \notin {"backend", "former"},
             NEW cs, cs = [call EXCEPT ![p] = x], \A q \in who : Alike(cs[q], call'[q])
      PROVE  Waits
  <2> SUFFICES ASSUME NEW q \in who, call'[q].pc \in {"backend", "former"} PROVE Alike(call[q], call'[q])
    OBVIOUS
  <2>1. Alike(cs[q], call'[q]) /\ (q = p => cs[q] = x) /\ (q # p => cs[q] = call[q])
    BY <1>2, <1>t
  <2>2. q # p
    BY <1>2, <2>1 DEF Alike
  <2> QED
    BY <2>1, <2>2
<1>3. CASE UNCHANGED call
  BY <1>3, <1>p, <1>s
<1>4. ASSUME NEW p \in who, Adapter(who, watching, asked, stored)!Acts(p) PROVE Waits
  <2> DEFINE Ended == [call EXCEPT ![p] = Adapter(who, watching, asked, stored)!Idle]
  <2>i. Adapter(who, watching, asked, stored)!Idle.pc = "idle"
    BY DEF Adapter!Idle
  <2>e. CASE Adapter(who, watching, asked, stored)!Ends(p)
    BY <1>1, <2>e, <2>i DEF Adapter!Ends, Adapter!Goes
  <2>1. ASSUME NEW a \in asked, Adapter(who, watching, asked, stored)!Deploy(p, a[1], a[2]) PROVE Waits
    <3> DEFINE x == [Adapter(who, watching, asked, stored)!Idle EXCEPT
                       !.pc = IF a[1] \in stored THEN "account" ELSE "read", !.revision = a[1], !.share = a[2]]
    <3>1. call' = [call EXCEPT ![p] = x]
      BY <2>1 DEF Adapter!Deploy, Adapter!Begin
    <3>2. x.pc \notin {"backend", "former"}
      BY DEF Adapter!Idle
    <3> QED
      BY <1>1, <3>1, <3>2
  <2>2. CASE Adapter(who, watching, asked, stored)!AccountRead(p)
    <3>1. /\ [call[p] EXCEPT !.pc = "read"].pc = "read"
          /\ [call[p] EXCEPT !.pc = "write", !.fresh = TRUE].pc = "write"
      BY <1>p DEF CallRow
    <3> QED
      BY <1>1, <2>e, <2>2, <3>1 DEF Adapter!AccountRead, Adapter!Goes
  <2>3. CASE Adapter(who, watching, asked, stored)!AccountWrite(p)
    <3> DEFINE x == [call[p] EXCEPT !.pc = "read", !.fresh = FALSE, !.changed = TRUE]
               cs == [call EXCEPT ![p] = x]
    <3>1. CASE call[p].fresh
      <4>1. x \in CallRow(asked, stored) /\ x.pc = "read" /\ call[p].revision \in stored
        BY <1>p, <2>3 DEF CallRow, ToDeploy, AccountOK, Adapter!AccountWrite
      <4>2. cs \in Rows
        BY <1>t, <4>1
      <4>3. call' = Adapter(who, watching, asked, stored)!AccountMoves(cs, call[p].revision)
        BY <2>3, <3>1 DEF Adapter!AccountWrite
      <4>4. \A q \in who : Alike(cs[q], call'[q])
        BY <4>1, <4>2, <4>3, AccountMovesSay
      <4> HIDE DEF x
      <4> QED
        BY <1>2, <4>1, <4>4
    <3> QED
      BY <2>e, <2>3, <3>1 DEF Adapter!AccountWrite
  <2>4. CASE Adapter(who, watching, asked, stored)!ServiceRead(p)
    <3> DEFINE before == Adapter(who, watching, asked, stored)!Before(call[p])
    <3>1. /\ [call[p] EXCEPT !.pc = "create"].pc = "create"
          /\ [call[p] EXCEPT !.pc = "patch", !.fresh = TRUE, !.previous = before].pc = "patch"
      BY <1>p DEF CallRow
    <3> QED
      BY <1>1, <2>e, <2>4, <3>1 DEF Adapter!ServiceRead, Adapter!Goes
  <2>5. CASE Adapter(who, watching, asked, stored)!Create(p)
    <3>1. [call[p] EXCEPT !.pc = "reread", !.raced = TRUE].pc = "reread"
      BY <1>p DEF CallRow
    <3> QED
      BY <1>1, <2>e, <2>5, <3>1 DEF Adapter!Create, Adapter!Goes
  <2>6. CASE Adapter(who, watching, asked, stored)!Reread(p)
    <3>1. [call[p] EXCEPT !.pc = "patch", !.fresh = TRUE].pc = "patch"
      BY <1>p DEF CallRow
    <3> QED
      BY <1>1, <2>e, <2>6, <3>1 DEF Adapter!Reread, Adapter!Goes
  <2>7. CASE Adapter(who, watching, asked, stored)!Patch(p)
    <3>1. Ended \in Rows
      BY <1>t, <1>i
    <3>2. call' = Ended \/ call' = Adapter(who, watching, asked, stored)!ServiceMoves(Ended)
      BY <2>7 DEF Adapter!Patch, Adapter!Ends, Adapter!Goes
    <3>3. \A q \in who : Alike(Ended[q], Adapter(who, watching, asked, stored)!ServiceMoves(Ended)[q])
      BY <3>1, ServiceMovesSay
    <3> QED
      BY <1>1, <1>2, <1>i, <2>i, <3>2, <3>3
  <2>8. CASE Adapter(who, watching, asked, stored)!GetStatus(p)
    <3>1. [Adapter(who, watching, asked, stored)!Idle EXCEPT !.pc = "look"].pc = "look"
      BY DEF Adapter!Idle
    <3> QED
      BY <1>1, <2>8, <3>1 DEF Adapter!GetStatus, Adapter!Goes
  <2>9. CASE Adapter(who, watching, asked, stored)!Delete(p)
    <3>1. [Adapter(who, watching, asked, stored)!Idle EXCEPT !.pc = "delete", !.removes = TRUE].pc = "delete"
      BY DEF Adapter!Idle
    <3> QED
      BY <1>1, <2>9, <3>1 DEF Adapter!Delete, Adapter!Begin
  <2>10. CASE Adapter(who, watching, asked, stored)!DeleteService(p)
    <3> DEFINE x == [call[p] EXCEPT !.pc = "gone"]
               cs == [call EXCEPT ![p] = x]
    <3>1. x \in CallRow(asked, stored) /\ x.pc = "gone"
      BY <1>p DEF CallRow, ToRemove
    <3>2. cs \in Rows
      BY <1>t, <3>1
    <3>3. \A q \in who : Alike(cs[q], call'[q])
      BY <2>10, <3>2, ServiceMovesSay DEF Adapter!DeleteService
    <3> HIDE DEF x
    <3> QED
      BY <1>2, <3>1, <3>3
  <2>11. CASE Adapter(who, watching, asked, stored)!CheckGone(p)
    <3>1. [call[p] EXCEPT !.pc = "list"].pc = "list" /\ [call[p] EXCEPT !.pc = "look"].pc = "look"
      BY <1>p DEF CallRow
    <3> QED
      BY <1>1, <2>11, <3>1 DEF Adapter!CheckGone, Adapter!Goes
  <2>12. CASE Adapter(who, watching, asked, stored)!ListAccounts(p)
    <3> DEFINE found == {r \in stored : Adapter(who, watching, asked, stored)!Ours(r)}
    <3>1. [call[p] EXCEPT !.pc = "remove", !.list = found].pc = "remove"
      BY <1>p DEF CallRow
    <3> QED
      BY <1>1, <2>12, <3>1 DEF Adapter!ListAccounts, Adapter!Goes
  <2>13. CASE Adapter(who, watching, asked, stored)!RemoveAccount(p)
    <3>1. CASE call[p].list = {}
      <4>1. [call[p] EXCEPT !.pc = "look", !.swept = TRUE].pc = "look"
        BY <1>p DEF CallRow
      <4> QED
        BY <1>1, <2>13, <3>1, <4>1 DEF Adapter!RemoveAccount, Adapter!Goes
    <3>2. CASE call[p].list # {}
      <4> DEFINE Shorter(r) == [call[p] EXCEPT !.list = @ \ {r}, !.stale = @ \ {r}]
                 on(r) == [call EXCEPT ![p] = Shorter(r)]
      <4>1. PICK r \in call[p].list :
              \/ call' = on(r)
              \/ call' = Adapter(who, watching, asked, stored)!AccountMoves(on(r), r)
              \/ Adapter(who, watching, asked, stored)!Ends(p)
        BY <2>13, <3>2 DEF Adapter!RemoveAccount
      <4>2. call[p].list \in SUBSET stored /\ call[p].stale \in SUBSET stored
        BY <1>p DEF CallRow
      <4>3. Shorter(r) \in CallRow(asked, stored) /\ Shorter(r).pc = "remove"
        <5>1. Shorter(r) \in CallRow(asked, stored)
          BY <1>p, <4>2 DEF CallRow
        <5> QED
          BY <1>p, <2>13, <5>1 DEF CallRow, Adapter!RemoveAccount
      <4>4. on(r) \in Rows
        BY <1>t, <4>3
      <4>5. \A q \in who : Alike(on(r)[q], Adapter(who, watching, asked, stored)!AccountMoves(on(r), r)[q])
        BY <4>1, <4>2, <4>4, AccountMovesSay
      <4> HIDE DEF Shorter
      <4> QED
        BY <1>1, <1>2, <2>e, <4>1, <4>3, <4>5
    <3> QED
      BY <3>1, <3>2
  <2> QED
    BY <1>4, <2>1, <2>2, <2>3, <2>4, <2>5, <2>6, <2>7, <2>8, <2>9, <2>10, <2>11, <2>12, <2>13 DEF Adapter!Acts
<1>5. CASE Adapter(who, watching, asked, stored)!Cluster
  <2>1. ASSUME call' = Adapter(who, watching, asked, stored)!ServiceMoves(call) PROVE Waits
    BY <1>t, <2>1, ServiceMovesSay
  <2>2. ASSUME NEW r \in stored, call' = Adapter(who, watching, asked, stored)!AccountMoves(call, r) PROVE Waits
    BY <1>t, <2>2, AccountMovesSay
  <2> QED
    BY <1>3, <1>5, <2>1, <2>2
       DEF Adapter!Cluster, Adapter!NewBackend, Adapter!Load, Adapter!Report, Adapter!Gone, Adapter!EditService,
           Adapter!EditAccount
<1> QED
  BY <1>4, <1>5

(* What LookOK says of a look that named backend n and, perhaps, called it failed.     *)
Looked(n, apply, failed) ==
  /\ apply \in 1 .. applies /\ n > 0
  /\ n > Len(backends) => service.apply # apply
  /\ n <= Len(backends) /\ backends[n].apply = apply /\ failed = n => backends[n].fell

LEMMA ClusterKeeps ==
  ASSUME NEW who, NEW watching, NEW asked, NEW stored,
         AdapterTypeOK(who, asked, stored), AdapterTypeOK(who, asked, stored)', ServiceOK, StatusOK, BackendsOK,
         \/ UNCHANGED <<service, backends, status, applies, edited>>
         \/ /\ \E c \in CallRow(asked, stored), previous \in Revisions(asked) :
                 c.revision # 0 /\ Adapter(who, watching, asked, stored)!Applied(c, previous)
            /\ UNCHANGED <<backends, status, edited>>
         \/ \E p \in who : Adapter(who, watching, asked, stored)!DeleteService(p)
         \/ Adapter(who, watching, asked, stored)!Cluster
  PROVE  /\ ServiceOK' /\ StatusOK' /\ BackendsOK'
         /\ \A n, apply, failed \in Nat : Looked(n, apply, failed) => Looked(n, apply, failed)'
         /\ edited \subseteq edited'
<1> DEFINE Goal == /\ ServiceOK' /\ StatusOK' /\ BackendsOK'
                   /\ \A n, apply, failed \in Nat : Looked(n, apply, failed) => Looked(n, apply, failed)'
                   /\ edited \subseteq edited'
<1>t. /\ service \in ServiceRow(asked) /\ backends \in Seq(BackendRow(asked)) /\ status \in StatusRow
      /\ applies \in Nat /\ service' \in ServiceRow(asked) /\ backends' \in Seq(BackendRow(asked))
      /\ status' \in StatusRow /\ applies' \in Nat
  BY DEF AdapterTypeOK
<1>n. /\ Len(backends) \in Nat /\ \A b \in 1 .. Len(backends) : backends[b] \in BackendRow(asked)
      /\ service.apply \in Nat /\ status.latest \in Nat /\ status.failed \in Nat
  BY <1>t DEF ServiceRow, StatusRow
<1>1. CASE UNCHANGED <<service, backends, status, applies, edited>>
  BY <1>1 DEF ServiceOK, StatusOK, BackendsOK, BackendOK, Looked
<1>2. ASSUME NEW c \in CallRow(asked, stored), NEW previous \in Revisions(asked), c.revision # 0,
             Adapter(who, watching, asked, stored)!Applied(c, previous), UNCHANGED <<backends, status, edited>>
      PROVE  Goal
  <2>1. /\ service'.revision = c.revision /\ service'.content = c.revision /\ service'.apply = applies + 1
        /\ applies' = applies + 1
    BY <1>2, <1>t DEF Adapter!Applied, ServiceRow
  <2>2. ServiceOK'
    BY <1>2, <1>t, <2>1 DEF ServiceOK
  <2>3. StatusOK' /\ BackendsOK'
    BY <1>2 DEF StatusOK, BackendsOK, BackendOK
  <2>4. ASSUME NEW n \in Nat, NEW apply \in Nat, NEW failed \in Nat, Looked(n, apply, failed)
        PROVE  Looked(n, apply, failed)'
    BY <1>2, <1>t, <2>1, <2>4 DEF Looked
  <2> QED
    BY <1>2, <2>2, <2>3, <2>4
<1>3. ASSUME NEW p \in who, Adapter(who, watching, asked, stored)!DeleteService(p) PROVE Goal
  <2>1. /\ service'.revision = service.revision /\ service'.content = service.content
        /\ service'.apply = service.apply /\ UNCHANGED <<backends, status, applies, edited>>
    BY <1>3, <1>t DEF Adapter!DeleteService, Adapter!others, ServiceRow
  <2> QED
    BY <2>1 DEF ServiceOK, StatusOK, BackendsOK, BackendOK, Looked
<1>4. CASE Adapter(who, watching, asked, stored)!NewBackend
  <2>1. PICK b \in BackendRow(asked) :
          /\ b.apply = service.apply /\ b.revision = service.revision /\ b.content = service.content
          /\ b.state = "loading" /\ backends' = Append(backends, b)
    BY <1>4, <1>t DEF Adapter!NewBackend, ServiceRow, BackendRow
  <2>2. UNCHANGED <<service, status, applies, edited>> /\ service.revision # 0
    BY <1>4 DEF Adapter!NewBackend, Adapter!others, Adapter!Exists
  <2>3. /\ Len(backends') = Len(backends) + 1 /\ backends'[Len(backends) + 1] = b
        /\ \A i \in 1 .. Len(backends) : backends'[i] = backends[i]
    BY <1>t, <2>1
  <2>4. ServiceOK'
    BY <2>2 DEF ServiceOK
  <2>5. StatusOK'
    BY <1>n, <2>2, <2>3 DEF StatusOK
  <2>6. BackendsOK'
    <3>1. BackendOK(b)
      BY <2>1, <2>2 DEF BackendOK, ServiceOK
    <3>2. SUFFICES ASSUME NEW i \in 1 .. Len(backends) + 1 PROVE BackendOK(backends[i])'
      BY <2>3 DEF BackendsOK
    <3>3. i \in 1 .. Len(backends) \/ i = Len(backends) + 1
      BY <1>n
    <3>4. BackendOK(backends'[i])
      BY <2>3, <3>1, <3>3 DEF BackendsOK
    <3> QED
      BY <2>2, <3>4 DEF BackendOK
  <2>7. ASSUME NEW n \in Nat, NEW apply \in Nat, NEW failed \in Nat, Looked(n, apply, failed)
        PROVE  Looked(n, apply, failed)'
    <3>1. n <= Len(backends) \/ n = Len(backends) + 1 \/ n > Len(backends) + 1
      BY <1>n
    <3> QED
      BY <1>n, <2>1, <2>2, <2>3, <2>7, <3>1 DEF Looked
  <2> QED
    BY <2>2, <2>4, <2>5, <2>6, <2>7
<1>5. ASSUME NEW b \in DOMAIN backends, Adapter(who, watching, asked, stored)!Load(b) PROVE Goal
  <2>1. UNCHANGED <<service, status, applies, edited>>
    BY <1>5 DEF Adapter!Load, Adapter!others
  <2>2. b \in 1 .. Len(backends) /\ backends[b] \in BackendRow(asked)
    BY <1>t
  <2>3. PICK x : /\ backends' = [backends EXCEPT ![b] = x]
                 /\ x.revision = backends[b].revision /\ x.apply = backends[b].apply
                 /\ x.content = backends[b].content /\ (backends[b].fell => x.fell)
                 /\ x.state = "failed" => x.fell
    <3> DEFINE failed == [backends[b] EXCEPT !.state = "failed", !.fell = TRUE]
               loaded == [backends[b] EXCEPT !.state = "ready"]
    <3>1. /\ failed.revision = backends[b].revision /\ failed.apply = backends[b].apply
          /\ failed.content = backends[b].content /\ failed.fell
      BY <2>2 DEF BackendRow
    <3>2. /\ loaded.revision = backends[b].revision /\ loaded.apply = backends[b].apply
          /\ loaded.content = backends[b].content /\ loaded.fell = backends[b].fell /\ loaded.state = "ready"
      BY <2>2 DEF BackendRow
    <3>3. backends' = [backends EXCEPT ![b] = failed] \/ backends' = [backends EXCEPT ![b] = loaded]
      BY <1>5, <1>t DEF Adapter!Load
    <3> HIDE DEF failed, loaded
    <3> QED
      BY <3>1, <3>2, <3>3
  <2>4. /\ Len(backends') = Len(backends) /\ backends'[b] = x
        /\ \A i \in 1 .. Len(backends) : i # b => backends'[i] = backends[i]
    BY <1>t, <2>2, <2>3
  <2>5. ServiceOK'
    <3>1. service.revision # 0
      BY <1>t, <2>2 DEF ServiceOK
    <3> QED
      BY <2>1, <3>1 DEF ServiceOK
  <2>6. StatusOK'
    BY <2>1, <2>3, <2>4 DEF StatusOK
  <2>7. BackendsOK'
    <3>1. BackendOK(x)
      BY <2>2, <2>3 DEF BackendOK, BackendsOK
    <3>2. SUFFICES ASSUME NEW i \in 1 .. Len(backends) PROVE BackendOK(backends[i])'
      BY <2>4 DEF BackendsOK
    <3>3. BackendOK(backends'[i])
      BY <2>4, <3>1, <3>2 DEF BackendsOK
    <3> QED
      BY <2>1, <3>3 DEF BackendOK
  <2>8. ASSUME NEW n \in Nat, NEW apply \in Nat, NEW failed \in Nat, Looked(n, apply, failed)
        PROVE  Looked(n, apply, failed)'
    <3>1. n > 0 /\ (n <= Len(backends) => n \in 1 .. Len(backends))
      BY <1>n, <2>8 DEF Looked
    <3> QED
      BY <1>n, <2>1, <2>3, <2>4, <2>8, <3>1 DEF Looked
  <2> QED
    BY <2>1, <2>5, <2>6, <2>7, <2>8
<1>6. CASE Adapter(who, watching, asked, stored)!Report
  <2>1. UNCHANGED <<service, backends, applies, edited>> /\ service.revision # 0
    BY <1>6 DEF Adapter!Report, Adapter!others, Adapter!Exists
  <2>2. PICK n \in status.latest .. Len(backends) :
          /\ n > 0 /\ status'.latest = n
          /\ status'.failed = IF backends[n].state = "failed" THEN n ELSE status.failed
    BY <1>6 DEF Adapter!Report
  <2>3. n \in 1 .. Len(backends)
    BY <1>n, <2>2
  <2>4. backends[n].state = "failed" => backends[n].fell
    BY <2>3 DEF BackendsOK, BackendOK
  <2>5. StatusOK'
    BY <1>n, <2>1, <2>2, <2>3, <2>4 DEF StatusOK
  <2>6. ServiceOK' /\ BackendsOK'
    BY <2>1 DEF ServiceOK, BackendsOK, BackendOK
  <2> QED
    BY <2>1, <2>5, <2>6 DEF Looked
<1>7. CASE Adapter(who, watching, asked, stored)!Gone
  <2>1. /\ service'.revision = 0 /\ service'.apply = 0 /\ backends' = <<>> /\ status'.latest = 0 /\ status'.failed = 0
        /\ UNCHANGED <<applies, edited>>
    BY <1>7 DEF Adapter!Gone, Adapter!others, Adapter!NoService, Adapter!NoStatus
  <2> QED
    BY <1>t, <2>1 DEF ServiceOK, StatusOK, BackendsOK, BackendOK, Looked
<1>8. CASE Adapter(who, watching, asked, stored)!EditService
  <2>1. /\ service'.revision = service.revision /\ service'.apply = service.apply
        /\ edited' = edited \cup {service.apply} /\ UNCHANGED <<backends, status, applies>> /\ service.revision # 0
    BY <1>8, <1>t DEF Adapter!EditService, Adapter!Exists, ServiceRow
  <2> QED
    BY <2>1 DEF ServiceOK, StatusOK, BackendsOK, BackendOK, Looked
<1>9. ASSUME NEW r \in stored, Adapter(who, watching, asked, stored)!EditAccount(r) PROVE Goal
  <2>1. UNCHANGED <<service, backends, status, applies, edited>>
    BY <1>9 DEF Adapter!EditAccount
  <2> QED
    BY <1>1, <2>1
<1> QED
  BY <1>1, <1>2, <1>3, <1>4, <1>5, <1>6, <1>7, <1>8, <1>9 DEF Adapter!Cluster

(* What is answered is true, as long as the answer is the last thing that happened.    *)
LEMMA LooksAreTrue ==
  ASSUME NEW who, NEW watching, NEW asked, NEW stored, AdapterInv(who, watching, asked, stored),
         AdapterTypeOK(who, asked, stored)', Adapter(who, watching, asked, stored)!Next
  PROVE  /\ ServiceOK' /\ BackendsOK' /\ StatusOK'
         /\ \A q \in who : LookOK(call[q])' /\ FoundOK(call[q])'
         /\ Adapter(who, watching, asked, stored)!StatusIsTrue'
<1> DEFINE NoCall == Adapter(who, watching, asked, stored)!Idle
           Nothing == Adapter(who, watching, asked, stored)!NoAnswer
           Empty == Adapter(who, watching, asked, stored)!NoBackend
<1>t. /\ call \in [who -> CallRow(asked, stored)] /\ call' \in [who -> CallRow(asked, stored)]
      /\ service \in ServiceRow(asked) /\ backends \in Seq(BackendRow(asked)) /\ status \in StatusRow /\ applies \in Nat
  BY DEF AdapterInv, AdapterTypeOK
<1>v. /\ AdapterTypeOK(who, asked, stored) /\ ServiceOK /\ BackendsOK /\ StatusOK
      /\ \A p \in who : LookOK(call[p]) /\ FoundOK(call[p]) /\ AccountOK(call[p], stored)
  BY DEF AdapterInv
<1>p. ASSUME NEW p \in who PROVE call[p] \in CallRow(asked, stored) /\ call'[p] \in CallRow(asked, stored)
  BY <1>p, <1>t
<1>1. ASSUME \/ \E p \in who : Adapter(who, watching, asked, stored)!Acts(p)
             \/ Adapter(who, watching, asked, stored)!Cluster,
             answer' = Nothing
      PROVE  /\ ServiceOK' /\ BackendsOK' /\ StatusOK'
             /\ \A q \in who : LookOK(call[q])' /\ FoundOK(call[q])'
             /\ Adapter(who, watching, asked, stored)!StatusIsTrue'
  <2>1. \/ UNCHANGED <<service, backends, status, applies, edited>>
        \/ /\ \E c \in CallRow(asked, stored), previous \in Revisions(asked) :
                c.revision # 0 /\ Adapter(who, watching, asked, stored)!Applied(c, previous)
           /\ UNCHANGED <<backends, status, edited>>
        \/ \E p \in who : Adapter(who, watching, asked, stored)!DeleteService(p)
        \/ Adapter(who, watching, asked, stored)!Cluster
    <3> DEFINE Same == UNCHANGED <<service, backends, status, applies, edited>>
               Applies == /\ \E c \in CallRow(asked, stored), previous \in Revisions(asked) :
                               c.revision # 0 /\ Adapter(who, watching, asked, stored)!Applied(c, previous)
                          /\ UNCHANGED <<backends, status, edited>>
    <3>1. ASSUME NEW p \in who, Adapter(who, watching, asked, stored)!Create(p) PROVE Same \/ Applies
      <4>1. call[p].revision # 0 /\ 0 \in Revisions(asked)
        BY <1>v, <3>1 DEF AccountOK, ToDeploy, Adapter!Create, Revisions
      <4> QED
        BY <1>p, <3>1, <4>1 DEF Adapter!Create
    <3>2. ASSUME NEW p \in who, Adapter(who, watching, asked, stored)!Patch(p) PROVE Same \/ Applies
      <4>1. call[p].revision # 0
        BY <1>v, <3>2 DEF AccountOK, ToDeploy, Adapter!Patch
      <4>2. call[p].previous \in Revisions(asked) /\ service.previous \in Revisions(asked)
        BY <1>p, <1>t, <3>2 DEF CallRow, ServiceRow
      <4> QED
        BY <1>p, <3>2, <4>1, <4>2 DEF Adapter!Patch
    <3> HIDE DEF Applies
    <3>3. ASSUME NEW p \in who, Adapter(who, watching, asked, stored)!Acts(p)
          PROVE  Same \/ Applies \/ Adapter(who, watching, asked, stored)!DeleteService(p)
      BY <3>1, <3>2, <3>3
         DEF Adapter!Acts, Adapter!Deploy, Adapter!AccountRead, Adapter!AccountWrite, Adapter!ServiceRead,
             Adapter!Reread, Adapter!GetStatus, Adapter!Delete, Adapter!CheckGone, Adapter!ListAccounts,
             Adapter!RemoveAccount, Adapter!others
    <3> QED
      BY <1>1, <3>3 DEF Applies
  <2>2. /\ ServiceOK' /\ StatusOK' /\ BackendsOK' /\ edited \subseteq edited'
        /\ \A n, apply, failed \in Nat : Looked(n, apply, failed) => Looked(n, apply, failed)'
    BY <1>v, <2>1, ClusterKeeps
  <2>3. ASSUME NEW q \in who PROVE LookOK(call[q])' /\ FoundOK(call[q])'
    <3>1. SUFFICES ASSUME call'[q].pc \in {"backend", "former"} PROVE LookOK(call[q])' /\ FoundOK(call[q])'
      BY DEF LookOK, FoundOK
    <3>2. Alike(call[q], call'[q])
      BY <1>1, <1>v, <3>1, WatchersWait
    <3>3. /\ call'[q].pc = call[q].pc /\ call'[q].seen = call[q].seen /\ call'[q].report = call[q].report
          /\ call'[q].found = call[q].found
      BY <3>2 DEF Alike
    <3>4. PICK n, apply, failed \in Nat :
            n = call[q].report.latest /\ apply = call[q].seen.apply /\ failed = call[q].report.failed
      BY <1>p DEF CallRow, ServiceRow, StatusRow
    <3>5. Looked(n, apply, failed)
      BY <1>v, <3>1, <3>3, <3>4 DEF LookOK, Looked
    <3>6. Looked(n, apply, failed)'
      BY <2>2, <3>5
    <3>7. LookOK(call[q])'
      BY <3>3, <3>4, <3>6 DEF LookOK, Looked
    <3>8. FoundOK(call[q])'
      BY <1>v, <2>2, <3>3 DEF FoundOK
    <3> QED
      BY <3>7, <3>8
  <2>4. Adapter(who, watching, asked, stored)!StatusIsTrue'
    BY <1>1 DEF Adapter!StatusIsTrue, Adapter!NoAnswer
  <2> QED
    BY <2>2, <2>3, <2>4
<1>2. ASSUME NEW p \in who, Adapter(who, watching, asked, stored)!Asks(p)
      PROVE  /\ ServiceOK' /\ BackendsOK' /\ StatusOK'
             /\ \A q \in who \ {p} : LookOK(call[q])' /\ FoundOK(call[q])'
             /\ UNCHANGED <<service, backends, status, applies, edited>>
             /\ \A q \in who \ {p} : call'[q] = call[q]
  <2>1. UNCHANGED <<service, backends, status, applies, edited>>
    BY <1>2 DEF Adapter!Asks, Adapter!Look, Adapter!LookBackend, Adapter!LookFormer, Adapter!others
  <2>2. \A q \in who \ {p} : call'[q] = call[q]
    <3>1. \E x : call' = [call EXCEPT ![p] = x]
      BY <1>2 DEF Adapter!Asks, Adapter!Look, Adapter!LookBackend, Adapter!LookFormer, Adapter!Answers, Adapter!Ends,
                  Adapter!Goes
    <3> QED
      BY <1>t, <3>1
  <2> QED
    BY <1>v, <2>1, <2>2 DEF ServiceOK, BackendsOK, BackendOK, StatusOK, LookOK, FoundOK
<1>3. ASSUME NEW p \in who, Adapter(who, watching, asked, stored)!Ends(p), UNCHANGED <<backends, service, applies, edited>>
      PROVE  LookOK(call[p])' /\ FoundOK(call[p])'
  BY <1>3, <1>t DEF Adapter!Ends, Adapter!Goes, Adapter!Idle, LookOK, FoundOK
<1>4. ASSUME NEW p \in who, Adapter(who, watching, asked, stored)!Look(p)
      PROVE  LookOK(call[p])' /\ FoundOK(call[p])' /\ Adapter(who, watching, asked, stored)!StatusIsTrue'
  <2> DEFINE c == [call[p] EXCEPT !.seen = service]
             x == [c EXCEPT !.pc = "backend", !.report = status]
  <2>u. UNCHANGED <<service, backends, status, applies, edited>>
    BY <1>4 DEF Adapter!Look
  <2>1. CASE service.revision # 0 /\ status.latest # 0 /\ ~c.removes
    <3>1. call'[p] = x /\ answer' = Nothing
      BY <1>4, <1>t, <2>1 DEF Adapter!Look, Adapter!Goes, Adapter!Exists
    <3>2. x.pc = "backend" /\ x.seen = service /\ x.report = status
      BY <1>p DEF CallRow
    <3> HIDE DEF x
    <3>3. /\ service.apply \in 1 .. applies /\ status.latest > 0 /\ status.latest <= Len(backends)
          /\ status.failed = status.latest => backends[status.latest].fell
      BY <1>t, <1>v, <2>1 DEF ServiceOK, StatusOK, ServiceRow, StatusRow
    <3>4. ~(status.latest > Len(backends))
      BY <1>t, <3>3 DEF StatusRow
    <3> QED
      BY <2>u, <3>1, <3>2, <3>3, <3>4 DEF LookOK, FoundOK, Adapter!StatusIsTrue, Adapter!NoAnswer
  <2>2. CASE ~(service.revision # 0 /\ status.latest # 0 /\ ~c.removes)
    <3>1. PICK state \in {"PENDING", "ABSENT"} : Adapter(who, watching, asked, stored)!Answers(p, state, c, Empty, Empty)
      BY <1>4, <2>2 DEF Adapter!Look, Adapter!Exists
    <3>2. Adapter(who, watching, asked, stored)!Ends(p) /\ answer'.state = state
      BY <3>1 DEF Adapter!Answers
    <3> QED
      BY <1>3, <2>u, <3>1, <3>2 DEF Adapter!StatusIsTrue
  <2> QED
    BY <2>1, <2>2
<1>5. ASSUME NEW p \in who, Adapter(who, watching, asked, stored)!LookBackend(p)
      PROVE  LookOK(call[p])' /\ FoundOK(call[p])' /\ Adapter(who, watching, asked, stored)!StatusIsTrue'
  <2> DEFINE c == call[p]
             n == c.report.latest
             b == IF n \in DOMAIN backends THEN backends[n] ELSE Empty
             latest == Adapter(who, watching, asked, stored)!IsLatest(b, c)
             serving == Adapter(who, watching, asked, stored)!Serving(b, c)
             failing == Adapter(who, watching, asked, stored)!Failing(b, c)
  <2>u. UNCHANGED <<service, backends, status, applies, edited>>
    BY <1>5 DEF Adapter!LookBackend, Adapter!others
  <2>1. c.pc = "backend" /\ LookOK(c) /\ c \in CallRow(asked, stored)
    BY <1>5, <1>p, <1>v DEF Adapter!LookBackend
  <2>2. n \in Nat /\ c.report.failed \in Nat /\ c.seen.apply \in 1 .. applies
    BY <2>1 DEF CallRow, StatusRow, LookOK
  <2>3. latest => /\ b.apply = c.seen.apply /\ b.revision = c.seen.revision
                  /\ b.content = b.revision \/ c.seen.apply \in edited
                  /\ failing => b.fell
    <3>1. SUFFICES ASSUME latest PROVE /\ b.apply = c.seen.apply /\ b.revision = c.seen.revision
                                       /\ b.content = b.revision \/ c.seen.apply \in edited
                                       /\ failing => b.fell
      OBVIOUS
    <3>2. b.apply = c.seen.apply /\ b.revision = c.seen.revision
      BY <3>1 DEF Adapter!IsLatest
    <3>3. n \in 1 .. Len(backends)
      <4>1. Empty.apply = 0
        BY DEF Adapter!NoBackend
      <4>2. n \in DOMAIN backends
        BY <1>t, <2>2, <3>2, <4>1
      <4> QED
        BY <1>t, <4>2
    <3>4. b = backends[n]
      BY <1>t, <3>3
    <3>5. BackendOK(backends[n])
      BY <1>v, <3>3 DEF BackendsOK
    <3>6. n <= Len(backends)
      BY <3>3
    <3> HIDE DEF b
    <3>7. failing => b.fell
      BY <2>1, <3>2, <3>4, <3>6 DEF LookOK, Adapter!Failing
    <3> QED
      BY <3>2, <3>4, <3>5, <3>7 DEF BackendOK
  <2>4. serving => b.state = "ready"
    BY DEF Adapter!Serving
  <2> DEFINE x == [c EXCEPT !.pc = "former", !.found = b]
  <2>5. ASSUME latest, serving, Adapter(who, watching, asked, stored)!Goes(p, x), answer' = Nothing
        PROVE  LookOK(call[p])' /\ FoundOK(call[p])' /\ Adapter(who, watching, asked, stored)!StatusIsTrue'
    <3>1. call'[p] = x
      BY <1>t, <2>5 DEF Adapter!Goes
    <3> HIDE DEF b
    <3>2. x.pc = "former" /\ x.found = b /\ x.seen = c.seen /\ x.report = c.report
      BY <2>1 DEF CallRow
    <3> HIDE DEF x
    <3>3. LookOK(call[p])'
      BY <2>1, <2>u, <3>1, <3>2 DEF LookOK
    <3>4. FoundOK(call[p])'
      BY <2>3, <2>4, <2>5, <2>u, <3>1, <3>2 DEF FoundOK
    <3> QED
      BY <2>5, <3>3, <3>4 DEF Adapter!StatusIsTrue, Adapter!NoAnswer
  <2> DEFINE state == IF ~latest THEN "PENDING" ELSE IF failing THEN "FAILED" ELSE IF serving THEN "READY" ELSE "PENDING"
  <2>6. ASSUME Adapter(who, watching, asked, stored)!Answers(p, state, c, b, Empty)
        PROVE  LookOK(call[p])' /\ FoundOK(call[p])' /\ Adapter(who, watching, asked, stored)!StatusIsTrue'
    <3> HIDE DEF b, state, latest, serving, failing
    <3>1. /\ Adapter(who, watching, asked, stored)!Ends(p)
          /\ answer' = [state |-> state, service |-> c.seen, backend |-> b, former |-> Empty]
      BY <2>6 DEF Adapter!Answers
    <3>2. answer'.state = state /\ answer'.service = c.seen /\ answer'.backend = b /\ answer'.former = Empty
      BY <3>1
    <3>3. /\ state = "READY" => latest /\ serving
          /\ state = "FAILED" => latest /\ failing
      BY DEF state
    <3>4. Adapter(who, watching, asked, stored)!StatusIsTrue'
      BY <2>3, <2>4, <2>u, <3>2, <3>3 DEF Adapter!StatusIsTrue
    <3> QED
      BY <1>3, <2>u, <3>1, <3>4
  <2>7. \/ /\ latest /\ serving /\ Adapter(who, watching, asked, stored)!Goes(p, x) /\ answer' = Nothing
        \/ Adapter(who, watching, asked, stored)!Answers(p, state, c, b, Empty)
    BY <1>5 DEF Adapter!LookBackend
  <2> QED
    BY <2>5, <2>6, <2>7
<1>6. ASSUME NEW p \in who, Adapter(who, watching, asked, stored)!LookFormer(p)
      PROVE  LookOK(call[p])' /\ FoundOK(call[p])' /\ Adapter(who, watching, asked, stored)!StatusIsTrue'
  <2> DEFINE c == call[p]
             n == c.report.rolled
             b == IF n \in DOMAIN backends THEN backends[n] ELSE Empty
             former == IF Adapter(who, watching, asked, stored)!IsFormer(b, c) THEN b ELSE Empty
  <2>u. UNCHANGED <<service, backends, status, applies, edited>>
    BY <1>6 DEF Adapter!LookFormer, Adapter!others
  <2>1. c.pc = "former" /\ FoundOK(c)
    BY <1>6, <1>v DEF Adapter!LookFormer
  <2>2. Adapter(who, watching, asked, stored)!Answers(p, "READY", c, c.found, former)
    BY <1>6 DEF Adapter!LookFormer
  <2>3. former = Empty \/ Adapter(who, watching, asked, stored)!Holds(former, c.seen.previous)
    <3>1. SUFFICES ASSUME former # Empty PROVE Adapter(who, watching, asked, stored)!Holds(former, c.seen.previous)
      OBVIOUS
    <3>2. former = b /\ b.revision = c.seen.previous /\ n \in 1 .. Len(backends) /\ b = backends[n]
      BY <1>t, <3>1 DEF Adapter!IsFormer
    <3>3. BackendOK(backends[n])
      BY <1>v, <3>2 DEF BackendsOK
    <3> HIDE DEF b, former
    <3> QED
      BY <3>2, <3>3 DEF BackendOK, Adapter!Holds
  <2> HIDE DEF b, former
  <2>4. /\ Adapter(who, watching, asked, stored)!Ends(p)
        /\ answer' = [state |-> "READY", service |-> c.seen, backend |-> c.found, former |-> former]
    BY <2>2 DEF Adapter!Answers
  <2>5. answer'.state = "READY" /\ answer'.service = c.seen /\ answer'.backend = c.found /\ answer'.former = former
    BY <2>4
  <2>6. /\ c.found.revision = c.seen.revision /\ c.found.state = "ready"
        /\ c.found.content = c.found.revision \/ c.seen.apply \in edited
    BY <2>1 DEF FoundOK
  <2>7. Adapter(who, watching, asked, stored)!StatusIsTrue'
    BY <2>3, <2>5, <2>6, <2>u DEF Adapter!StatusIsTrue, Adapter!Holds
  <2> QED
    BY <1>3, <2>u, <2>4, <2>7
<1> QED
  BY <1>1, <1>2, <1>4, <1>5, <1>6 DEF Adapter!Next, Adapter!Asks

(* Who means to change at the version it read what this step changes has noticed.      *)
Cleared(who, stored) ==
  /\ service' # service => \A q \in who : call'[q].pc = "patch" => ~call'[q].fresh
  /\ \A r \in stored : account'[r] # account[r] => \A q \in who :
       /\ call'[q].pc = "write" /\ call'[q].revision = r => ~call'[q].fresh
       /\ r \in call'[q].list => r \in call'[q].stale \/ call'[q].pc = "write"

LEMMA OthersStay ==
  ASSUME NEW who, NEW asked, NEW stored,
         NEW x \in CallRow(asked, stored), NEW y \in CallRow(asked, stored), Alike(x, y),
         AccountOK(x, stored)
  PROVE  /\ UNCHANGED <<account, deployment, overlap, strangers>> /\ service'.revision \in {service.revision, 0}
              => AccountOK(y, stored)'
         /\ ~Peace' => AccountOK(y, stored)'
<1>1. /\ y.pc = x.pc /\ y.revision = x.revision /\ y.removes = x.removes /\ y.list = x.list /\ y.swept = x.swept
  BY DEF Alike
<1> QED
  BY <1>1 DEF AccountOK, Peace

LEMMA FreshStays ==
  ASSUME NEW who, NEW asked, NEW stored,
         NEW x \in CallRow(asked, stored), NEW y \in CallRow(asked, stored), Alike(x, y),
         FreshOK(x), x.pc = "write" => x.revision \in stored,
         service' # service => (y.pc = "patch" => ~y.fresh),
         \A r \in stored : account'[r] # account[r] =>
           /\ y.pc = "write" /\ y.revision = r => ~y.fresh
           /\ r \in y.list => r \in y.stale \/ y.pc = "write"
  PROVE  FreshOK(y)'
<1>1. /\ y.pc = x.pc /\ y.revision = x.revision /\ y.raced = x.raced /\ y.previous = x.previous /\ y.list = x.list
      /\ (y.fresh => x.fresh) /\ x.stale \subseteq y.stale
  BY DEF Alike
<1>2. y.list \in SUBSET stored
  BY DEF CallRow
<1>3. y.pc = "write" => y.revision \in stored
  BY <1>1
<1>4. (y.pc = "patch" /\ y.fresh => service.revision # 0)'
  BY <1>1 DEF FreshOK
<1>5. (y.pc = "patch" /\ y.fresh /\ ~y.raced =>
         y.previous = IF service.revision # y.revision THEN service.revision ELSE service.previous)'
  BY <1>1 DEF FreshOK
<1>6. y.pc = "write" /\ y.fresh => account'[y.revision] # "foreign"
  BY <1>1, <1>3 DEF FreshOK
<1>7. ASSUME NEW r \in y.list \ y.stale PROVE account'[r] # "foreign"
  <2>1. r \in x.list \ x.stale /\ r \in stored /\ account[r] # "foreign"
    BY <1>1, <1>2 DEF FreshOK
  <2>2. y.pc # "write"
    BY <1>1, <1>7 DEF FreshOK
  <2> QED
    BY <1>7, <2>1, <2>2
<1> QED
  BY <1>1, <1>4, <1>5, <1>6, <1>7 DEF FreshOK

LEMMA CallersKeep ==
  ASSUME NEW who, NEW watching, NEW asked, NEW stored, Named(asked), AdapterInv(who, watching, asked, stored),
         AdapterTypeOK(who, asked, stored)', Adapter(who, watching, asked, stored)!Next
  PROVE  Served(stored)' /\ \A q \in who : AccountOK(call[q], stored)' /\ FreshOK(call[q])'
<1> DEFINE Rows == [who -> CallRow(asked, stored)]
           NoCall == Adapter(who, watching, asked, stored)!Idle
           Goal == Served(stored)' /\ \A q \in who : AccountOK(call[q], stored)' /\ FreshOK(call[q])'
<1>t. /\ call \in Rows /\ call' \in Rows
      /\ service \in ServiceRow(asked) /\ service' \in ServiceRow(asked) /\ strangers \in Nat
      /\ account \in [stored -> {"absent", "ours", "wrong", "foreign"}]
      /\ deployment \in {"live", "DELETING", "DELETED"}
  BY DEF AdapterInv, AdapterTypeOK
<1>v. /\ AdapterTypeOK(who, asked, stored) /\ ServiceOK /\ Served(stored)
      /\ \A p \in who : AccountOK(call[p], stored) /\ FreshOK(call[p])
  BY DEF AdapterInv
<1>p. ASSUME NEW p \in who PROVE call[p] \in CallRow(asked, stored) /\ call'[p] \in CallRow(asked, stored)
  BY <1>p, <1>t
<1>s. ASSUME NEW x \in CallRow(asked, stored) PROVE Alike(x, x)
  BY AlikeIs
<1>i. NoCall \in CallRow(asked, stored) /\ AccountOK(NoCall, stored) /\ FreshOK(NoCall)
  <2>1. /\ NoCall.pc = "idle" /\ NoCall.removes = FALSE /\ NoCall.swept = FALSE /\ NoCall.list = {}
    BY DEF Adapter!Idle
  <2> QED
    BY <2>1, RowsOf DEF AccountOK, FreshOK, ToDeploy, ToRemove
<1> HIDE DEF NoCall
<1>0. ASSUME NEW q \in who, NEW z \in CallRow(asked, stored), Alike(z, call'[q]), FreshOK(z),
             z.pc = "write" => z.revision \in stored, Cleared(who, stored)
      PROVE  FreshOK(call[q])'
  <2>1. PICK y \in CallRow(asked, stored) : y = call'[q]
    BY <1>p
  <2>2. FreshOK(y)'
    BY <1>0, <2>1, FreshStays DEF Cleared
  <2> QED
    BY <2>1, <2>2 DEF FreshOK
<1>1. ASSUME \A q \in who : \E z \in CallRow(asked, stored) : Alike(z, call'[q]) /\ AccountOK(z, stored) /\ FreshOK(z),
             Cleared(who, stored)
      PROVE  /\ /\ UNCHANGED <<account, deployment, overlap, strangers>> /\ service'.revision \in {service.revision, 0}
                => Goal
             /\ ~Peace' => Goal
  <2>1. ASSUME NEW q \in who
        PROVE  /\ FreshOK(call[q])'
               /\ /\ UNCHANGED <<account, deployment, overlap, strangers>> /\ service'.revision \in {service.revision, 0}
                  => AccountOK(call[q], stored)'
               /\ ~Peace' => AccountOK(call[q], stored)'
    <3>1. PICK z \in CallRow(asked, stored) : Alike(z, call'[q]) /\ AccountOK(z, stored) /\ FreshOK(z)
      BY <1>1
    <3>2. FreshOK(call[q])'
      BY <1>0, <1>1, <3>1 DEF AccountOK
    <3>3. PICK y \in CallRow(asked, stored) : y = call'[q]
      BY <1>p
    <3>4. /\ UNCHANGED <<account, deployment, overlap, strangers>> /\ service'.revision \in {service.revision, 0}
             => AccountOK(y, stored)'
          /\ ~Peace' => AccountOK(y, stored)'
      BY <3>1, <3>3, OthersStay
    <3>5. AccountOK(y, stored)' => AccountOK(call[q], stored)'
      BY <3>3 DEF AccountOK
    <3> QED
      BY <3>2, <3>4, <3>5
  <2>2. /\ UNCHANGED <<account, deployment, overlap, strangers>> /\ service'.revision \in {service.revision, 0}
        => Served(stored)'
    BY <1>v DEF Served, Peace
  <2> QED
    BY <2>1, <2>2 DEF Served
<1>2. ASSUME NEW p \in who, NEW x \in CallRow(asked, stored), AccountOK(x, stored), FreshOK(x),
             \A q \in who : Alike(IF q = p THEN x ELSE call[q], call'[q])
      PROVE  \A q \in who : \E z \in CallRow(asked, stored) : Alike(z, call'[q]) /\ AccountOK(z, stored) /\ FreshOK(z)
  BY <1>2, <1>p, <1>v
<1>3. ASSUME NEW p \in who, NEW x \in CallRow(asked, stored), AccountOK(x, stored), FreshOK(x),
             call' = [call EXCEPT ![p] = x], UNCHANGED <<service, account, deployment, overlap, strangers>>
      PROVE  Goal
  <2>1. \A q \in who : Alike(IF q = p THEN x ELSE call[q], call'[q])
    BY <1>3, <1>p, <1>s, <1>t
  <2>2. Cleared(who, stored)
    BY <1>3 DEF Cleared
  <2>3. service'.revision \in {service.revision, 0}
    BY <1>3
  <2> HIDE DEF Goal
  <2> QED
    BY <1>1, <1>2, <1>3, <2>1, <2>2, <2>3
<1>4. ASSUME NEW p \in who, Adapter(who, watching, asked, stored)!Ends(p),
             UNCHANGED <<service, account, deployment, overlap, strangers>>
      PROVE  Goal
  BY <1>3, <1>4, <1>i DEF Adapter!Ends, Adapter!Goes, NoCall
<1> HIDE DEF Goal
<1>l. ASSUME NEW p \in who, call[p].pc # "remove" PROVE call[p].list = {}
  BY <1>l, <1>v DEF FreshOK
<1>5. ASSUME NEW p \in who, NEW a \in asked, Adapter(who, watching, asked, stored)!Deploy(p, a[1], a[2]) PROVE Goal
  <2> DEFINE x == [NoCall EXCEPT !.pc = IF a[1] \in stored THEN "account" ELSE "read", !.revision = a[1], !.share = a[2]]
  <2>1. /\ call' = [call EXCEPT ![p] = x] /\ UNCHANGED <<service, account, deployment, overlap, strangers>>
        /\ deployment = "live"
    BY <1>5 DEF Adapter!Deploy, Adapter!Begin, NoCall
  <2>2. x \in CallRow(asked, stored)
    BY <1>i DEF CallRow, ToDeploy, Revisions, Shares
  <2>3. /\ x.pc = IF a[1] \in stored THEN "account" ELSE "read"
        /\ x.revision = a[1] /\ a[1] # 0 /\ x.removes = FALSE /\ x.swept = FALSE /\ x.list = {}
    BY DEF NoCall, Adapter!Idle, Named
  <2> HIDE DEF x
  <2>4. AccountOK(x, stored) /\ FreshOK(x)
    BY <2>1, <2>3 DEF AccountOK, FreshOK, ToDeploy, ToRemove
  <2> QED
    BY <1>3, <2>1, <2>2, <2>4
<1>6. ASSUME NEW p \in who, Adapter(who, watching, asked, stored)!AccountRead(p) PROVE Goal
  <2> DEFINE c == call[p]
             ready == [c EXCEPT !.pc = "read"]
             write == [c EXCEPT !.pc = "write", !.fresh = TRUE]
  <2>1. /\ c \in CallRow(asked, stored) /\ c.pc = "account" /\ c.list = {} /\ AccountOK(c, stored)
        /\ UNCHANGED <<service, account, deployment, overlap, strangers>>
    BY <1>6, <1>l, <1>p, <1>v DEF Adapter!AccountRead, Adapter!others
  <2>2. /\ ready \in CallRow(asked, stored) /\ write \in CallRow(asked, stored)
        /\ ready.pc = "read" /\ ready.revision = c.revision /\ ready.removes = c.removes /\ ready.swept = c.swept
        /\ ready.list = {} /\ write.pc = "write" /\ write.revision = c.revision /\ write.removes = c.removes
        /\ write.swept = c.swept /\ write.list = {}
    BY <2>1 DEF CallRow, ToDeploy
  <2>3. \/ Adapter(who, watching, asked, stored)!Ends(p)
        \/ account[c.revision] = "ours" /\ call' = [call EXCEPT ![p] = ready]
        \/ account[c.revision] # "foreign" /\ call' = [call EXCEPT ![p] = write]
    BY <1>6 DEF Adapter!AccountRead, Adapter!Goes
  <2> HIDE DEF c, ready, write
  <2>4. account[c.revision] = "ours" => AccountOK(ready, stored) /\ FreshOK(ready)
    BY <2>1, <2>2 DEF AccountOK, FreshOK, ToDeploy, ToRemove
  <2>5. account[c.revision] # "foreign" => AccountOK(write, stored) /\ FreshOK(write)
    BY <2>1, <2>2 DEF AccountOK, FreshOK, ToDeploy, ToRemove
  <2> QED
    BY <1>3, <1>4, <2>1, <2>2, <2>3, <2>4, <2>5
<1>7. ASSUME NEW p \in who, Adapter(who, watching, asked, stored)!ServiceRead(p) PROVE Goal
  <2> DEFINE c == call[p]
             before == Adapter(who, watching, asked, stored)!Before(c)
             create == [c EXCEPT !.pc = "create"]
             patch == [c EXCEPT !.pc = "patch", !.fresh = TRUE, !.previous = before]
  <2>1. /\ c \in CallRow(asked, stored) /\ c.pc = "read" /\ c.list = {} /\ AccountOK(c, stored)
        /\ UNCHANGED <<service, account, deployment, overlap, strangers>>
    BY <1>7, <1>l, <1>p, <1>v DEF Adapter!ServiceRead, Adapter!others
  <2>2. /\ before \in Revisions(asked)
        /\ before = IF service.revision # c.revision THEN service.revision ELSE service.previous
    BY <1>t DEF Adapter!Before, ServiceRow
  <2>3. \/ Adapter(who, watching, asked, stored)!Ends(p)
        \/ call' = [call EXCEPT ![p] = create]
        \/ service.revision # 0 /\ call' = [call EXCEPT ![p] = patch]
    BY <1>7 DEF Adapter!ServiceRead, Adapter!Goes, Adapter!Exists
  <2> HIDE DEF c, before
  <2>4. /\ create \in CallRow(asked, stored) /\ patch \in CallRow(asked, stored)
        /\ create.pc = "create" /\ create.revision = c.revision /\ create.removes = c.removes /\ create.swept = c.swept
        /\ create.list = {}
    BY <2>1, <2>2 DEF CallRow, ToDeploy
  <2>5. /\ patch.pc = "patch" /\ patch.revision = c.revision /\ patch.removes = c.removes
        /\ patch.swept = c.swept /\ patch.list = {} /\ patch.previous = before
    BY <2>1, <2>2 DEF CallRow, ToDeploy
  <2> HIDE DEF create, patch
  <2>6. AccountOK(create, stored) /\ FreshOK(create)
    BY <2>1, <2>4 DEF AccountOK, FreshOK, ToDeploy, ToRemove
  <2>7. AccountOK(patch, stored) /\ (service.revision # 0 => FreshOK(patch))
    BY <2>1, <2>2, <2>5 DEF AccountOK, FreshOK, ToDeploy, ToRemove
  <2> QED
    BY <1>3, <1>4, <2>1, <2>3, <2>4, <2>6, <2>7
<1>8. ASSUME NEW p \in who, Adapter(who, watching, asked, stored)!Reread(p) PROVE Goal
  <2> DEFINE c == call[p]
             patch == [c EXCEPT !.pc = "patch", !.fresh = TRUE]
  <2>1. /\ c \in CallRow(asked, stored) /\ c.pc = "reread" /\ c.list = {} /\ AccountOK(c, stored) /\ c.raced
        /\ UNCHANGED <<service, account, deployment, overlap, strangers>>
    BY <1>8, <1>l, <1>p, <1>v DEF FreshOK, Adapter!Reread, Adapter!others
  <2>2. /\ patch \in CallRow(asked, stored) /\ patch.pc = "patch" /\ patch.revision = c.revision
        /\ patch.removes = c.removes /\ patch.swept = c.swept /\ patch.list = {} /\ patch.raced
    BY <2>1 DEF CallRow, ToDeploy
  <2>3. \/ Adapter(who, watching, asked, stored)!Ends(p)
        \/ service.revision # 0 /\ call' = [call EXCEPT ![p] = patch]
    BY <1>8 DEF Adapter!Reread, Adapter!Goes, Adapter!Exists
  <2> HIDE DEF c, patch
  <2>4. AccountOK(patch, stored) /\ (service.revision # 0 => FreshOK(patch))
    BY <2>1, <2>2 DEF AccountOK, FreshOK, ToDeploy, ToRemove
  <2> QED
    BY <1>3, <1>4, <2>1, <2>2, <2>3, <2>4
<1>9. ASSUME NEW p \in who, Adapter(who, watching, asked, stored)!GetStatus(p) PROVE Goal
  <2> DEFINE x == [NoCall EXCEPT !.pc = "look"]
  <2>1. call' = [call EXCEPT ![p] = x] /\ UNCHANGED <<service, account, deployment, overlap, strangers>>
    BY <1>9 DEF Adapter!GetStatus, Adapter!Goes, Adapter!others, NoCall
  <2>2. x \in CallRow(asked, stored)
    BY <1>i DEF CallRow, ToLook
  <2>3. x.pc = "look" /\ x.removes = FALSE /\ x.swept = FALSE /\ x.list = {}
    BY DEF NoCall, Adapter!Idle
  <2> HIDE DEF x
  <2>4. AccountOK(x, stored) /\ FreshOK(x)
    BY <2>3 DEF AccountOK, FreshOK, ToDeploy, ToRemove
  <2> QED
    BY <1>3, <2>1, <2>2, <2>4
<1>10. ASSUME NEW p \in who, Adapter(who, watching, asked, stored)!CheckGone(p) PROVE Goal
  <2> DEFINE c == call[p]
             list == [c EXCEPT !.pc = "list"]
             look == [c EXCEPT !.pc = "look"]
  <2>1. /\ c \in CallRow(asked, stored) /\ c.pc = "gone" /\ c.list = {} /\ AccountOK(c, stored)
        /\ UNCHANGED <<service, account, deployment, overlap, strangers>>
    BY <1>10, <1>l, <1>p, <1>v DEF Adapter!CheckGone, Adapter!others
  <2>2. /\ list \in CallRow(asked, stored) /\ list.pc = "list" /\ list.removes = c.removes /\ list.swept = c.swept
        /\ list.list = {}
        /\ look \in CallRow(asked, stored) /\ look.pc = "look" /\ look.removes = c.removes /\ look.swept = c.swept
        /\ look.list = {}
    BY <2>1 DEF CallRow, ToLook, ToRemove
  <2>3. \/ service.revision = 0 /\ call' = [call EXCEPT ![p] = list]
        \/ call' = [call EXCEPT ![p] = look]
    BY <1>10 DEF Adapter!CheckGone, Adapter!Goes, Adapter!Sweeps, Adapter!Exists
  <2> HIDE DEF c, list, look
  <2>4. service.revision = 0 => AccountOK(list, stored) /\ FreshOK(list)
    BY <2>1, <2>2 DEF AccountOK, FreshOK, ToDeploy, ToRemove
  <2>5. AccountOK(look, stored) /\ FreshOK(look)
    BY <2>1, <2>2 DEF AccountOK, FreshOK, ToDeploy, ToRemove
  <2> QED
    BY <1>3, <2>1, <2>2, <2>3, <2>4, <2>5
<1>11. ASSUME NEW p \in who, Adapter(who, watching, asked, stored)!ListAccounts(p) PROVE Goal
  <2> DEFINE c == call[p]
             ours == {r \in stored : Adapter(who, watching, asked, stored)!Ours(r)}
             x == [c EXCEPT !.pc = "remove", !.list = ours]
  <2>1. /\ c \in CallRow(asked, stored) /\ c.pc = "list" /\ AccountOK(c, stored)
        /\ UNCHANGED <<service, account, deployment, overlap, strangers>> /\ call' = [call EXCEPT ![p] = x]
    BY <1>11, <1>p, <1>v DEF Adapter!ListAccounts, Adapter!others, Adapter!Goes
  <2>2. \A r \in stored : r \in ours <=> account[r] \in {"ours", "wrong"}
    BY DEF Adapter!Ours
  <2>3. ours \in SUBSET stored
    OBVIOUS
  <2> HIDE DEF c, ours
  <2>4. x \in CallRow(asked, stored)
    BY <2>1, <2>3 DEF CallRow, ToRemove
  <2>5. x.pc = "remove" /\ x.removes = c.removes /\ x.swept = c.swept /\ x.list = ours
    BY <2>1 DEF CallRow
  <2> HIDE DEF x
  <2>6. AccountOK(x, stored)
    BY <2>1, <2>2, <2>5 DEF AccountOK, ToDeploy, ToRemove
  <2>7. FreshOK(x)
    BY <2>2, <2>3, <2>5 DEF FreshOK
  <2> QED
    BY <1>3, <2>1, <2>4, <2>6, <2>7
<1>12. ASSUME NEW p \in who, Adapter(who, watching, asked, stored)!LookBackend(p) PROVE Goal
  <2> DEFINE c == call[p]
             b == IF c.report.latest \in DOMAIN backends THEN backends[c.report.latest]
                  ELSE Adapter(who, watching, asked, stored)!NoBackend
             x == [c EXCEPT !.pc = "former", !.found = b]
  <2>1. /\ c \in CallRow(asked, stored) /\ c.pc = "backend" /\ c.list = {} /\ AccountOK(c, stored)
        /\ UNCHANGED <<service, account, deployment, overlap, strangers>>
    BY <1>12, <1>l, <1>p, <1>v DEF Adapter!LookBackend, Adapter!others
  <2>2. b \in BackendRow(asked)
    BY <1>v, RowsOf DEF AdapterTypeOK
  <2>3. Adapter(who, watching, asked, stored)!Ends(p) \/ call' = [call EXCEPT ![p] = x]
    BY <1>12 DEF Adapter!LookBackend, Adapter!Answers, Adapter!Goes
  <2> HIDE DEF c, b
  <2>4. x \in CallRow(asked, stored) /\ x.pc = "former" /\ x.removes = c.removes /\ x.swept = c.swept /\ x.list = {}
    BY <2>1, <2>2 DEF CallRow, ToLook
  <2> HIDE DEF x
  <2>5. AccountOK(x, stored) /\ FreshOK(x)
    BY <2>1, <2>4 DEF AccountOK, FreshOK, ToDeploy, ToRemove
  <2> QED
    BY <1>3, <1>4, <2>1, <2>3, <2>4, <2>5
<1>13. ASSUME NEW p \in who, Adapter(who, watching, asked, stored)!LookFormer(p) PROVE Goal
  BY <1>4, <1>13 DEF Adapter!LookFormer, Adapter!Answers, Adapter!others
(* A caller deploys: as long as there is peace nobody deletes.                         *)
<1>d. ASSUME NEW p \in who, call[p].pc \in ToDeploy, Peace, NEW q \in who
      PROVE  ~call[q].removes /\ call[q].pc \notin ToRemove /\ ~call[q].swept /\ deployment = "live"
  BY <1>d, <1>v DEF AccountOK
<1>14. ASSUME NEW p \in who, call[p].pc \in ToDeploy, NEW q \in who,
              Alike(call[q], call'[q]) \/ Alike(NoCall, call'[q]), UNCHANGED <<deployment, overlap, strangers>>,
              \A r \in stored : account[r] = "ours" => account'[r] = "ours"
       PROVE  AccountOK(call[q], stored)'
  <2>1. CASE Alike(call[q], call'[q])
    <3>1. /\ call'[q].pc = call[q].pc /\ call'[q].revision = call[q].revision
          /\ call'[q].removes = call[q].removes /\ call'[q].swept = call[q].swept
      BY <2>1 DEF Alike
    <3>2. Peace' => ~call[q].removes /\ call[q].pc \notin ToRemove /\ ~call[q].swept /\ deployment = "live"
      BY <1>d, <1>14 DEF Peace
    <3>3. AccountOK(call[q], stored)
      BY <1>v
    <3> QED
      BY <1>14, <3>1, <3>2, <3>3 DEF AccountOK, Peace, ToRemove
  <2>2. CASE Alike(NoCall, call'[q])
    <3>1. call'[q].pc = "idle" /\ call'[q].removes = FALSE /\ call'[q].swept = FALSE
      BY <2>2 DEF Alike, NoCall, Adapter!Idle
    <3> QED
      BY <3>1 DEF AccountOK, ToDeploy, ToRemove
  <2> QED
    BY <1>14, <2>1, <2>2
<1>15. ASSUME NEW p \in who, Adapter(who, watching, asked, stored)!AccountWrite(p) PROVE Goal
  <2> DEFINE c == call[p]
             x == [c EXCEPT !.pc = "read", !.fresh = FALSE, !.changed = TRUE]
             cs == [call EXCEPT ![p] = x]
             r == c.revision
  <2>1. CASE ~c.fresh
    <3>1. Adapter(who, watching, asked, stored)!Ends(p) /\ UNCHANGED <<service, account, deployment, overlap, strangers>>
      BY <1>15, <2>1 DEF Adapter!AccountWrite, Adapter!others
    <3> QED
      BY <1>4, <3>1
  <2>2. CASE c.fresh
    <3>1. /\ c \in CallRow(asked, stored) /\ c.pc = "write" /\ c.list = {} /\ AccountOK(c, stored)
          /\ UNCHANGED <<service, deployment, overlap, strangers>>
          /\ account' = [account EXCEPT ![r] = "ours"]
          /\ call' = Adapter(who, watching, asked, stored)!AccountMoves(cs, r)
      BY <1>15, <1>l, <1>p, <1>v, <2>2 DEF Adapter!AccountWrite, Adapter!others
    <3>2. r \in stored /\ c.removes = FALSE /\ c.swept = FALSE
      BY <3>1 DEF AccountOK, ToDeploy, CallRow
    <3>3. /\ x \in CallRow(asked, stored) /\ x.pc = "read" /\ x.revision = r /\ x.removes = c.removes
          /\ x.swept = c.swept /\ x.list = {}
      BY <3>1 DEF CallRow, ToDeploy
    <3> HIDE DEF c, x
    <3>4. cs \in Rows
      BY <1>t, <3>3
    <3>5. \A q \in who :
            /\ Alike(cs[q], call'[q])
            /\ call'[q].pc = "write" /\ call'[q].revision = r => ~call'[q].fresh
            /\ r \in call'[q].list => r \in call'[q].stale \/ call'[q].pc = "write"
      <4> HIDE DEF cs, r
      <4>1. r \in stored /\ cs \in [who -> CallRow(asked, stored)]
        BY <3>2, <3>4 DEF Rows
      <4> QED
        BY <3>1, <4>1, AccountMovesSay
    <3>6. cs[p] = x /\ \A q \in who : q # p => cs[q] = call[q]
      BY <1>t
    <3> HIDE DEF cs
    <3>7. Cleared(who, stored)
      <4>1. \A s \in stored : account'[s] # account[s] => s = r
        BY <1>t, <3>1
      <4> QED
        BY <3>1, <3>5, <4>1 DEF Cleared
    <3>8. FreshOK(x)
      BY <3>3 DEF FreshOK
    <3>9. ASSUME NEW q \in who PROVE FreshOK(call[q])'
      <4>1. CASE q = p
        BY <1>0, <3>3, <3>5, <3>6, <3>7, <3>8, <4>1
      <4>2. CASE q # p
        <5>1. call[q].pc = "write" => call[q].revision \in stored
          BY <1>v DEF AccountOK
        <5> QED
          BY <1>0, <1>p, <1>v, <3>5, <3>6, <3>7, <4>2, <5>1
      <4> QED
        BY <4>1, <4>2
    <3>10. (\A s \in stored : account[s] = "ours" => account'[s] = "ours") /\ account'[r] = "ours"
      BY <1>t, <3>1, <3>2
    <3>11. ASSUME NEW q \in who PROVE AccountOK(call[q], stored)'
      <4>1. CASE q # p
        <5>1. call[p].pc \in ToDeploy
          BY <3>1 DEF c, ToDeploy
        <5> QED
          BY <1>14, <3>1, <3>5, <3>6, <3>10, <4>1, <5>1
      <4>2. CASE q = p
        <5>1. /\ call'[p].pc = "read" /\ call'[p].revision = r /\ call'[p].removes = FALSE /\ call'[p].swept = FALSE
          BY <3>2, <3>3, <3>5, <3>6 DEF Alike
        <5> QED
          BY <3>1, <3>10, <4>2, <5>1 DEF AccountOK, Peace, ToDeploy, ToRemove
      <4> QED
        BY <4>1, <4>2
    <3>12. Served(stored)'
      BY <1>v, <3>1, <3>10 DEF Served, Peace
    <3> QED
      BY <3>9, <3>11, <3>12 DEF Goal
  <2> QED
    BY <2>1, <2>2
(* Whoever applies has the account.                                                    *)
<1>16. ASSUME NEW p \in who, call[p].pc \in {"create", "patch"}, NEW previous,
              Adapter(who, watching, asked, stored)!Applied(call[p], previous),
              UNCHANGED <<account, deployment, overlap, strangers>>, Cleared(who, stored),
              \A q \in who : Alike(IF q = p THEN NoCall ELSE call[q], call'[q])
       PROVE  Goal
  <2>1. call[p].pc \in ToDeploy
    BY <1>16 DEF ToDeploy
  <2>2. ASSUME NEW q \in who PROVE AccountOK(call[q], stored)'
    BY <1>14, <1>16, <2>1
  <2>3. ASSUME NEW q \in who PROVE FreshOK(call[q])'
    <3>1. CASE q = p
      <4>1. NoCall.pc # "write"
        BY DEF NoCall, Adapter!Idle
      <4> QED
        BY <1>0, <1>16, <1>i, <3>1, <4>1
    <3>2. CASE q # p
      <4>1. call[q].pc = "write" => call[q].revision \in stored
        BY <1>v DEF AccountOK
      <4> QED
        BY <1>0, <1>16, <1>p, <1>v, <3>2, <4>1
    <3> QED
      BY <3>1, <3>2
  <2>4. Served(stored)'
    <3>1. service'.revision = call[p].revision
      BY <1>16, <1>t DEF Adapter!Applied, ServiceRow
    <3>2. Peace /\ call[p].revision \in stored => account[call[p].revision] = "ours"
      BY <1>16, <1>v, <2>1 DEF AccountOK
    <3> QED
      BY <1>16, <3>1, <3>2 DEF Served, Peace
  <2> QED
    BY <2>2, <2>3, <2>4 DEF Goal
<1>17. ASSUME NEW p \in who, Adapter(who, watching, asked, stored)!Create(p) PROVE Goal
  <2>u. call[p].pc = "create" /\ UNCHANGED <<account, deployment, overlap, strangers>>
    BY <1>17 DEF Adapter!Create
  <2>1. CASE service.revision # 0
    <3> DEFINE c == call[p]
               x == [c EXCEPT !.pc = "reread", !.raced = TRUE]
    <3>1. /\ c \in CallRow(asked, stored) /\ c.pc = "create" /\ c.list = {} /\ AccountOK(c, stored)
          /\ call' = [call EXCEPT ![p] = x] /\ UNCHANGED service
      BY <1>17, <1>l, <1>p, <1>v, <2>u, <2>1 DEF Adapter!Create, Adapter!Exists, Adapter!Goes
    <3>2. /\ x \in CallRow(asked, stored) /\ x.pc = "reread" /\ x.revision = c.revision /\ x.removes = c.removes
          /\ x.swept = c.swept /\ x.list = {} /\ x.raced
      BY <3>1 DEF CallRow, ToDeploy
    <3> HIDE DEF c, x
    <3>3. AccountOK(x, stored) /\ FreshOK(x)
      BY <3>1, <3>2 DEF AccountOK, FreshOK, ToDeploy, ToRemove
    <3> QED
      BY <1>3, <2>u, <3>1, <3>2, <3>3
  <2>2. CASE service.revision = 0
    <3>1. Adapter(who, watching, asked, stored)!Applied(call[p], 0) /\ call' = [call EXCEPT ![p] = NoCall]
      BY <1>17, <2>2 DEF Adapter!Create, Adapter!Exists, Adapter!Ends, Adapter!Goes, NoCall
    <3>2. \A q \in who : call'[q] = IF q = p THEN NoCall ELSE call[q]
      BY <1>t, <3>1
    <3>3. \A q \in who : Alike(IF q = p THEN NoCall ELSE call[q], call'[q])
      BY <1>i, <1>p, <1>s, <3>2
    <3>4. Cleared(who, stored)
      <4>1. ASSUME NEW q \in who, call'[q].pc = "patch" PROVE ~call'[q].fresh
        <5>1. NoCall.pc # "patch"
          BY DEF NoCall, Adapter!Idle
        <5>2. call'[q] = call[q]
          BY <3>2, <4>1, <5>1
        <5> QED
          BY <1>v, <2>2, <4>1, <5>2 DEF FreshOK
      <4> QED
        BY <2>u, <4>1 DEF Cleared
    <3> QED
      BY <1>16, <2>u, <3>1, <3>3, <3>4
  <2> QED
    BY <2>1, <2>2
<1>m. ASSUME NEW cs \in Rows, call' = Adapter(who, watching, asked, stored)!ServiceMoves(cs), UNCHANGED account
      PROVE  Cleared(who, stored) /\ \A q \in who : Alike(cs[q], call'[q])
  BY <1>m, ServiceMovesSay DEF Cleared
<1>18. ASSUME NEW p \in who, Adapter(who, watching, asked, stored)!Patch(p) PROVE Goal
  <2>u. call[p].pc = "patch" /\ UNCHANGED <<account, deployment, overlap, strangers>>
    BY <1>18 DEF Adapter!Patch
  <2>1. CASE ~call[p].fresh
    BY <1>4, <1>18, <2>u, <2>1 DEF Adapter!Patch, Adapter!Current
  <2>2. CASE call[p].fresh
    <3> DEFINE cs == [call EXCEPT ![p] = NoCall]
    <3>1. PICK previous : /\ Adapter(who, watching, asked, stored)!Applied(call[p], previous)
                          /\ call' = Adapter(who, watching, asked, stored)!ServiceMoves(cs)
      BY <1>18, <2>2 DEF Adapter!Patch, Adapter!Current, NoCall
    <3>2. cs \in Rows /\ \A q \in who : cs[q] = IF q = p THEN NoCall ELSE call[q]
      BY <1>i, <1>t
    <3>3. Cleared(who, stored) /\ \A q \in who : Alike(IF q = p THEN NoCall ELSE call[q], call'[q])
      BY <1>m, <2>u, <3>1, <3>2
    <3> QED
      BY <1>16, <2>u, <3>1, <3>3
  <2> QED
    BY <2>1, <2>2
<1>19. ASSUME NEW p \in who, Adapter(who, watching, asked, stored)!Delete(p) PROVE Goal
  <2> DEFINE x == [NoCall EXCEPT !.pc = "delete", !.removes = TRUE]
  <2>1. /\ call' = [call EXCEPT ![p] = x] /\ UNCHANGED <<service, account, strangers>> /\ deployment' = "DELETING"
        /\ overlap' = (overlap \/ Adapter(who, watching, asked, stored)!Deploying)
    BY <1>19 DEF Adapter!Delete, Adapter!Begin, NoCall
  <2>2. x.pc = "delete" /\ x.removes = TRUE /\ x.swept = FALSE /\ x.list = {} /\ x \in CallRow(asked, stored)
    <3>1. x.pc = "delete" /\ x.removes = TRUE /\ x.swept = FALSE /\ x.list = {}
      BY DEF NoCall, Adapter!Idle
    <3>2. x \in CallRow(asked, stored)
      BY <1>i DEF CallRow, ToRemove
    <3> QED
      BY <3>1, <3>2
  <2> HIDE DEF x
  <2>3. call'[p] = x /\ \A q \in who \ {p} : call'[q] = call[q]
    BY <1>t, <2>1
  <2>4. FreshOK(x)
    BY <2>2 DEF FreshOK
  <2>5. ASSUME NEW q \in who PROVE FreshOK(call[q])'
    BY <1>v, <2>1, <2>3, <2>4 DEF FreshOK
  <2>6. Peace' => Peace /\ \A q \in who : call[q].pc \notin ToDeploy
    BY <2>1 DEF Peace, Adapter!Deploying, ToDeploy
  <2>7. ASSUME NEW q \in who PROVE AccountOK(call[q], stored)'
    <3>1. CASE q = p
      BY <2>1, <2>2, <2>3, <3>1 DEF AccountOK, ToDeploy, ToRemove
    <3>2. CASE q # p
      <4>1. call'[q] = call[q] /\ AccountOK(call[q], stored)
        BY <1>v, <2>3, <3>2
      <4> QED
        BY <2>1, <2>6, <4>1 DEF AccountOK
    <3> QED
      BY <3>1, <3>2
  <2>8. Served(stored)'
    BY <1>v, <2>1, <2>6 DEF Served
  <2> QED
    BY <2>5, <2>7, <2>8 DEF Goal
<1>20. ASSUME NEW p \in who, Adapter(who, watching, asked, stored)!DeleteService(p) PROVE Goal
  <2> DEFINE c == call[p]
             x == [c EXCEPT !.pc = "gone"]
             cs == [call EXCEPT ![p] = x]
  <2>1. /\ c \in CallRow(asked, stored) /\ c.pc = "delete" /\ c.list = {} /\ AccountOK(c, stored)
        /\ UNCHANGED <<account, deployment, overlap, strangers>>
        /\ call' = Adapter(who, watching, asked, stored)!ServiceMoves(cs)
    BY <1>20, <1>l, <1>p, <1>v DEF Adapter!DeleteService, Adapter!others
  <2>2. x \in CallRow(asked, stored) /\ x.pc = "gone" /\ x.removes = c.removes /\ x.swept = c.swept /\ x.list = {}
    BY <2>1 DEF CallRow, ToRemove
  <2>3. service'.revision = service.revision
    BY <1>20, <1>t DEF Adapter!DeleteService, ServiceRow
  <2> HIDE DEF c, x
  <2>4. AccountOK(x, stored) /\ FreshOK(x)
    BY <2>1, <2>2 DEF AccountOK, FreshOK, ToDeploy, ToRemove
  <2>5. cs \in Rows /\ \A q \in who : cs[q] = IF q = p THEN x ELSE call[q]
    BY <1>t, <2>2
  <2>6. Cleared(who, stored) /\ \A q \in who : Alike(IF q = p THEN x ELSE call[q], call'[q])
    BY <1>m, <2>1, <2>5
  <2> QED
    BY <1>1, <1>2, <2>1, <2>2, <2>3, <2>4, <2>6
<1>21. ASSUME NEW p \in who, Adapter(who, watching, asked, stored)!RemoveAccount(p) PROVE Goal
  <2>u. call[p].pc = "remove" /\ UNCHANGED <<service, deployment, overlap, strangers>>
    BY <1>21 DEF Adapter!RemoveAccount, Adapter!others
  <2>v. /\ call[p] \in CallRow(asked, stored) /\ AccountOK(call[p], stored) /\ FreshOK(call[p])
        /\ call[p].list \in SUBSET stored /\ call[p].stale \in SUBSET stored /\ call[p].removes
    BY <1>p, <1>v, <2>u DEF CallRow, AccountOK, ToRemove
  <2>1. CASE call[p].list = {}
    <3> DEFINE x == [call[p] EXCEPT !.pc = "look", !.swept = TRUE]
    <3>1. call' = [call EXCEPT ![p] = x] /\ account' = account
      BY <1>21, <2>1 DEF Adapter!RemoveAccount, Adapter!Goes
    <3>2. x \in CallRow(asked, stored) /\ x.pc = "look" /\ x.swept = TRUE /\ x.removes = call[p].removes /\ x.list = {}
      BY <2>v, <2>1 DEF CallRow, ToLook
    <3> HIDE DEF x
    <3>3. AccountOK(x, stored) /\ FreshOK(x)
      BY <2>u, <2>v, <2>1, <3>2 DEF AccountOK, FreshOK, ToDeploy, ToRemove
    <3> QED
      BY <1>3, <2>u, <3>1, <3>2, <3>3
  <2>2. CASE call[p].list # {}
    <3> DEFINE Shorter(r) == [call[p] EXCEPT !.list = @ \ {r}, !.stale = @ \ {r}]
               on(r) == [call EXCEPT ![p] = Shorter(r)]
    <3>1. PICK r \in call[p].list :
            \/ account[r] = "absent" /\ call' = on(r) /\ account' = account
            \/ account' = [account EXCEPT ![r] = "absent"]
               /\ call' = Adapter(who, watching, asked, stored)!AccountMoves(on(r), r)
            \/ Adapter(who, watching, asked, stored)!Ends(p) /\ account' = account
      BY <1>21, <2>2 DEF Adapter!RemoveAccount
    <3> DEFINE x == Shorter(r)
               cs == on(r)
    <3>2. r \in stored
      BY <2>v
    <3>3. /\ x \in CallRow(asked, stored) /\ x.pc = "remove" /\ x.removes = call[p].removes /\ x.swept = call[p].swept
          /\ x.list = call[p].list \ {r} /\ x.stale = call[p].stale \ {r}
      <4>1. x \in CallRow(asked, stored)
        BY <2>v DEF CallRow
      <4> QED
        BY <2>u, <2>v, <4>1 DEF CallRow
    <3>4. cs \in Rows /\ cs[p] = x /\ \A q \in who : q # p => cs[q] = call[q]
      BY <1>t, <3>3
    <3>e. cs = [call EXCEPT ![p] = x]
      OBVIOUS
    <3>f. \/ account[r] = "absent" /\ call' = cs /\ account' = account
          \/ account' = [account EXCEPT ![r] = "absent"]
             /\ call' = Adapter(who, watching, asked, stored)!AccountMoves(cs, r)
          \/ Adapter(who, watching, asked, stored)!Ends(p) /\ account' = account
      BY <3>1
    <3> HIDE DEF x, cs
    <3>5. FreshOK(x)
      BY <2>v, <3>3 DEF FreshOK
    <3>6. CASE account[r] = "absent" /\ call' = cs /\ account' = account
      <4>1. AccountOK(x, stored)
        BY <2>u, <2>v, <3>3, <3>6 DEF AccountOK, ToDeploy, ToRemove
      <4> QED
        BY <1>3, <2>u, <3>3, <3>5, <3>6, <3>e, <4>1
    <3>7. CASE account' = [account EXCEPT ![r] = "absent"]
               /\ call' = Adapter(who, watching, asked, stored)!AccountMoves(cs, r)
      <4>1. \A q \in who :
              /\ Alike(cs[q], call'[q])
              /\ call'[q].pc = "write" /\ call'[q].revision = r => ~call'[q].fresh
              /\ r \in call'[q].list => r \in call'[q].stale \/ call'[q].pc = "write"
        BY <3>2, <3>4, <3>7, AccountMovesSay DEF Rows
      <4>2. \A s \in stored : (s # r => account'[s] = account[s]) /\ account'[r] = "absent"
        BY <1>t, <3>2, <3>7
      <4>3. Cleared(who, stored)
        BY <2>u, <4>1, <4>2 DEF Cleared
      <4>4. ASSUME NEW q \in who PROVE FreshOK(call[q])'
        <5>1. CASE q = p
          BY <1>0, <3>3, <3>4, <3>5, <4>1, <4>3, <5>1
        <5>2. CASE q # p
          <6>1. call[q].pc = "write" => call[q].revision \in stored
            BY <1>v DEF AccountOK
          <6> QED
            BY <1>0, <1>p, <1>v, <3>4, <4>1, <4>3, <5>2, <6>1
        <5> QED
          BY <5>1, <5>2
      <4>5. Peace => deployment # "live" /\ service.revision = 0 /\ \A q \in who : call[q].pc \notin ToDeploy
        BY <1>v, <2>u, <2>v DEF AccountOK
      <4>6. ASSUME NEW q \in who PROVE AccountOK(call[q], stored)'
        <5>1. PICK z \in CallRow(asked, stored) :
                /\ z = cs[q] /\ z.pc = call[q].pc /\ z.removes = call[q].removes /\ z.swept = call[q].swept
                /\ z.list \cup {r} = call[q].list \cup {r} /\ z.revision = call[q].revision
          <6>1. x.revision = call[p].revision
            BY <2>v DEF x, CallRow
          <6> QED
            BY <1>p, <2>u, <3>1, <3>3, <3>4, <6>1
        <5>2. /\ call'[q].pc = z.pc /\ call'[q].removes = z.removes /\ call'[q].swept = z.swept /\ call'[q].list = z.list
              /\ call'[q].revision = z.revision
          BY <4>1, <5>1 DEF Alike
        <5>3. AccountOK(call[q], stored)
          BY <1>v
        <5>4. \A s \in stored : account'[s] \in {"ours", "wrong"} => s # r /\ account[s] \in {"ours", "wrong"}
          BY <4>2
        <5>5. \A s : s # r => (s \in call'[q].list <=> s \in call[q].list)
          BY <5>1, <5>2
        <5> QED
          BY <2>u, <4>5, <5>1, <5>2, <5>3, <5>4, <5>5 DEF AccountOK, Peace
      <4>7. Served(stored)'
        BY <2>u, <4>5 DEF Served, Peace
      <4> QED
        BY <4>4, <4>6, <4>7 DEF Goal
    <3>8. CASE Adapter(who, watching, asked, stored)!Ends(p) /\ account' = account
      BY <1>4, <2>u, <3>8
    <3> QED
      BY <3>f, <3>6, <3>7, <3>8
  <2> QED
    BY <2>1, <2>2
<1>22. ASSUME NEW p \in who, Adapter(who, watching, asked, stored)!Look(p) PROVE Goal
  <2> DEFINE c == call[p]
             x == [[c EXCEPT !.seen = service] EXCEPT !.pc = "backend", !.report = status]
  <2>1. /\ c \in CallRow(asked, stored) /\ c.pc = "look" /\ c.list = {} /\ AccountOK(c, stored)
        /\ UNCHANGED <<service, account, overlap, strangers>>
        /\ deployment' = deployment \/ (c.removes /\ deployment' = "DELETED")
    <3>1. [c EXCEPT !.seen = service].removes = c.removes
      BY <1>p DEF CallRow
    <3> QED
      BY <1>22, <1>l, <1>p, <1>v, <3>1 DEF Adapter!Look
  <2>2. \/ ~c.removes /\ call' = [call EXCEPT ![p] = x]
        \/ call' = [call EXCEPT ![p] = NoCall]
    <3>1. [c EXCEPT !.seen = service].removes = c.removes
      BY <1>p DEF CallRow
    <3> QED
      BY <1>22, <3>1 DEF Adapter!Look, Adapter!Answers, Adapter!Ends, Adapter!Goes, NoCall
  <2>3. x \in CallRow(asked, stored)
    BY <1>v, <2>1 DEF CallRow, ToLook, AdapterTypeOK
  <2>4. x.pc = "backend" /\ x.removes = c.removes /\ x.swept = c.swept /\ x.list = {}
    BY <2>1 DEF CallRow
  <2> HIDE DEF c, x
  <2>5. FreshOK(x) /\ (~c.removes => AccountOK(x, stored))
    BY <2>1, <2>4 DEF AccountOK, FreshOK, ToDeploy, ToRemove
  <2>6. PICK z \in CallRow(asked, stored) : FreshOK(z) /\ AccountOK(z, stored) /\ call' = [call EXCEPT ![p] = z]
    BY <1>i, <2>2, <2>3, <2>5
  <2>7. call'[p] = z /\ \A q \in who : q # p => call'[q] = call[q]
    BY <1>t, <2>6
  <2>8. ASSUME NEW q \in who PROVE FreshOK(call[q])' /\ AccountOK(call[q], stored)'
    <3>1. PICK y \in CallRow(asked, stored) : y = call'[q] /\ FreshOK(y) /\ AccountOK(y, stored)
      BY <1>p, <1>v, <2>6, <2>7
    <3>2. c.removes /\ Peace => y.pc \notin ToDeploy \/ q = p
      BY <1>v, <2>1, <2>7, <3>1 DEF AccountOK, c
    <3>3. z.pc \notin ToDeploy
      BY <2>2, <2>4, <2>6, <1>t DEF NoCall, Adapter!Idle, ToDeploy
    <3>4. c.removes /\ Peace => y.pc \notin ToDeploy
      BY <2>7, <3>1, <3>2, <3>3
    <3>5. FreshOK(call[q])'
      BY <2>1, <3>1 DEF FreshOK
    <3>6. AccountOK(call[q], stored)'
      BY <2>1, <3>1, <3>4 DEF AccountOK, Peace
    <3> QED
      BY <3>5, <3>6
  <2>9. Served(stored)'
    BY <1>v, <2>1 DEF Served, Peace
  <2> QED
    BY <2>8, <2>9 DEF Goal
<1>23. ASSUME call' = call \/ call' = Adapter(who, watching, asked, stored)!ServiceMoves(call),
              call' = call => service' = service, UNCHANGED <<account, deployment, overlap>>,
              \/ UNCHANGED strangers /\ service'.revision \in {service.revision, 0}
              \/ ~Peace'
       PROVE  Goal
  <2>1. Cleared(who, stored) /\ \A q \in who : Alike(call[q], call'[q])
    <3>1. CASE call' = call
      BY <1>23, <1>p, <1>s, <3>1 DEF Cleared
    <3>2. CASE call' = Adapter(who, watching, asked, stored)!ServiceMoves(call)
      BY <1>23, <1>m, <1>t, <3>2
    <3> QED
      BY <1>23, <3>1, <3>2
  <2>2. \A q \in who : \E z \in CallRow(asked, stored) : Alike(z, call'[q]) /\ AccountOK(z, stored) /\ FreshOK(z)
    BY <1>p, <1>v, <2>1
  <2> QED
    BY <1>1, <1>23, <2>1, <2>2
<1>24. ASSUME Adapter(who, watching, asked, stored)!Cluster PROVE Goal
  <2>1. CASE Adapter(who, watching, asked, stored)!NewBackend
    BY <1>23, <2>1 DEF Adapter!NewBackend, Adapter!others
  <2>2. ASSUME NEW b \in DOMAIN backends, Adapter(who, watching, asked, stored)!Load(b) PROVE Goal
    BY <1>23, <2>2 DEF Adapter!Load, Adapter!others
  <2>3. CASE Adapter(who, watching, asked, stored)!Report
    BY <1>23, <2>3 DEF Adapter!Report, Adapter!others
  <2>4. CASE Adapter(who, watching, asked, stored)!Gone
    <3>1. /\ service'.revision = 0 /\ UNCHANGED <<account, deployment, overlap, strangers>>
          /\ call' = Adapter(who, watching, asked, stored)!ServiceMoves(call)
      BY <2>4 DEF Adapter!Gone, Adapter!others, Adapter!NoService
    <3>2. Cleared(who, stored) /\ \A q \in who : Alike(call[q], call'[q])
      BY <1>m, <1>t, <3>1
    <3>3. \A q \in who : \E z \in CallRow(asked, stored) : Alike(z, call'[q]) /\ AccountOK(z, stored) /\ FreshOK(z)
      BY <1>p, <1>v, <3>2
    <3> QED
      BY <1>1, <3>1, <3>2, <3>3
  <2>5. CASE Adapter(who, watching, asked, stored)!EditService
    <3>1. /\ strangers' = strangers + 1 /\ UNCHANGED account
          /\ call' = Adapter(who, watching, asked, stored)!ServiceMoves(call)
      BY <2>5 DEF Adapter!EditService, Adapter!Edit
    <3>2. Cleared(who, stored) /\ \A q \in who : Alike(call[q], call'[q])
      BY <1>m, <1>t, <3>1
    <3>3. \A q \in who : \E z \in CallRow(asked, stored) : Alike(z, call'[q]) /\ AccountOK(z, stored) /\ FreshOK(z)
      BY <1>p, <1>v, <3>2
    <3>4. ~Peace'
      BY <1>t, <3>1 DEF Peace
    <3> QED
      BY <1>1, <3>2, <3>3, <3>4
  <2>6. ASSUME NEW r \in stored, Adapter(who, watching, asked, stored)!EditAccount(r) PROVE Goal
    <3>1. /\ strangers' = strangers + 1 /\ UNCHANGED service
          /\ call' = Adapter(who, watching, asked, stored)!AccountMoves(call, r)
          /\ \A s \in stored : account'[s] # account[s] => s = r
      BY <1>t, <2>6 DEF Adapter!EditAccount, Adapter!Edit
    <3>2. \A q \in who :
            /\ Alike(call[q], call'[q])
            /\ call'[q].pc = "write" /\ call'[q].revision = r => ~call'[q].fresh
            /\ r \in call'[q].list => r \in call'[q].stale \/ call'[q].pc = "write"
      BY <1>t, <3>1, AccountMovesSay DEF Rows
    <3>3. Cleared(who, stored)
      BY <3>1, <3>2 DEF Cleared
    <3>4. \A q \in who : \E z \in CallRow(asked, stored) : Alike(z, call'[q]) /\ AccountOK(z, stored) /\ FreshOK(z)
      BY <1>p, <1>v, <3>2
    <3>5. ~Peace'
      BY <1>t, <3>1 DEF Peace
    <3> QED
      BY <1>1, <3>3, <3>4, <3>5
  <2> QED
    BY <1>24, <2>1, <2>2, <2>3, <2>4, <2>5, <2>6 DEF Adapter!Cluster
<1>25. ASSUME NEW p \in who, Adapter(who, watching, asked, stored)!Acts(p) PROVE Goal
  BY <1>5, <1>6, <1>7, <1>8, <1>9, <1>10, <1>11, <1>15, <1>17, <1>18, <1>19, <1>20, <1>21, <1>25 DEF Adapter!Acts
<1>26. ASSUME NEW p \in who, Adapter(who, watching, asked, stored)!Asks(p) PROVE Goal
  BY <1>12, <1>13, <1>22, <1>26 DEF Adapter!Asks
<1>27. Goal
  BY <1>24, <1>25, <1>26 DEF Adapter!Next
<1> QED
  BY <1>27 DEF Goal


(* No apply loses what another did.                                                    *)
LEMMA NothingGetsLost ==
  ASSUME NEW who, NEW watching, NEW asked, NEW stored, AdapterInv(who, watching, asked, stored),
         Adapter(who, watching, asked, stored)!Next
  PROVE  Adapter(who, watching, asked, stored)!NothingIsLost
<1> DEFINE Names == (service.revision # 0 /\ service'.revision \notin {0, service.revision})
                       => service'.previous = service.revision \/ \E q \in who : call[q].raced
           Left == \A r \in stored : account[r] = "foreign" => account'[r] = "foreign"
<1>t. /\ call \in [who -> CallRow(asked, stored)] /\ service \in ServiceRow(asked)
      /\ account \in [stored -> {"absent", "ours", "wrong", "foreign"}]
      /\ \A p \in who : AccountOK(call[p], stored) /\ FreshOK(call[p])
  BY DEF AdapterInv, AdapterTypeOK
<1>p. ASSUME NEW p \in who PROVE call[p] \in CallRow(asked, stored)
  BY <1>p, <1>t
<1>1. ASSUME NEW p \in who, Adapter(who, watching, asked, stored)!Patch(p) PROVE Names
  <2>1. CASE service' = service
    BY <2>1
  <2>2. CASE call[p].fresh /\ ~call[p].raced
    <3>1. call[p].previous = IF service.revision # call[p].revision THEN service.revision ELSE service.previous
      BY <1>1, <1>t, <2>2 DEF FreshOK, Adapter!Patch
    <3>2. service' = [service EXCEPT !.revision = call[p].revision, !.content = call[p].revision, !.share = call[p].share,
                                     !.previous = IF call[p].previous # 0 THEN call[p].previous ELSE service.previous,
                                     !.apply = applies + 1]
      BY <1>1, <2>2 DEF Adapter!Patch, Adapter!Current, Adapter!Applied
    <3>3. /\ service'.revision = call[p].revision
          /\ service'.previous = IF call[p].previous # 0 THEN call[p].previous ELSE service.previous
      BY <1>t, <3>2 DEF ServiceRow
    <3> QED
      BY <3>1, <3>3
  <2> QED
    BY <1>1, <2>1, <2>2 DEF Adapter!Patch, Adapter!Current
<1>2. ASSUME NEW p \in who, Adapter(who, watching, asked, stored)!Create(p) PROVE Names
  BY <1>2 DEF Adapter!Create, Adapter!Exists
<1>3. ASSUME NEW p \in who, Adapter(who, watching, asked, stored)!Acts(p) PROVE Names
  <2>1. CASE Adapter(who, watching, asked, stored)!DeleteService(p)
    <3>1. service'.revision = service.revision
      BY <1>t, <2>1 DEF Adapter!DeleteService, ServiceRow
    <3> QED
      BY <3>1
  <2>2. CASE service' = service
    BY <2>2
  <2> HIDE DEF Names
  <2> QED
    BY <1>1, <1>2, <1>3, <2>1, <2>2
       DEF Adapter!Acts, Adapter!Deploy, Adapter!AccountRead, Adapter!AccountWrite, Adapter!ServiceRead,
           Adapter!Reread, Adapter!GetStatus, Adapter!Delete, Adapter!CheckGone, Adapter!ListAccounts,
           Adapter!RemoveAccount
<1>4. ASSUME Adapter(who, watching, asked, stored)!Cluster PROVE Names
  <2>1. CASE service' = service
    BY <2>1
  <2>2. CASE Adapter(who, watching, asked, stored)!Gone
    BY <2>2 DEF Adapter!Gone, Adapter!NoService
  <2>3. CASE Adapter(who, watching, asked, stored)!EditService
    <3>1. service'.revision = service.revision
      BY <1>t, <2>3 DEF Adapter!EditService, ServiceRow
    <3> QED
      BY <3>1
  <2> HIDE DEF Names
  <2> QED
    BY <1>4, <2>1, <2>2, <2>3
       DEF Adapter!Cluster, Adapter!NewBackend, Adapter!Load, Adapter!Report, Adapter!EditAccount
<1>5. Names
  <2>1. ASSUME NEW p \in who, Adapter(who, watching, asked, stored)!Asks(p) PROVE Names
    <3>1. service' = service
      BY <2>1 DEF Adapter!Asks, Adapter!Look, Adapter!LookBackend, Adapter!LookFormer
    <3> QED
      BY <3>1
  <2> HIDE DEF Names
  <2> QED
    BY <1>3, <1>4, <2>1 DEF Adapter!Next
<1>6. ASSUME NEW p \in who, Adapter(who, watching, asked, stored)!AccountWrite(p) PROVE Left
  <2>1. CASE account' = account
    BY <2>1
  <2>2. CASE call[p].fresh /\ account' = [account EXCEPT ![call[p].revision] = "ours"]
    <3>1. account[call[p].revision] # "foreign"
      BY <1>6, <1>t, <2>2 DEF FreshOK, Adapter!AccountWrite
    <3> QED
      BY <1>t, <2>2, <3>1
  <2> QED
    BY <1>6, <2>1, <2>2 DEF Adapter!AccountWrite
<1>7. ASSUME NEW p \in who, Adapter(who, watching, asked, stored)!RemoveAccount(p) PROVE Left
  <2>1. CASE account' = account
    BY <2>1
  <2>2. ASSUME NEW r \in call[p].list, r \notin call[p].stale, account' = [account EXCEPT ![r] = "absent"]
        PROVE  Left
    <3>1. account[r] # "foreign"
      BY <1>t, <2>2 DEF FreshOK
    <3> QED
      BY <1>t, <2>2, <3>1
  <2> HIDE DEF Left
  <2> QED
    BY <1>7, <2>1, <2>2 DEF Adapter!RemoveAccount, Adapter!Removable
<1>8. ASSUME NEW r \in stored, Adapter(who, watching, asked, stored)!EditAccount(r) PROVE Left
  BY <1>8, <1>t DEF Adapter!EditAccount
<1>9. ASSUME account' = account PROVE Left
  BY <1>9
<1> HIDE DEF Left
<1>10. ASSUME NEW p \in who, Adapter(who, watching, asked, stored)!Acts(p) \/ Adapter(who, watching, asked, stored)!Asks(p)
       PROVE  Left
  BY <1>6, <1>7, <1>9, <1>10
     DEF Adapter!Acts, Adapter!Asks, Adapter!Look, Adapter!LookBackend, Adapter!LookFormer, Adapter!Deploy,
         Adapter!AccountRead, Adapter!ServiceRead, Adapter!Create, Adapter!Reread, Adapter!Patch, Adapter!GetStatus,
         Adapter!Delete, Adapter!DeleteService, Adapter!CheckGone, Adapter!ListAccounts
<1>11. ASSUME Adapter(who, watching, asked, stored)!Cluster PROVE Left
  BY <1>8, <1>9, <1>11 DEF Adapter!Cluster, Adapter!NewBackend, Adapter!Load, Adapter!Report, Adapter!Gone, Adapter!EditService
<1>12. Left
  BY <1>10, <1>11 DEF Adapter!Next
<1> QED
  BY <1>5, <1>12 DEF Adapter!NothingIsLost, Adapter!Exists, Left

LEMMA AdapterBegins ==
  ASSUME NEW who, NEW watching, NEW asked, NEW stored, Adapter(who, watching, asked, stored)!Init
  PROVE  AdapterInv(who, watching, asked, stored)
<1> DEFINE NoCall == Adapter(who, watching, asked, stored)!Idle
<1>1. /\ service = Adapter(who, watching, asked, stored)!NoService /\ backends = <<>>
      /\ status = Adapter(who, watching, asked, stored)!NoStatus
      /\ account = [r \in stored |-> "absent"] /\ call = [p \in who |-> NoCall]
      /\ answer = Adapter(who, watching, asked, stored)!NoAnswer
      /\ edited = {} /\ deployment = "live" /\ overlap = FALSE /\ applies = 0 /\ moves = 0 /\ strangers = 0
  BY DEF Adapter!Init
<1>2. /\ NoCall.pc = "idle" /\ NoCall.removes = FALSE /\ NoCall.swept = FALSE /\ NoCall.list = {}
      /\ service.revision = 0 /\ service.apply = 0
      /\ status.latest = 0 /\ status.failed = 0 /\ answer.state = "none"
  BY <1>1 DEF Adapter!Idle, Adapter!NoService, Adapter!NoStatus, Adapter!NoAnswer
<1>3. AdapterTypeOK(who, asked, stored)
  <2>1. call \in [who -> CallRow(asked, stored)]
    BY <1>1, RowsOf
  <2>2. /\ service \in ServiceRow(asked) /\ status \in StatusRow /\ backends \in Seq(BackendRow(asked))
    BY <1>1, RowsOf
  <2>3. account \in [stored -> {"absent", "ours", "wrong", "foreign"}]
    BY <1>1
  <2> QED
    BY <1>1, <2>1, <2>2, <2>3 DEF AdapterTypeOK
<1>4. ServiceOK /\ StatusOK
  BY <1>1, <1>2 DEF ServiceOK, StatusOK
<1>5. BackendsOK
  BY <1>1 DEF BackendsOK
<1>6. Served(stored)
  BY <1>2 DEF Served
<1>7. ASSUME NEW p \in who PROVE LookOK(call[p]) /\ FoundOK(call[p]) /\ AccountOK(call[p], stored) /\ FreshOK(call[p])
  <2>1. call[p] = NoCall
    BY <1>1
  <2> HIDE DEF NoCall
  <2> QED
    BY <1>2, <2>1 DEF LookOK, FoundOK, AccountOK, FreshOK, ToDeploy, ToRemove
<1>8. Adapter(who, watching, asked, stored)!StatusIsTrue
  BY <1>2 DEF Adapter!StatusIsTrue
<1> QED
  BY <1>3, <1>4, <1>5, <1>6, <1>7, <1>8 DEF AdapterInv

LEMMA AdapterStep ==
  ASSUME NEW who, NEW watching, NEW asked, NEW stored, Named(asked), AdapterInv(who, watching, asked, stored),
         Adapter(who, watching, asked, stored)!Next
  PROVE  AdapterInv(who, watching, asked, stored)' /\ AdapterTrue(who, watching, asked, stored)
<1>1. AdapterTypeOK(who, asked, stored)'
  BY AdapterTypes DEF AdapterInv
<1>2. /\ ServiceOK' /\ BackendsOK' /\ StatusOK'
      /\ \A q \in who : LookOK(call[q])' /\ FoundOK(call[q])'
      /\ Adapter(who, watching, asked, stored)!StatusIsTrue'
  BY <1>1, LooksAreTrue
<1>3. Served(stored)' /\ \A q \in who : AccountOK(call[q], stored)' /\ FreshOK(call[q])'
  BY <1>1, CallersKeep
<1>4. AdapterInv(who, watching, asked, stored)'
  BY <1>1, <1>2, <1>3 DEF AdapterInv
<1>5. Adapter(who, watching, asked, stored)!AccountsAreKept'
  <2>1. CASE Peace'
    <3>1. ASSUME NEW p \in who, call'[p].swept, NEW r \in stored PROVE account'[r] \notin {"ours", "wrong"}
      BY <1>3, <2>1, <3>1 DEF AccountOK
    <3>2. service'.revision # 0 /\ service'.revision \in stored => account'[service'.revision] = "ours"
      BY <1>3, <2>1 DEF Served
    <3> QED
      BY <3>1, <3>2 DEF Adapter!AccountsAreKept, Adapter!Exists, Adapter!Ours
  <2>2. CASE ~Peace'
    <3>1. (overlap \/ strangers > 0)'
      BY <1>1, <2>2 DEF Peace, AdapterTypeOK
    <3> QED
      BY <3>1 DEF Adapter!AccountsAreKept
  <2> QED
    BY <2>1, <2>2
<1>6. Adapter(who, watching, asked, stored)!NothingIsLost
  BY NothingGetsLost
<1> QED
  BY <1>2, <1>4, <1>5, <1>6 DEF AdapterTrue

LEMMA AdapterStays ==
  ASSUME NEW who, NEW watching, NEW asked, NEW stored, AdapterInv(who, watching, asked, stored),
         UNCHANGED adapterVars
  PROVE  AdapterInv(who, watching, asked, stored)'
<1>1. /\ UNCHANGED <<service, backends, status, account, call, answer>>
      /\ UNCHANGED <<edited, deployment, overlap, applies, moves, strangers>>
  BY DEF adapterVars
<1>2. AdapterTypeOK(who, asked, stored)'
  BY <1>1 DEF AdapterInv, AdapterTypeOK
<1>3. ServiceOK' /\ BackendsOK' /\ StatusOK' /\ Served(stored)'
  BY <1>1 DEF AdapterInv, ServiceOK, BackendsOK, BackendOK, StatusOK, Served, Peace
<1>4. ASSUME NEW p \in who
      PROVE  LookOK(call[p])' /\ FoundOK(call[p])' /\ AccountOK(call[p], stored)' /\ FreshOK(call[p])'
  <2>1. LookOK(call[p])' /\ FoundOK(call[p])'
    BY <1>1 DEF AdapterInv, LookOK, FoundOK
  <2>2. AccountOK(call[p], stored)' /\ FreshOK(call[p])'
    BY <1>1 DEF AdapterInv, AccountOK, FreshOK, Peace
  <2> QED
    BY <2>1, <2>2
<1>5. Adapter(who, watching, asked, stored)!StatusIsTrue'
  BY <1>1 DEF AdapterInv, Adapter!StatusIsTrue, Adapter!Holds, Adapter!NoBackend
<1> QED
  BY <1>2, <1>3, <1>4, <1>5 DEF AdapterInv

LEMMA NamesAreGiven == Named(Deploys) /\ Named(Watched)
BY FoundationsAssumption DEF Named

(* Both instances of it.                                                               *)
AdaptersOK ==
  /\ part = "overlap" => AdapterInv(Callers, {}, Deploys, Stored)
  /\ part = "alone"   => AdapterInv({Leader}, {Leader}, Watched, {})

(* MCFoundations!AdapterIsTrue, for any reconcilers that overlap, one that also looks   *)
(* at the status, any revisions and any bound: READY and FAILED say what became of the  *)
(* very model that was asked for, a service has the account its model is read with,     *)
(* a deletion leaves none of ours, and no apply loses what another did.                 *)
THEOREM AdapterIsAlwaysTrue == FoundationsSpec => AdapterIsTrue
<1> DEFINE Step == /\ part = "overlap" => AdapterTrue(Callers, {}, Deploys, Stored)
                   /\ part = "alone"   => AdapterTrue({Leader}, {Leader}, Watched, {})
<1>1. FoundationsInit => AdaptersOK
  BY AdapterBegins DEF FoundationsInit, AdaptersOK
<1>2. ASSUME AdaptersOK, [FoundationsNext]_foundations
      PROVE  AdaptersOK' /\ [Step]_adapterVars
  <2>1. CASE FoundationsNext
    <3>1. part' = part
      BY <2>1 DEF FoundationsNext
    <3>2. CASE part = "overlap"
      <4>1. Adapter(Callers, {}, Deploys, Stored)!Next
        BY <2>1, <3>2 DEF FoundationsNext
      <4>2. AdapterInv(Callers, {}, Deploys, Stored)' /\ AdapterTrue(Callers, {}, Deploys, Stored)
        BY <1>2, <3>2, <4>1, AdapterStep, NamesAreGiven DEF AdaptersOK
      <4> QED
        BY <3>1, <3>2, <4>2 DEF AdaptersOK
    <3>3. CASE part = "alone"
      <4>1. Adapter({Leader}, {Leader}, Watched, {})!Next
        BY <2>1, <3>3 DEF FoundationsNext
      <4>2. AdapterInv({Leader}, {Leader}, Watched, {})' /\ AdapterTrue({Leader}, {Leader}, Watched, {})
        BY <1>2, <3>3, <4>1, AdapterStep, NamesAreGiven DEF AdaptersOK
      <4> QED
        BY <3>1, <3>3, <4>2 DEF AdaptersOK
    <3>4. CASE part \notin {"overlap", "alone"}
      BY <3>1, <3>4 DEF AdaptersOK
    <3> QED
      BY <3>2, <3>3, <3>4
  <2>2. CASE UNCHANGED foundations
    <3>1. part' = part /\ UNCHANGED adapterVars
      BY <2>2 DEF foundations
    <3>2. part = "overlap" => AdapterInv(Callers, {}, Deploys, Stored)'
      BY <1>2, <3>1, AdapterStays DEF AdaptersOK
    <3>3. part = "alone" => AdapterInv({Leader}, {Leader}, Watched, {})'
      BY <1>2, <3>1, AdapterStays DEF AdaptersOK
    <3> HIDE DEF Step
    <3> QED
      BY <3>1, <3>2, <3>3 DEF AdaptersOK
  <2> QED
    BY <1>2, <2>1, <2>2
<1> QED
  BY <1>1, <1>2, PTL DEF FoundationsSpec, AdapterIsTrue

=============================================================================
