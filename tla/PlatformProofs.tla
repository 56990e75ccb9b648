--------------------------- MODULE PlatformProofs ---------------------------
(***************************************************************************)
(* Theorems about the parts that MCPlatform puts side by side: Leadership,   *)
(* Members, Secrets, SigningKeys, LogStream, StorageInitializer, BatchWorker *)
(* and Monitoring, for any instance of each. First each part on its own;     *)
(* then, as a behaviour of PlatformSpec is a behaviour of each part (To...), *)
(* the theorems at the end.                                                  *)
(***************************************************************************)
EXTENDS MCPlatform, FiniteSetTheorems, SequenceTheorems, TLAPS

Election == [mode : {"standby", "leading", "dead"}, pc : {"wait", "read", "write", "reply"},
             since : Nat, began : Nat, seen : BOOLEAN, observed : Nat, fresh : BOOLEAN,
             confirmed : Nat, hangs : BOOLEAN, stall : Nat]

ElectionOK == process \in [Processes -> Election]

(* Nobody is late for anything, and began is the age of the attempt, if any.     *)
OnTime(x) ==
  /\ x.since <= IF x.pc = "wait" THEN Retry ELSE CallLimit
  /\ x.pc = "wait" => x.began = 0
  /\ x.pc = "read" => x.began = x.since
  /\ x.mode = "dead" => x.pc = "wait"

(* How long ago the last renewal of a leader may be, at each point of an attempt. *)
InTime(x) ==
  x.mode = "leading" =>
    x.confirmed < Deadline + x.since + (IF x.pc = "wait" THEN 0
                                        ELSE IF x.pc = "read" THEN Retry ELSE Retry + CallLimit)

Timely == \A p \in Processes : OnTime(process[p]) /\ InTime(process[p])

TimelyInv == ElectionOK /\ Timely

-----------------------------------------------------------------------------
(* A step of one process leaves the others as they are.                         *)

LEMMA OneMoves ==
  ASSUME ElectionOK, NEW p \in Processes, NEW x, Becomes(p, x)
  PROVE  /\ process'[p] = x
         /\ \A q \in Processes \ {p} : process'[q] = process[q]
         /\ x \in Election => ElectionOK'
BY DEF ElectionOK, Becomes

LEMMA NewInTime ==
  /\ New \in Election /\ OnTime(New) /\ InTime(New) /\ New.seen = FALSE /\ New.fresh = FALSE
  /\ New.mode = "standby" /\ New.pc = "wait"
<1>1. New \in Election /\ New.since = Retry /\ New.began = 0
  BY LeaseAssumption DEF New, Election
<1>2. New.mode = "standby" /\ New.pc = "wait" /\ New.seen = FALSE /\ New.fresh = FALSE
  BY DEF New
<1> QED
  BY <1>1, <1>2, LeaseAssumption DEF OnTime, InTime

LEMMA DeadInTime ==
  /\ Dead \in Election /\ OnTime(Dead) /\ InTime(Dead) /\ Dead.seen = FALSE /\ Dead.fresh = FALSE
  /\ Dead.mode = "dead" /\ Dead.pc = "wait"
<1>1. Dead \in Election /\ Dead.since = 0 /\ Dead.began = 0
  BY LeaseAssumption DEF Dead, New, Election
<1>2. Dead.mode = "dead" /\ Dead.pc = "wait" /\ Dead.seen = FALSE /\ Dead.fresh = FALSE
  BY DEF Dead, New
<1> QED
  BY <1>1, <1>2, LeaseAssumption DEF OnTime, InTime

(* The end of an attempt that failed keeps a leader only within its deadline.    *)
LEMMA FailureInTime ==
  ASSUME NEW x \in Election
  PROVE  /\ AfterFailure(x) \in Election /\ OnTime(AfterFailure(x)) /\ InTime(AfterFailure(x))
         /\ AfterFailure(x).pc = "wait" /\ AfterFailure(x).fresh = FALSE
         /\ \/ AfterFailure(x) = Dead
            \/ /\ AfterFailure(x).mode = x.mode /\ AfterFailure(x).confirmed = x.confirmed
               /\ AfterFailure(x).seen = x.seen /\ AfterFailure(x).observed = x.observed
<1>1. CASE x.mode = "leading" /\ x.confirmed >= Deadline
  <2>1. AfterFailure(x) = Dead
    BY <1>1 DEF AfterFailure
  <2> QED
    BY <2>1, DeadInTime
<1>2. CASE ~(x.mode = "leading" /\ x.confirmed >= Deadline)
  <2>1. AfterFailure(x) = Waits(x)
    BY <1>2 DEF AfterFailure
  <2>2. /\ Waits(x).mode = x.mode /\ Waits(x).confirmed = x.confirmed
        /\ Waits(x).seen = x.seen /\ Waits(x).observed = x.observed
        /\ Waits(x).pc = "wait" /\ Waits(x).since = 0 /\ Waits(x).fresh = FALSE
        /\ Waits(x).began = 0
    BY DEF Waits, Election
  <2>3. Waits(x) \in Election
    BY DEF Waits, Election
  <2>4. OnTime(Waits(x)) /\ InTime(Waits(x))
    BY <1>2, <2>2, LeaseAssumption DEF OnTime, InTime, Election
  <2> QED
    BY <2>1, <2>2, <2>3, <2>4
<1> QED
  BY <1>1, <1>2

(* What a process reads changes only what it observed.                          *)
LEMMA ObservedIs ==
  ASSUME NEW x \in Election
  PROVE  /\ Observed(x) \in Election
         /\ Observed(x).mode = x.mode /\ Observed(x).pc = x.pc /\ Observed(x).since = x.since
         /\ Observed(x).began = x.began /\ Observed(x).confirmed = x.confirmed
         /\ Observed(x).fresh = x.fresh
         /\ Observed(x).observed = IF x.seen THEN x.observed ELSE x.began
BY DEF Observed, Election

(* A tick makes everything one older.                                         *)
LEMMA OlderIs ==
  ASSUME NEW x \in Election
  PROVE  /\ Older(x) \in Election
         /\ Older(x).mode = x.mode /\ Older(x).pc = x.pc /\ Older(x).fresh = x.fresh
         /\ Older(x).seen = x.seen
         /\ x.mode # "dead" => Older(x).since = x.since + 1
         /\ x.mode = "dead" => Older(x) = x
         /\ x.mode # "dead" /\ x.pc = "read" => Older(x).began = x.began + 1
         /\ x.mode # "dead" /\ x.pc = "wait" => Older(x).began = 0
         /\ Older(x).observed <= x.observed + 1
         /\ x.mode = "leading" => Older(x).confirmed <= x.confirmed + 1
         /\ x.mode = "leading" /\ x.confirmed < Limit => Older(x).confirmed = x.confirmed + 1
<1>1. CASE x.mode = "dead"
  BY <1>1 DEF Older, Election
<1>2. CASE x.mode # "dead"
  <2> DEFINE elapsed   == x.since + 1
             began     == IF x.pc = "wait" THEN 0 ELSE x.began + 1
             observed  == IF x.seen /\ x.mode = "standby"
                          THEN UpTo(x.observed, Duration + 2 * CallLimit) ELSE 0
             confirmed == IF x.mode = "leading" THEN UpTo(x.confirmed, Limit + 1) ELSE 0
             stall     == IF x.hangs THEN UpTo(x.stall, WatchLimit) ELSE 0
  <2>1. elapsed \in Nat /\ elapsed = x.since + 1 /\ began \in Nat /\ (x.pc = "read" => began = x.began + 1)
       /\ (x.pc = "wait" => began = 0)
    BY DEF Election
  <2>2. observed \in Nat /\ observed <= x.observed + 1
    BY LeaseAssumption DEF Election, UpTo
  <2>3. /\ confirmed \in Nat
        /\ x.mode = "leading" => confirmed <= x.confirmed + 1
        /\ x.mode = "leading" /\ x.confirmed < Limit => confirmed = x.confirmed + 1
    BY LeaseAssumption DEF Election, UpTo, Limit
  <2>4. stall \in Nat
    BY LeaseAssumption DEF Election, UpTo
  <2>5. Older(x) = [x EXCEPT !.since = elapsed, !.began = began, !.observed = observed,
                             !.confirmed = confirmed, !.stall = stall]
    BY <1>2 DEF Older, Election
  <2> HIDE DEF elapsed, began, observed, confirmed, stall
  <2>6. Older(x) \in Election
    <3>1. [x EXCEPT !.since = elapsed, !.began = began, !.observed = observed,
                    !.confirmed = confirmed, !.stall = stall] \in Election
      BY <2>1, <2>2, <2>3, <2>4 DEF Election
    <3> QED
      BY <3>1, <2>5
  <2>7. /\ Older(x).mode = x.mode /\ Older(x).pc = x.pc /\ Older(x).fresh = x.fresh
        /\ Older(x).seen = x.seen
        /\ Older(x).since = elapsed /\ Older(x).began = began
        /\ Older(x).observed = observed /\ Older(x).confirmed = confirmed
    BY <2>5 DEF Election
  <2>8. /\ x.mode # "dead" => Older(x).since = x.since + 1
        /\ x.mode # "dead" /\ x.pc = "read" => Older(x).began = x.began + 1
        /\ x.mode # "dead" /\ x.pc = "wait" => Older(x).began = 0
        /\ Older(x).observed <= x.observed + 1
        /\ x.mode = "leading" => Older(x).confirmed <= x.confirmed + 1
        /\ x.mode = "leading" /\ x.confirmed < Limit => Older(x).confirmed = x.confirmed + 1
    BY <2>1, <2>2, <2>3, <2>7
  <2> QED
    BY <1>2, <2>6, <2>7, <2>8, Zenon
<1> QED
  BY <1>1, <1>2

(* A process whose Lease another one replaced has not seen it.                 *)
LEMMA UnseenIs ==
  ASSUME NEW x \in Election
  PROVE  /\ Unseen(x) \in Election
         /\ Unseen(x).mode = x.mode /\ Unseen(x).pc = x.pc /\ Unseen(x).since = x.since
         /\ Unseen(x).began = x.began /\ Unseen(x).confirmed = x.confirmed
         /\ Unseen(x).seen = FALSE /\ Unseen(x).fresh = FALSE
BY DEF Unseen, Election

(* What the attempt of a process leaves of it.                                *)
LEMMA StartIs ==
  ASSUME NEW x \in Election, OnTime(x), InTime(x), x.pc = "wait", x.since = Retry,
         x.mode # "dead"
  PROVE  LET y == [x EXCEPT !.pc = "read", !.since = 0]
         IN y \in Election /\ OnTime(y) /\ InTime(y)
<1> DEFINE y == [x EXCEPT !.pc = "read", !.since = 0]
<1>1. y \in Election
  BY DEF Election
<1>2. y.mode = x.mode /\ y.pc = "read" /\ y.since = 0 /\ y.began = 0 /\ y.confirmed = x.confirmed
  BY DEF Election, OnTime
<1> HIDE DEF y
<1>3. OnTime(y) /\ InTime(y)
  BY <1>2, LeaseAssumption DEF OnTime, InTime, Election
<1>4. QED
  BY <1>1, <1>3 DEF y

LEMMA WriteIs ==
  ASSUME NEW x \in Election, OnTime(x), InTime(x), x.pc = "read"
  PROVE  LET y == [x EXCEPT !.pc = "write", !.since = 0, !.fresh = TRUE]
         IN y \in Election /\ OnTime(y) /\ InTime(y)
<1> DEFINE y == [x EXCEPT !.pc = "write", !.since = 0, !.fresh = TRUE]
<1>1. y \in Election
  BY DEF Election
<1>2. y.mode = x.mode /\ y.pc = "write" /\ y.since = 0 /\ y.confirmed = x.confirmed
  BY DEF Election
<1> HIDE DEF y
<1>3. OnTime(y) /\ InTime(y)
  BY <1>2, LeaseAssumption DEF OnTime, InTime, Election
<1>4. QED
  BY <1>1, <1>3 DEF y

LEMMA WaitsIs ==
  ASSUME NEW x \in Election
  PROVE  /\ Waits(x) \in Election /\ OnTime(Waits(x))
         /\ Waits(x).mode = x.mode /\ Waits(x).pc = "wait" /\ Waits(x).since = 0
         /\ Waits(x).confirmed = x.confirmed /\ Waits(x).fresh = FALSE
         /\ Waits(x).seen = x.seen /\ Waits(x).observed = x.observed /\ Waits(x).began = 0
<1>1. Waits(x) \in Election
  BY DEF Waits, Election
<1>2. /\ Waits(x).mode = x.mode /\ Waits(x).pc = "wait" /\ Waits(x).since = 0
      /\ Waits(x).confirmed = x.confirmed /\ Waits(x).fresh = FALSE
      /\ Waits(x).seen = x.seen /\ Waits(x).observed = x.observed /\ Waits(x).began = 0
  BY DEF Waits, Election
<1>3. OnTime(Waits(x))
  BY <1>2, LeaseAssumption DEF OnTime
<1> QED
  BY <1>1, <1>2, <1>3

LEMMA ConfirmedIs ==
  ASSUME NEW x \in Election
  PROVE  LET y == [Waits(x) EXCEPT !.mode = "leading", !.confirmed = 0]
         IN /\ y \in Election /\ OnTime(y) /\ InTime(y)
            /\ y.mode = "leading" /\ y.pc = "wait" /\ y.confirmed = 0 /\ y.fresh = FALSE
<1> DEFINE y == [Waits(x) EXCEPT !.mode = "leading", !.confirmed = 0]
<1>1. y \in Election
  BY WaitsIs DEF Election
<1>2. y.mode = "leading" /\ y.pc = "wait" /\ y.since = 0 /\ y.confirmed = 0 /\ y.fresh = FALSE
      /\ y.began = 0
  BY WaitsIs DEF Election
<1> HIDE DEF y
<1>3. OnTime(y) /\ InTime(y)
  BY <1>2, LeaseAssumption DEF OnTime, InTime
<1>4. QED
  BY <1>1, <1>2, <1>3 DEF y

-----------------------------------------------------------------------------
(* The invariant on time.                                                    *)

LEMMA InitTimely == Init => TimelyInv
BY NewInTime DEF Init, TimelyInv, ElectionOK, Timely

LEMMA OneTimely ==
  ASSUME TimelyInv, NEW p \in Processes, NEW x \in Election, OnTime(x), InTime(x), Becomes(p, x)
  PROVE  TimelyInv'
<1>1. ElectionOK'
  BY OneMoves DEF TimelyInv
<1>2. ASSUME NEW q \in Processes PROVE OnTime(process[q])' /\ InTime(process[q])'
  <2>1. CASE q = p
    BY <2>1, OneMoves DEF TimelyInv, OnTime, InTime
  <2>2. CASE q # p
    <3>1. process'[q] = process[q]
      BY <2>2, OneMoves DEF TimelyInv
    <3> QED
      BY <3>1 DEF TimelyInv, Timely, OnTime, InTime
  <2> QED
    BY <2>1, <2>2
<1> QED
  BY <1>1, <1>2 DEF TimelyInv, Timely

LEMMA TimelyStep == TimelyInv /\ [Next]_vars => TimelyInv'
<1> SUFFICES ASSUME TimelyInv, [Next]_vars PROVE TimelyInv'
  OBVIOUS
<1> USE DEF TimelyInv
<1>0. \A p \in Processes : process[p] \in Election /\ OnTime(process[p]) /\ InTime(process[p])
  BY DEF ElectionOK, Timely
<1>1. ASSUME NEW p \in Processes, Start(p) PROVE TimelyInv'
  BY <1>0, <1>1, StartIs, OneTimely DEF Start
<1>2. ASSUME NEW p \in Processes, Read(p) PROVE TimelyInv'
  <2> DEFINE x == Observed(process[p])
  <2>1. x \in Election /\ OnTime(x) /\ InTime(x) /\ x.pc = "read" /\ x.mode = process[p].mode
    BY <1>0, <1>2, ObservedIs DEF Read, OnTime, InTime
  <2>2. \/ Becomes(p, [x EXCEPT !.pc = "write", !.since = 0, !.fresh = TRUE])
        \/ Becomes(p, Dead)
        \/ x.mode # "leading" /\ Becomes(p, Waits(x))
    BY <1>2 DEF Read
  <2> HIDE DEF x
  <2>3. x.mode # "leading" => InTime(Waits(x))
    BY <2>1, WaitsIs DEF InTime
  <2> QED
    BY <2>1, <2>2, <2>3, WriteIs, WaitsIs, DeadInTime, OneTimely
<1>3. ASSUME NEW p \in Processes, Write(p) PROVE TimelyInv'
  <2>1. CASE ~process[p].fresh
    BY <1>0, <1>3, <2>1, FailureInTime, OneTimely DEF Write
  <2>2. CASE process[p].fresh
    <3>1. ASSUME NEW q \in Processes
          PROVE  process'[q] \in Election /\ OnTime(process[q])' /\ InTime(process[q])'
      <4> DEFINE x == Unseen(process[q])
      <4>1. x \in Election /\ OnTime(x) /\ InTime(x) /\ x.pc = process[q].pc
        BY <1>0, UnseenIs DEF OnTime, InTime
      <4>2. CASE q = p
        <5> DEFINE y == [x EXCEPT !.pc = "reply"]
        <5>1. process'[q] = y /\ x.pc = "write"
          BY <1>3, <2>2, <4>1, <4>2 DEF Write
        <5>2. y \in Election /\ y.pc = "reply" /\ y.since = x.since /\ y.mode = x.mode
              /\ y.confirmed = x.confirmed
          BY <4>1 DEF Election
        <5> HIDE DEF x, y
        <5>3. OnTime(y) /\ InTime(y)
          BY <4>1, <5>1, <5>2 DEF OnTime, InTime
        <5> QED
          BY <5>1, <5>2, <5>3 DEF OnTime, InTime
      <4>3. CASE q # p
        <5>1. process'[q] = Dead \/ process'[q] = x
          BY <1>3, <2>2, <4>3 DEF Write
        <5> HIDE DEF x
        <5> QED
          BY <4>1, <5>1, DeadInTime DEF OnTime, InTime
      <4> QED
        BY <4>2, <4>3
    <3>2. process' \in [Processes -> Election]
      <4>1. process' = [q \in Processes |-> process'[q]]
        BY <1>3, <2>2 DEF Write
      <4> QED
        BY <3>1, <4>1
    <3> QED
      BY <3>1, <3>2 DEF ElectionOK, Timely
  <2> QED
    BY <2>1, <2>2
<1>4. ASSUME NEW p \in Processes, Confirm(p) PROVE TimelyInv'
  BY <1>0, <1>4, ConfirmedIs, OneTimely DEF Confirm
<1>5. ASSUME NEW p \in Processes, CallFails(p) PROVE TimelyInv'
  BY <1>0, <1>5, FailureInTime, OneTimely DEF CallFails
<1>6. ASSUME NEW p \in Processes, Hang(p) PROVE TimelyInv'
  <2> DEFINE y == [process[p] EXCEPT !.hangs = TRUE]
  <2>1. Becomes(p, y)
    BY <1>6 DEF Hang
  <2>2. y \in Election /\ y.mode = process[p].mode /\ y.pc = process[p].pc
        /\ y.since = process[p].since /\ y.began = process[p].began
        /\ y.confirmed = process[p].confirmed
    BY <1>0 DEF Election
  <2> HIDE DEF y
  <2>3. OnTime(y) /\ InTime(y)
    BY <1>0, <2>2 DEF OnTime, InTime
  <2> QED
    BY <2>1, <2>2, <2>3, OneTimely
<1>7. ASSUME NEW p \in Processes, Watch(p) \/ Crash(p) PROVE TimelyInv'
  BY <1>7, DeadInTime, OneTimely DEF Watch, Crash
<1>8. ASSUME NEW p \in Processes, Restart(p) PROVE TimelyInv'
  BY <1>8, NewInTime, OneTimely DEF Restart
<1>9. CASE Tick
  <2>1. ASSUME NEW q \in Processes
        PROVE  process'[q] \in Election /\ OnTime(process[q])' /\ InTime(process[q])'
    <3> DEFINE x == process[q]
    <3>1. process'[q] = Older(x)
      BY <1>9 DEF Tick
    <3>2. x.mode # "dead" => x.since < IF x.pc = "wait" THEN Retry ELSE CallLimit
      BY <1>9 DEF Tick
    <3>3. x \in Election /\ OnTime(x) /\ InTime(x)
      BY <1>0
    <3> HIDE DEF x
    <3>4. Older(x) \in Election
      BY <3>3, OlderIs
    <3>5. CASE x.mode = "dead"
      <4>1. Older(x) = x
        BY <3>3, <3>5, OlderIs
      <4> QED
        BY <3>1, <3>3, <4>1 DEF OnTime, InTime
    <3>6. CASE x.mode # "dead"
      <4>1. /\ Older(x).mode = x.mode /\ Older(x).pc = x.pc /\ Older(x).since = x.since + 1
            /\ x.pc = "read" => Older(x).began = x.began + 1
            /\ x.pc = "wait" => Older(x).began = 0
            /\ x.mode = "leading" => Older(x).confirmed <= x.confirmed + 1
        BY <3>3, <3>6, OlderIs
      <4>2. OnTime(Older(x))
        BY <3>2, <3>3, <3>6, <4>1, LeaseAssumption DEF OnTime, Election
      <4>3. InTime(Older(x))
        BY <3>3, <3>4, <4>1, LeaseAssumption DEF InTime, Election
      <4> QED
        BY <3>1, <3>4, <4>2, <4>3 DEF OnTime, InTime
    <3> QED
      BY <3>5, <3>6
  <2>2. process' \in [Processes -> Election]
    <3>1. process' = [q \in Processes |-> process'[q]]
      BY <1>9 DEF Tick
    <3> QED
      BY <2>1, <3>1
  <2> QED
    BY <2>1, <2>2 DEF ElectionOK, Timely
<1>10. CASE UNCHANGED vars
  BY <1>10 DEF vars, ElectionOK, Timely, OnTime, InTime
<1> QED
  BY <1>1, <1>2, <1>3, <1>4, <1>5, <1>6, <1>7, <1>8, <1>9, <1>10 DEF Next, Attempt

LEMMA TimelyInvariant == Init /\ [][Next]_vars => []TimelyInv
BY InitTimely, TimelyStep, PTL

(* "Fail-stop on renewal loss": whatever fails, no process works as long as        *)
(* Limit after the last renewal that Kubernetes confirmed to it                  *)
(* (leadership.py:120).                                                      *)
LEMMA StaleLeaderAlwaysStops == Init /\ [][Next]_vars => []StaleLeaderStops
<1>1. TimelyInv => StaleLeaderStops
  <2> SUFFICES ASSUME TimelyInv, NEW p \in Processes, Leads(p)
               PROVE  process[p].confirmed < Limit
    BY DEF StaleLeaderStops
  <2>1. process[p] \in Election /\ OnTime(process[p]) /\ InTime(process[p])
    BY DEF TimelyInv, ElectionOK, Timely
  <2> QED
    BY <2>1, LeaseAssumption DEF Leads, OnTime, InTime, Election, Limit
<1> QED
  BY <1>1, TimelyInvariant, PTL

-----------------------------------------------------------------------------
(* The invariant on the Lease. A standby first saw the Lease as it is no longer    *)
(* before the renewal it waits for than its own read took; and nobody has read   *)
(* that renewal and found it expired, as long as its answer is under way.        *)

Kept == Duration - 2 * CallLimit    \* for this long a renewal keeps the Lease

AnswerDue(p) ==
  process[p].pc = "reply" =>
    /\ holder = p
    /\ \A q \in Processes \ {p} :
         /\ process[q].fresh = FALSE
         /\ process[q].seen = TRUE => process[q].observed <= CallLimit + process[p].since

Renewed(p) ==
  Leads(p) =>
    /\ holder # p => process[p].confirmed >= Kept
    /\ holder = p =>
         \A q \in Processes \ {p} :
           /\ process[q].fresh = TRUE => process[p].confirmed >= Kept
           /\ process[q].seen = TRUE => process[q].observed <= process[p].confirmed + 2 * CallLimit

LeaseInv == TimelyInv /\ \A p \in Processes : AnswerDue(p) /\ Renewed(p)

LEMMA InitLease == Init => LeaseInv
BY InitTimely, NewInTime DEF Init, LeaseInv, AnswerDue, Renewed, Leads

(* A step of p that changes nobody's Lease keeps the invariant when p keeps its   *)
(* renewal, or stands down, and shows no more of the Lease than it did.          *)
LEMMA OneKeeps ==
  ASSUME LeaseInv, TimelyInv', NEW p \in Processes, NEW x \in Election, Becomes(p, x), 0 < Kept,
         x.pc = "reply" => x.mode # "dead",
         x.pc = "reply" => process[p].pc = "reply" /\ x.since >= process[p].since,
         x.mode = "leading" => process[p].mode = "leading" /\ x.confirmed >= process[p].confirmed,
         \/ x.fresh = FALSE
         \/ process[p].fresh = TRUE
         \/ holder \in {"none", p}
         \/ x.seen = TRUE /\ x.observed - x.began >= Duration,
         \/ x.seen = FALSE
         \/ process[p].seen = TRUE /\ x.observed = process[p].observed
         \/ x.observed <= CallLimit
  PROVE  LeaseInv'
<1>1. /\ process'[p] = x
      /\ \A q \in Processes \ {p} : process'[q] = process[q]
      /\ holder' = IF x.mode = "dead" /\ holder = p THEN "gone" ELSE holder
  BY OneMoves DEF LeaseInv, TimelyInv, Becomes
<1>2. \A r \in Processes : process[r] \in Election /\ OnTime(process[r]) /\ AnswerDue(r) /\ Renewed(r)
  BY DEF LeaseInv, TimelyInv, ElectionOK, Timely
<1>3. AnswerDue(p)'
  <2> SUFFICES ASSUME x.pc = "reply" PROVE
        /\ holder' = p
        /\ \A q \in Processes \ {p} :
             /\ process[q].fresh = FALSE
             /\ process[q].seen = TRUE => process[q].observed <= CallLimit + x.since
    BY <1>1 DEF AnswerDue
  <2>1. /\ holder = p
        /\ \A q \in Processes \ {p} :
             /\ process[q].fresh = FALSE
             /\ process[q].seen = TRUE => process[q].observed <= CallLimit + process[p].since
    BY <1>2 DEF AnswerDue
  <2>2. holder' = p
    BY <1>1, <2>1
  <2>3. \A q \in Processes : process[q].observed \in Nat
    BY <1>2 DEF Election
  <2>4. process[p].since \in Nat /\ x.since \in Nat /\ x.since >= process[p].since
    BY <1>2 DEF Election
  <2>5. \A q \in Processes \ {p} :
          process[q].seen = TRUE => process[q].observed <= CallLimit + x.since
    BY <2>1, <2>3, <2>4, LeaseAssumption
  <2> QED
    BY <2>1, <2>2, <2>5
<1>4. Renewed(p)'
  <2> SUFFICES ASSUME x.mode = "leading" PROVE
        /\ holder # p => x.confirmed >= Kept
        /\ holder = p =>
             \A q \in Processes \ {p} :
               /\ process[q].fresh = TRUE => x.confirmed >= Kept
               /\ process[q].seen = TRUE => process[q].observed <= x.confirmed + 2 * CallLimit
    BY <1>1 DEF Renewed, Leads, Kept
  <2> QED
    BY <1>2, LeaseAssumption DEF Renewed, Leads, Election, Kept
<1>5. ASSUME NEW r \in Processes \ {p} PROVE AnswerDue(r)'
  <2> SUFFICES ASSUME process[r].pc = "reply" PROVE
        /\ holder' = r
        /\ \A q \in Processes \ {r} :
             /\ process'[q].fresh = FALSE
             /\ process'[q].seen = TRUE => process'[q].observed <= CallLimit + process[r].since
    BY <1>1 DEF AnswerDue
  <2>1. /\ holder = r
        /\ \A q \in Processes \ {r} :
             /\ process[q].fresh = FALSE
             /\ process[q].seen = TRUE => process[q].observed <= CallLimit + process[r].since
    BY <1>2 DEF AnswerDue
  <2>2. process[r].since \in Nat /\ process[r].since <= CallLimit
    BY <1>2 DEF OnTime, Election
  <2>3. x.seen = TRUE => x.observed <= CallLimit + process[r].since
    BY <2>1, <2>2, LeaseAssumption DEF Election
  <2>4. x.fresh = FALSE
    <3>1. ~(x.seen = TRUE /\ x.observed - x.began >= Duration)
      BY <2>2, <2>3, LeaseAssumption DEF Election, Kept
    <3>2. process[p].fresh = FALSE /\ holder \notin {"none", p}
      BY <2>1, ProcessAssumption
    <3> QED
      BY <3>1, <3>2 DEF Election
  <2>5. holder' = r
    BY <1>1, <2>1
  <2> QED
    BY <1>1, <2>1, <2>3, <2>4, <2>5
<1>6. ASSUME NEW r \in Processes \ {p} PROVE Renewed(r)'
  <2> SUFFICES ASSUME process[r].mode = "leading" PROVE
        /\ holder' # r => process[r].confirmed >= Kept
        /\ holder' = r =>
             \A q \in Processes \ {r} :
               /\ process'[q].fresh = TRUE => process[r].confirmed >= Kept
               /\ process'[q].seen = TRUE => process'[q].observed <= process[r].confirmed + 2 * CallLimit
    BY <1>1 DEF Renewed, Leads, Kept
  <2>1. /\ holder # r => process[r].confirmed >= Kept
        /\ holder = r =>
             \A q \in Processes \ {r} :
               /\ process[q].fresh = TRUE => process[r].confirmed >= Kept
               /\ process[q].seen = TRUE => process[q].observed <= process[r].confirmed + 2 * CallLimit
    BY <1>2 DEF Renewed, Leads
  <2>2. holder' = r <=> holder = r
    BY <1>1, ProcessAssumption
  <2>3. ASSUME holder = r
        PROVE  /\ x.seen = TRUE => x.observed <= process[r].confirmed + 2 * CallLimit
               /\ x.fresh = TRUE => process[r].confirmed >= Kept
    <3>1. process[r].confirmed \in Nat /\ x.observed \in Nat /\ x.began \in Nat
      BY <1>2 DEF Election
    <3>2. x.seen = TRUE => x.observed <= process[r].confirmed + 2 * CallLimit
      BY <2>1, <2>3, <3>1, LeaseAssumption
    <3>3. x.seen = TRUE /\ x.observed - x.began >= Duration => process[r].confirmed >= Kept
      BY <3>1, <3>2, LeaseAssumption DEF Kept
    <3>4. process[p].fresh = TRUE => process[r].confirmed >= Kept
      BY <2>1, <2>3
    <3>5. holder \notin {"none", p}
      BY <2>3, ProcessAssumption
    <3> QED
      BY <3>2, <3>3, <3>4, <3>5
  <2> QED
    BY <1>1, <2>1, <2>2, <2>3
<1> QED
  BY <1>3, <1>4, <1>5, <1>6 DEF LeaseInv

LEMMA LeaseStep == LeaseInv /\ 0 < Kept /\ [Next]_vars => LeaseInv'
<1> SUFFICES ASSUME LeaseInv, 0 < Kept, [Next]_vars PROVE LeaseInv'
  OBVIOUS
<1>a. TimelyInv /\ TimelyInv'
  BY TimelyStep DEF LeaseInv
<1>0. \A p \in Processes : /\ process[p] \in Election /\ OnTime(process[p])
                           /\ AnswerDue(p) /\ Renewed(p)
  BY DEF LeaseInv, TimelyInv, ElectionOK, Timely
<1>d. ASSUME NEW p \in Processes, Becomes(p, Dead) PROVE LeaseInv'
  BY <1>a, <1>d, DeadInTime, OneKeeps
<1>f. ASSUME NEW p \in Processes, Becomes(p, AfterFailure(process[p])) PROVE LeaseInv'
  <2> DEFINE x == AfterFailure(process[p])
  <2>1. /\ x \in Election /\ x.pc = "wait" /\ x.fresh = FALSE
        /\ \/ x = Dead
           \/ /\ x.mode = process[p].mode /\ x.confirmed = process[p].confirmed
              /\ x.seen = process[p].seen /\ x.observed = process[p].observed
    BY <1>0, FailureInTime
  <2>2. Becomes(p, x)
    BY <1>f
  <2> HIDE DEF x
  <2>3. CASE x = Dead
    BY <1>d, <2>2, <2>3
  <2>4. CASE x # Dead
    <3>1. /\ x.mode = process[p].mode /\ x.confirmed = process[p].confirmed
          /\ x.seen = process[p].seen /\ x.observed = process[p].observed
      BY <2>1, <2>4
    <3>2. x.mode = "leading" => x.confirmed >= process[p].confirmed
      BY <1>0, <2>1, <3>1 DEF Election
    <3>3. x.seen = FALSE \/ process[p].seen = TRUE
      BY <2>1, <3>1 DEF Election
    <3> QED
      BY <1>a, <2>1, <2>2, <3>1, <3>2, <3>3, OneKeeps
  <2> QED
    BY <2>3, <2>4
<1>1. ASSUME NEW p \in Processes, Start(p) PROVE LeaseInv'
  <2> DEFINE x == [process[p] EXCEPT !.pc = "read", !.since = 0]
  <2>1. Becomes(p, x)
    BY <1>1 DEF Start
  <2>2. /\ x \in Election /\ x.pc = "read" /\ x.mode = process[p].mode
        /\ x.confirmed = process[p].confirmed /\ x.observed = process[p].observed
        /\ x.seen = process[p].seen /\ x.fresh = process[p].fresh
    BY <1>0 DEF Election
  <2> HIDE DEF x
  <2>3. x.confirmed >= process[p].confirmed
    BY <2>2 DEF Election
  <2>4. x.fresh = FALSE \/ process[p].fresh = TRUE
    BY <2>2 DEF Election
  <2>5. x.seen = FALSE \/ process[p].seen = TRUE
    BY <2>2 DEF Election
  <2> QED
    BY <1>a, <2>1, <2>2, <2>3, <2>4, <2>5, OneKeeps
<1>2. ASSUME NEW p \in Processes, Read(p) PROVE LeaseInv'
  <2> DEFINE o == Observed(process[p])
  <2>1. /\ o \in Election /\ o.mode = process[p].mode /\ o.pc = "read"
        /\ o.confirmed = process[p].confirmed
        /\ o.observed = IF process[p].seen THEN process[p].observed ELSE process[p].began
    BY <1>0, <1>2, ObservedIs DEF Read
  <2>s. o.seen = TRUE
    BY <1>0 DEF Observed, Election
  <2>2. process[p].began <= CallLimit
    BY <1>0, <1>2 DEF Read, OnTime
  <2>3. (process[p].seen = TRUE /\ o.observed = process[p].observed) \/ o.observed <= CallLimit
    <3>1. CASE process[p].seen = TRUE
      BY <2>1, <3>1
    <3>2. CASE process[p].seen # TRUE
      <4>1. process[p].seen = FALSE
        BY <1>0, <3>2 DEF Election
      <4>2. o.observed = process[p].began
        BY <2>1, <4>1
      <4> QED
        BY <2>2, <4>2
    <3> QED
      BY <3>1, <3>2
  <2>4. \/ /\ holder \in {"none", p} \/ o.observed - o.began >= Duration
           /\ Becomes(p, [o EXCEPT !.pc = "write", !.since = 0, !.fresh = TRUE])
        \/ Becomes(p, Dead)
        \/ o.mode # "leading" /\ Becomes(p, Waits(o))
    BY <1>2 DEF Read, Expired
  <2> HIDE DEF o
  <2>5. CASE /\ holder \in {"none", p} \/ o.observed - o.began >= Duration
             /\ Becomes(p, [o EXCEPT !.pc = "write", !.since = 0, !.fresh = TRUE])
    <3> DEFINE x == [o EXCEPT !.pc = "write", !.since = 0, !.fresh = TRUE]
    <3>1. /\ x \in Election /\ x.pc = "write" /\ x.mode = o.mode /\ x.confirmed = o.confirmed
          /\ x.observed = o.observed /\ x.began = o.began
      BY <2>1 DEF Election
    <3>2. x.seen = TRUE
      BY <2>1, <2>s DEF Election
    <3>3. Becomes(p, x)
      BY <2>5
    <3>4. holder \in {"none", p} \/ o.observed - o.began >= Duration
      BY <2>5
    <3> HIDE DEF x
    <3>5. x.confirmed >= process[p].confirmed
      BY <2>1, <3>1 DEF Election
    <3>6. holder \in {"none", p} \/ (x.seen = TRUE /\ x.observed - x.began >= Duration)
      BY <3>1, <3>2, <3>4
    <3>7. (process[p].seen = TRUE /\ x.observed = process[p].observed) \/ x.observed <= CallLimit
      BY <2>3, <3>1
    <3> QED
      BY <1>a, <2>1, <3>1, <3>3, <3>5, <3>6, <3>7, OneKeeps
  <2>6. CASE o.mode # "leading" /\ Becomes(p, Waits(o))
    <3> DEFINE x == Waits(o)
    <3>1. /\ x \in Election /\ x.mode = o.mode /\ x.pc = "wait" /\ x.fresh = FALSE
          /\ x.seen = o.seen /\ x.observed = o.observed
      BY <2>1, WaitsIs
    <3>2. Becomes(p, x)
      BY <2>6
    <3> HIDE DEF x
    <3> QED
      BY <1>a, <2>1, <2>3, <2>6, <3>1, <3>2, OneKeeps
  <2> QED
    BY <1>d, <2>4, <2>5, <2>6
<1>3. ASSUME NEW p \in Processes, Write(p) PROVE LeaseInv'
  <2>1. CASE process[p].fresh # TRUE
    <3>1. process[p].fresh = FALSE
      BY <1>0, <2>1 DEF Election
    <3> QED
      BY <1>f, <1>3, <3>1 DEF Write
  <2>2. CASE process[p].fresh = TRUE
    <3>1. holder' = p
      BY <1>3, <2>2 DEF Write
    <3>2. ASSUME NEW q \in Processes \ {p}
          PROVE  /\ process'[q].seen = FALSE /\ process'[q].fresh = FALSE
                 /\ process'[q].pc = "reply" => process[q].pc = "reply"
                 /\ process'[q].mode = "leading" =>
                      process[q].mode = "leading" /\ process'[q].confirmed = process[q].confirmed
      <4> DEFINE x == Unseen(process[q])
      <4>1. process'[q] = Dead \/ process'[q] = x
        BY <1>3, <2>2 DEF Write
      <4>2. /\ x.seen = FALSE /\ x.fresh = FALSE /\ x.pc = process[q].pc
            /\ x.mode = process[q].mode /\ x.confirmed = process[q].confirmed
        BY <1>0, UnseenIs
      <4> HIDE DEF x
      <4> QED
        BY <4>1, <4>2, DeadInTime
    <3>3. AnswerDue(p)' /\ Renewed(p)'
      BY <3>1, <3>2 DEF AnswerDue, Renewed
    <3>4. ASSUME NEW r \in Processes \ {p} PROVE AnswerDue(r)' /\ Renewed(r)'
      <4>1. process[r].pc # "reply"
        BY <1>0, <2>2 DEF AnswerDue
      <4>2. process'[r].mode = "leading" => process'[r].confirmed >= Kept
        BY <1>0, <2>2, <3>2 DEF Renewed, Leads
      <4> QED
        BY <3>1, <3>2, <4>1, <4>2 DEF AnswerDue, Renewed, Leads, Kept
    <3> QED
      BY <1>a, <3>3, <3>4 DEF LeaseInv
  <2> QED
    BY <2>1, <2>2
<1>4. ASSUME NEW p \in Processes, Confirm(p) PROVE LeaseInv'
  <2> DEFINE x == [Waits(process[p]) EXCEPT !.mode = "leading", !.confirmed = 0]
  <2>1. /\ x \in Election /\ x.mode = "leading" /\ x.pc = "wait" /\ x.confirmed = 0
    BY <1>0, ConfirmedIs
  <2>2. Becomes(p, x) /\ process[p].pc = "reply"
    BY <1>4 DEF Confirm
  <2> HIDE DEF x
  <2>3. /\ process'[p] = x
        /\ \A q \in Processes \ {p} : process'[q] = process[q]
        /\ holder' = p
    BY <1>0, <1>a, <2>1, <2>2, OneMoves DEF TimelyInv, Becomes, AnswerDue
  <2>4. /\ holder = p
        /\ \A q \in Processes \ {p} :
             /\ process[q].fresh = FALSE
             /\ process[q].seen = TRUE => process[q].observed <= CallLimit + process[p].since
    BY <1>0, <2>2 DEF AnswerDue
  <2>5. process[p].since <= CallLimit /\ process[p].since \in Nat
    BY <1>0, <2>2 DEF OnTime, Election
  <2>6. AnswerDue(p)'
    BY <2>1, <2>3 DEF AnswerDue
  <2>7. Renewed(p)'
    <3>1. \A q \in Processes \ {p} :
            process[q].seen = TRUE => process[q].observed <= x.confirmed + 2 * CallLimit
      BY <1>0, <2>1, <2>4, <2>5, LeaseAssumption DEF Election
    <3> QED
      BY <2>3, <2>4, <3>1 DEF Renewed
  <2>8. ASSUME NEW r \in Processes \ {p} PROVE AnswerDue(r)' /\ Renewed(r)'
    BY <1>0, <2>3, <2>4 DEF AnswerDue, Renewed, Leads, Kept
  <2> QED
    BY <1>a, <2>6, <2>7, <2>8 DEF LeaseInv
<1>5. ASSUME NEW p \in Processes, CallFails(p) PROVE LeaseInv'
  BY <1>f, <1>5 DEF CallFails
<1>6. ASSUME NEW p \in Processes, Hang(p) PROVE LeaseInv'
  <2> DEFINE x == [process[p] EXCEPT !.hangs = TRUE]
  <2>1. Becomes(p, x)
    BY <1>6 DEF Hang
  <2>2. /\ x \in Election /\ x.pc = process[p].pc /\ x.mode = process[p].mode
        /\ x.confirmed = process[p].confirmed /\ x.observed = process[p].observed
        /\ x.since = process[p].since
        /\ x.seen = process[p].seen /\ x.fresh = process[p].fresh
    BY <1>0 DEF Election
  <2>m. process[p].mode = "leading"
    BY <1>6 DEF Hang, Leads
  <2> HIDE DEF x
  <2>3. x.confirmed >= process[p].confirmed /\ x.since >= process[p].since
    BY <2>2 DEF Election
  <2>4. x.fresh = FALSE \/ process[p].fresh = TRUE
    BY <2>2 DEF Election
  <2>5. x.seen = FALSE \/ process[p].seen = TRUE
    BY <2>2 DEF Election
  <2> QED
    BY <1>a, <2>1, <2>2, <2>m, <2>3, <2>4, <2>5, OneKeeps
<1>7. ASSUME NEW p \in Processes, Watch(p) \/ Crash(p) PROVE LeaseInv'
  BY <1>d, <1>7 DEF Watch, Crash
<1>8. ASSUME NEW p \in Processes, Restart(p) PROVE LeaseInv'
  BY <1>a, <1>8, NewInTime, OneKeeps DEF Restart
<1>9. CASE Tick
  <2>1. ASSUME NEW q \in Processes
        PROVE  /\ process'[q].mode = process[q].mode /\ process'[q].pc = process[q].pc
               /\ process'[q].fresh = process[q].fresh /\ process'[q].seen = process[q].seen
               /\ process'[q].observed <= process[q].observed + 1
               /\ process[q].pc = "reply" => process'[q].since = process[q].since + 1
               /\ Leads(q) => process'[q].confirmed = process[q].confirmed + 1
    <3>1. process'[q] = Older(process[q])
      BY <1>9 DEF Tick
    <3>2. process[q].pc = "reply" => process[q].mode # "dead"
      BY <1>0 DEF OnTime
    <3>3. Leads(q) => process[q].confirmed < Limit
      <4>1. process[q] \in Election /\ OnTime(process[q]) /\ InTime(process[q])
        BY <1>a DEF TimelyInv, ElectionOK, Timely
      <4> QED
        BY <4>1, LeaseAssumption DEF Leads, OnTime, InTime, Election, Limit
    <3> QED
      BY <1>0, <3>1, <3>2, <3>3, OlderIs DEF Leads
  <2>2. holder' = holder
    BY <1>9 DEF Tick
  <2>3. \A q \in Processes : /\ process[q].observed \in Nat /\ process[q].since \in Nat
                              /\ process[q].confirmed \in Nat
                              /\ process'[q].observed \in Nat
    BY <1>0, <1>a DEF TimelyInv, ElectionOK, Election
  <2>4. ASSUME NEW r \in Processes PROVE AnswerDue(r)'
    <3> SUFFICES ASSUME process[r].pc = "reply" PROVE
          /\ holder = r
          /\ \A q \in Processes \ {r} :
               /\ process[q].fresh = FALSE
               /\ process[q].seen = TRUE => process'[q].observed <= CallLimit + (process[r].since + 1)
      BY <2>1, <2>2 DEF AnswerDue
    <3> QED
      BY <1>0, <2>1, <2>3, LeaseAssumption DEF AnswerDue
  <2>5. ASSUME NEW r \in Processes PROVE Renewed(r)'
    <3> SUFFICES ASSUME Leads(r) PROVE
          /\ holder # r => process[r].confirmed + 1 >= Kept
          /\ holder = r =>
               \A q \in Processes \ {r} :
                 /\ process[q].fresh = TRUE => process[r].confirmed + 1 >= Kept
                 /\ process[q].seen = TRUE =>
                      process'[q].observed <= process[r].confirmed + 1 + 2 * CallLimit
      BY <2>1, <2>2 DEF Renewed, Leads, Kept
    <3>1. Kept \in Int
      BY LeaseAssumption DEF Kept
    <3>2. /\ holder # r => process[r].confirmed >= Kept
          /\ holder = r =>
               \A q \in Processes \ {r} :
                 /\ process[q].fresh = TRUE => process[r].confirmed >= Kept
                 /\ process[q].seen = TRUE =>
                      process[q].observed <= process[r].confirmed + 2 * CallLimit
      BY <1>0 DEF Renewed
    <3> QED
      BY <2>1, <2>3, <3>1, <3>2, LeaseAssumption
  <2> QED
    BY <1>a, <2>4, <2>5 DEF LeaseInv
<1>10. CASE UNCHANGED vars
  BY <1>0, <1>a, <1>10 DEF vars, LeaseInv, AnswerDue, Renewed, Leads, Kept
<1> QED
  BY <1>1, <1>2, <1>3, <1>4, <1>5, <1>6, <1>7, <1>8, <1>9, <1>10 DEF Next, Attempt

(* The Lease coordinates a takeover: as long as a leader renewed it, by what it   *)
(* knows, less than Duration - 2 * CallLimit ago, it is nobody else's, and no      *)
(* other process leads that could say the same (leadership.py:73-82).            *)
LEMMA LeaseIsAlwaysKept == Init /\ [][Next]_vars => []LeadershipIsKept
<1>1. CASE 0 < Kept
  <2>1. LeaseInv => LeadershipIsKept
    <3> SUFFICES ASSUME LeaseInv, NEW p \in Processes, Leads(p), process[p].confirmed < Kept
                 PROVE  /\ holder = p
                        /\ \A q \in Processes \ {p} : Leads(q) => process[q].confirmed >= Kept
      BY DEF LeadershipIsKept, Kept
    <3>1. \A q \in Processes : process[q].confirmed \in Nat /\ Renewed(q)
      BY DEF LeaseInv, TimelyInv, ElectionOK, Election
    <3>2. Kept \in Int
      BY LeaseAssumption DEF Kept
    <3>3. holder = p
      BY <3>1, <3>2 DEF Renewed
    <3> QED
      BY <3>1, <3>3 DEF Renewed
  <2> QED
    BY <1>1, <2>1, InitLease, LeaseStep, PTL
<1>2. CASE ~(0 < Kept)
  <2>1. TimelyInv => LeadershipIsKept
    BY <1>2, LeaseAssumption DEF TimelyInv, ElectionOK, Election, LeadershipIsKept, Kept
  <2> QED
    BY <2>1, TimelyInvariant, PTL
<1> QED
  BY <1>1, <1>2

MembersTypeOK ==
  /\ role \in [Subjects -> Access!Roles \cup {"none"}]
  /\ request \in [Requests -> [pc : {"idle", "insert", "lock", "write"},
                               subject : Subjects \cup {"nobody"}, to : Access!Roles \cup {"none"}]]
  /\ \A q \in Requests : request[q].pc # "idle" => request[q].subject \in Subjects

(* A change that was found safe is made under the lock it was found safe under.   *)
Settled(q) ==
  /\ request[q].pc \in {"lock", "write"} => owner # "nobody"
  /\ request[q].pc = "write" => lock = q /\ ~Access!LastAdmin(request[q].subject, request[q].to)

MembersInv == MembersTypeOK /\ (\A q \in Requests : Settled(q)) /\ Access!SomebodyManages

LEMMA InitMembers == Access!Init => MembersInv
BY DEF Access!Init, Access!Idle, Access!Roles, MembersInv, MembersTypeOK, Settled, Access!SomebodyManages

(* A step of a request that changes no role and frees no lock but its own.       *)
LEMMA MemberMoves ==
  ASSUME MembersInv, NEW q \in Requests, NEW r,
         request' = [request EXCEPT ![q] = r], UNCHANGED <<owner, role>>,
         lock' = lock \/ lock \in {"free", q}, "free" \notin Requests,
         r \in [pc : {"idle", "insert", "lock", "write"},
                subject : Subjects \cup {"nobody"}, to : Access!Roles \cup {"none"}],
         r.pc # "idle" => r.subject \in Subjects,
         r.pc \in {"lock", "write"} => owner # "nobody",
         r.pc = "write" => lock' = q /\ ~Access!LastAdmin(r.subject, r.to)
  PROVE  MembersInv'
<1>1. MembersTypeOK'
  BY DEF MembersInv, MembersTypeOK
<1>2. ASSUME NEW s \in Requests PROVE Settled(s)'
  <2>1. CASE s = q
    <3>1. request'[s] = r
      BY <2>1 DEF MembersInv, MembersTypeOK
    <3> QED
      BY <2>1, <3>1 DEF Settled, Access!LastAdmin
  <2>2. CASE s # q
    <3>1. request'[s] = request[s]
      BY <2>2 DEF MembersInv, MembersTypeOK
    <3>2. Settled(s)
      BY DEF MembersInv
    <3> QED
      BY <2>2, <3>1, <3>2 DEF Settled, Access!LastAdmin
  <2> QED
    BY <2>1, <2>2
<1>3. Access!SomebodyManages'
  BY DEF MembersInv, Access!SomebodyManages
<1> QED
  BY <1>1, <1>2, <1>3 DEF MembersInv

LEMMA MembersStep ==
  ASSUME "free" \notin Requests
  PROVE  MembersInv /\ [Access!Next]_(Access!vars) => MembersInv'
<1> SUFFICES ASSUME MembersInv, [Access!Next]_(Access!vars) PROVE MembersInv'
  OBVIOUS
<1> DEFINE Request == [pc : {"idle", "insert", "lock", "write"},
                       subject : Subjects \cup {"nobody"}, to : Access!Roles \cup {"none"}]
<1>0. /\ role \in [Subjects -> Access!Roles \cup {"none"}] /\ request \in [Requests -> Request]
      /\ \A q \in Requests : Settled(q) /\ (request[q].pc # "idle" => request[q].subject \in Subjects)
      /\ Access!SomebodyManages
  BY DEF MembersInv, MembersTypeOK
<1>i. Access!Idle \in Request /\ Access!Idle.pc = "idle"
  BY DEF Access!Idle
<1>1. ASSUME NEW q \in Requests, NEW s \in Subjects, Access!Create(q, s) PROVE MembersInv'
  <2> DEFINE r == [pc |-> "insert", subject |-> s, to |-> "admin"]
  <2>1. r \in Request /\ r.pc = "insert" /\ r.subject = s
    BY DEF Access!Roles
  <2>2. request' = [request EXCEPT ![q] = r] /\ UNCHANGED <<owner, role, lock>>
    BY <1>1 DEF Access!Create, Access!Arrives
  <2> HIDE DEF r
  <2> QED
    BY <2>1, <2>2, MemberMoves
<1>2. ASSUME NEW q \in Requests, NEW s \in Subjects, NEW to \in Access!Roles \cup {"none"}, Access!Ask(q, s, to)
      PROVE  MembersInv'
  <2> DEFINE r == [pc |-> "lock", subject |-> s, to |-> to]
  <2>1. r \in Request /\ r.pc = "lock" /\ r.subject = s
    OBVIOUS
  <2>2. request' = [request EXCEPT ![q] = r] /\ UNCHANGED <<owner, role, lock>> /\ owner # "nobody"
    BY <1>2 DEF Access!Ask, Access!Arrives
  <2> HIDE DEF r
  <2> QED
    BY <2>1, <2>2, MemberMoves
<1>3. ASSUME NEW q \in Requests, Access!Insert(q) PROVE MembersInv'
  <2>1. CASE owner = "nobody"
    <3>1. /\ owner' = request[q].subject /\ role' = [role EXCEPT ![request[q].subject] = "admin"]
          /\ request[q].subject \in Subjects /\ lock' = lock
          /\ request' = [request EXCEPT ![q] = Access!Idle]
      BY <1>0, <1>3, <2>1 DEF Access!Insert, Access!Owned, Access!Ends
    <3>2. MembersTypeOK'
      BY <1>0, <1>i, <3>1 DEF MembersTypeOK, Access!Roles
    <3>3. ASSUME NEW t \in Requests PROVE Settled(t)'
      <4>1. request'[t].pc \notin {"lock", "write"}
        BY <1>0, <1>i, <2>1, <3>1 DEF Settled
      <4> QED
        BY <4>1 DEF Settled
    <3>4. Access!SomebodyManages'
      BY <1>0, <3>1 DEF Access!SomebodyManages
    <3> QED
      BY <3>2, <3>3, <3>4 DEF MembersInv
  <2>2. CASE owner # "nobody"
    BY <1>i, <1>3, <2>2, MemberMoves DEF Access!Insert, Access!Ends
  <2> QED
    BY <2>1, <2>2
<1>4. ASSUME NEW q \in Requests, Access!Lock(q) PROVE MembersInv'
  <2>1. UNCHANGED <<owner, role>> /\ lock = "free" /\ request[q].pc = "lock"
    BY <1>4 DEF Access!Lock, Access!MayLock
  <2>2. CASE role[request[q].subject] = request[q].to \/ Access!LastAdmin(request[q].subject, request[q].to)
    BY <1>i, <1>4, <2>1, <2>2, MemberMoves DEF Access!Lock, Access!Ends
  <2>3. CASE ~(role[request[q].subject] = request[q].to \/ Access!LastAdmin(request[q].subject, request[q].to))
    <3> DEFINE r == [request[q] EXCEPT !.pc = "write"]
    <3>1. /\ r \in Request /\ r.pc = "write" /\ r.subject = request[q].subject /\ r.to = request[q].to
      BY <1>0
    <3>2. request' = [request EXCEPT ![q] = r] /\ lock' = q
      BY <1>0, <1>4, <2>3 DEF Access!Lock, Access!Goes
    <3>3. request[q].subject \in Subjects /\ owner # "nobody"
      BY <1>0, <2>1 DEF Settled
    <3> HIDE DEF r
    <3> QED
      BY <2>1, <2>3, <3>1, <3>2, <3>3, MemberMoves
  <2> QED
    BY <2>2, <2>3
<1>5. ASSUME NEW q \in Requests, Access!Write(q) PROVE MembersInv'
  <2> DEFINE s  == request[q].subject
             to == request[q].to
  <2>1. /\ s \in Subjects /\ to \in Access!Roles \cup {"none"} /\ lock = q /\ ~Access!LastAdmin(s, to)
        /\ owner # "nobody"
    BY <1>0, <1>5 DEF Access!Write, Settled
  <2>2. /\ role' = [role EXCEPT ![s] = to] /\ request' = [request EXCEPT ![q] = Access!Idle]
        /\ owner' = owner
    BY <1>5 DEF Access!Write, Access!Ends
  <2> HIDE DEF s, to
  <2>3. MembersTypeOK'
    BY <1>0, <1>i, <2>1, <2>2 DEF MembersTypeOK
  <2>4. ASSUME NEW t \in Requests PROVE Settled(t)'
    <3>1. CASE t = q
      BY <1>0, <1>i, <2>2, <3>1 DEF Settled
    <3>2. CASE t # q
      BY <1>0, <2>1, <2>2, <3>2 DEF Settled
    <3> QED
      BY <3>1, <3>2
  <2>5. Access!SomebodyManages'
    <3>1. PICK a \in Subjects : role[a] = "admin"
      BY <1>0, <2>1 DEF Access!SomebodyManages
    <3>2. \E b \in Subjects : role'[b] = "admin"
      <4>1. CASE a # s
        BY <1>0, <2>2, <3>1, <4>1
      <4>2. CASE a = s
        BY <1>0, <2>1, <2>2, <3>1, <4>2 DEF Access!LastAdmin
      <4> QED
        BY <4>1, <4>2
    <3> QED
      BY <3>2 DEF Access!SomebodyManages
  <2> QED
    BY <2>3, <2>4, <2>5 DEF MembersInv
<1>6. ASSUME NEW q \in Requests, Access!Lost(q) PROVE MembersInv'
  <2>1. lock' = lock \/ lock \in {"free", q}
    BY <1>6 DEF Access!Lost, Access!Frees
  <2> QED
    BY <1>i, <1>6, <2>1, MemberMoves DEF Access!Lost, Access!Ends
<1>7. CASE UNCHANGED Access!vars
  BY <1>7 DEF Access!vars, MembersInv, MembersTypeOK, Settled, Access!LastAdmin, Access!SomebodyManages
<1> QED
  BY <1>1, <1>2, <1>3, <1>4, <1>5, <1>6, <1>7 DEF Access!Next

(* "A new project is never left without someone to manage it"                  *)
(* (projects.py:45), and never is later, whatever admins demote or remove each     *)
(* other at the same time (members.py:71).                                      *)
LEMMA SomebodyAlwaysManages ==
  ASSUME "free" \notin Requests
  PROVE  Access!Init /\ [][Access!Next]_(Access!vars) => []Access!SomebodyManages
<1>1. MembersInv => Access!SomebodyManages
  BY DEF MembersInv
<1> QED
  BY <1>1, InitMembers, MembersStep, PTL

KeyOf == UNION Contents
Refs  == [name : Names, key : KeyOf]

SecretsTypeOK ==
  /\ version \in Nat
  /\ secret \in [Names -> [version : Nat, keys : SUBSET KeyOf]]
  /\ call = [q \in Requests |-> call[q]]
  /\ refs \subseteq Refs
  /\ \A n \in Names : secret[n].version <= version

Stands(n) == \E f \in refs : f.name = n

(* What a call still relies on, from what it looked at before: the rows of the *)
(* project it has locked, and the object of the version it looked at.            *)
Relies(q) ==
  LET r == call[q]
  IN /\ r.pc \in {"create", "look", "rotate"} =>
          /\ r \in [pc : {"create", "look", "rotate"}, name : Names, keys : SUBSET KeyOf, shown : Nat]
          /\ r.shown <= version
     /\ r.pc = "rotate" /\ secret[r.name].version = r.shown => secret[r.name].keys \subseteq r.keys
     /\ r.pc \in {"lock", "delete"} =>
          r \in [pc : {"lock", "delete"}, name : Names, shown : Nat, force : BOOLEAN]
     /\ r.pc = "delete" => holding = q /\ (r.force = TRUE \/ ~Stands(r.name))
     /\ r.pc \in {"validate", "add"} => holding = q /\ r \in [pc : {"validate", "add"}, ref : Refs]
     /\ r.pc = "add" => Vault!Resolves(r.ref)
     /\ r.pc = "commit" => holding = q

SecretsInv == SecretsTypeOK /\ (\A q \in Requests : Relies(q)) /\ Vault!ReferencesHold

LEMMA InitSecrets == Vault!Init => SecretsInv
<1> SUFFICES ASSUME Vault!Init PROVE SecretsInv
  OBVIOUS
<1>1. SecretsTypeOK
  BY DEF Vault!Init, Vault!None, SecretsTypeOK
<1>2. \A q \in Requests : call[q].pc = "idle"
  BY DEF Vault!Init, Vault!Idle
<1>3. Vault!ReferencesHold
  BY DEF Vault!Init, Vault!ReferencesHold
<1> QED
  BY <1>1, <1>2, <1>3 DEF SecretsInv, Relies

(* A call that changes nothing but what it is about, and its holding.            *)
LEMMA SecretMoves ==
  ASSUME SecretsInv, NEW q \in Requests, NEW r, "free" \notin Requests,
         Vault!Becomes(q, r), UNCHANGED <<secret, version, refs, forced>>,
         holding' = holding \/ holding \in {"free", q},
         r.pc = "idle" \/ Relies(q)'
  PROVE  SecretsInv'
<1>1. SecretsTypeOK' /\ Vault!ReferencesHold'
  BY DEF Vault!Becomes, SecretsInv, SecretsTypeOK, Vault!ReferencesHold, Vault!Resolves
<1>2. ASSUME NEW s \in Requests PROVE Relies(s)'
  <2>1. CASE s = q
    <3>1. call'[q] = r
      BY DEF Vault!Becomes, SecretsInv, SecretsTypeOK
    <3> QED
      BY <2>1, <3>1 DEF Relies
  <2>2. CASE s # q
    <3>1. call'[s] = call[s]
      BY <2>2 DEF Vault!Becomes, SecretsInv, SecretsTypeOK
    <3>2. Relies(s)
      BY DEF SecretsInv
    <3> QED
      BY <2>2, <3>1, <3>2 DEF Relies, Stands, Vault!Resolves
  <2> QED
    BY <2>1, <2>2
<1> QED
  BY <1>1, <1>2 DEF SecretsInv

(* Kubernetes writes an object that has the keys of the one it replaces, if any.  *)
LEMMA WriteKeeps ==
  ASSUME SecretsInv, NEW q \in Requests, NEW n \in Names, NEW keys \in SUBSET KeyOf,
         Vault!Written(n, keys), secret[n].keys \subseteq keys, Vault!Ends(q), UNCHANGED <<refs, forced, holding>>
  PROVE  SecretsInv'
<1>1. /\ version' = version + 1
      /\ secret' = [secret EXCEPT ![n] = [version |-> version + 1, keys |-> keys]]
      /\ call' = [call EXCEPT ![q] = Vault!Idle]
  BY DEF Vault!Written, Vault!Ends, Vault!Becomes
<1>2. /\ secret'[n].version = version + 1 /\ secret'[n].keys = keys
      /\ \A m \in Names \ {n} : secret'[m] = secret[m]
      /\ secret' \in [Names -> [version : Nat, keys : SUBSET KeyOf]]
  BY <1>1 DEF SecretsInv, SecretsTypeOK
<1>3. \A m \in Names : secret[m].keys \subseteq secret'[m].keys
  BY <1>2
<1>4. SecretsTypeOK'
  BY <1>1, <1>2 DEF SecretsInv, SecretsTypeOK
<1>5. \A f \in Refs : Vault!Resolves(f) => Vault!Resolves(f)'
  BY <1>3 DEF Vault!Resolves, Refs
<1>6. Vault!ReferencesHold'
  BY <1>5 DEF Vault!ReferencesHold, SecretsInv, SecretsTypeOK
<1>7. ASSUME NEW s \in Requests PROVE Relies(s)'
  <2>1. CASE s = q
    <3>1. call'[q].pc = "idle"
      BY <1>1 DEF Vault!Idle, SecretsInv, SecretsTypeOK
    <3> QED
      BY <2>1, <3>1 DEF Relies
  <2>2. CASE s # q
    <3>1. call'[s] = call[s]
      BY <1>1, <2>2 DEF SecretsInv, SecretsTypeOK
    <3>2. Relies(s) /\ version \in Nat
      BY DEF SecretsInv, SecretsTypeOK
    <3>3. call[s].pc = "rotate" /\ secret'[call[s].name].version = call[s].shown =>
            secret'[call[s].name].keys \subseteq call[s].keys
      BY <1>2, <3>2 DEF Relies
    <3>4. call[s].pc = "add" => Vault!Resolves(call[s].ref)'
      BY <1>5, <3>1, <3>2 DEF Relies, Vault!Resolves
    <3>5. call[s].pc \in {"create", "look", "rotate"} => call[s].shown <= version'
      BY <1>1, <3>2 DEF Relies
    <3> QED
      BY <3>1, <3>2, <3>3, <3>4, <3>5 DEF Relies, Stands, Vault!Resolves
  <2> QED
    BY <2>1, <2>2
<1> QED
  BY <1>4, <1>6, <1>7 DEF SecretsInv

LEMMA SecretsStep ==
  ASSUME "free" \notin Requests
  PROVE  SecretsInv /\ [Vault!Next]_(Vault!vars) => SecretsInv'
<1> SUFFICES ASSUME SecretsInv, [Vault!Next]_(Vault!vars) PROVE SecretsInv'
  OBVIOUS
<1>0. /\ version \in Nat /\ secret \in [Names -> [version : Nat, keys : SUBSET KeyOf]]
      /\ \A n \in Names : secret[n].version <= version
      /\ refs \subseteq Refs /\ Vault!ReferencesHold
      /\ \A q \in Requests : Relies(q)
      /\ \A q \in Requests : \A r : Vault!Becomes(q, r) =>
           call'[q] = r /\ \A s \in Requests \ {q} : call'[s] = call[s]
  BY DEF SecretsInv, SecretsTypeOK, Vault!Becomes
<1>e. ASSUME NEW q \in Requests, Vault!Ends(q), UNCHANGED <<secret, version, refs, forced>>,
             holding' = holding \/ holding \in {"free", q}
      PROVE  SecretsInv'
  BY <1>e, SecretMoves DEF Vault!Ends, Vault!Idle
<1>1. ASSUME NEW q \in Requests, NEW n \in Names, NEW keys \in Contents, Vault!Put(q, n, keys)
      PROVE  SecretsInv'
  <2> DEFINE r == [pc |-> IF Vault!There(n) THEN "look" ELSE "create", name |-> n,
                   keys |-> keys, shown |-> secret[n].version]
  <2>1. Vault!Becomes(q, r) /\ UNCHANGED <<secret, version, refs, forced, holding>>
    BY <1>1 DEF Vault!Put
  <2>2. /\ r \in [pc : {"create", "look", "rotate"}, name : Names, keys : SUBSET KeyOf, shown : Nat]
        /\ r.pc \in {"create", "look"} /\ r.shown <= version
    BY <1>0 DEF KeyOf
  <2> HIDE DEF r
  <2>3. Relies(q)'
    BY <1>0, <2>1, <2>2 DEF Relies
  <2> QED
    BY <2>1, <2>3, SecretMoves
<1>2. ASSUME NEW q \in Requests, Vault!Create(q) PROVE SecretsInv'
  <2>1. CASE Vault!There(call[q].name)
    BY <1>e, <1>2, <2>1 DEF Vault!Create
  <2>2. CASE ~Vault!There(call[q].name)
    <3>1. call[q].name \in Names /\ call[q].keys \in SUBSET KeyOf
      BY <1>0, <1>2 DEF Vault!Create, Relies
    <3>2. secret[call[q].name].keys = {}
      BY <2>2 DEF Vault!There, Vault!None
    <3> QED
      BY <1>2, <2>2, <3>1, <3>2, WriteKeeps DEF Vault!Create
  <2> QED
    BY <2>1, <2>2
<1>3. ASSUME NEW q \in Requests, Vault!Look(q) PROVE SecretsInv'
  <2>1. CASE ~Vault!Preserves(call[q].name, call[q].keys)
    BY <1>e, <1>3, <2>1 DEF Vault!Look
  <2>2. CASE Vault!Preserves(call[q].name, call[q].keys)
    <3> DEFINE r == [call[q] EXCEPT !.pc = "rotate"]
    <3>1. Vault!Becomes(q, r) /\ UNCHANGED <<secret, version, refs, forced, holding>> /\ call[q].pc = "look"
      BY <1>3, <2>2 DEF Vault!Look
    <3>2. /\ r \in [pc : {"create", "look", "rotate"}, name : Names, keys : SUBSET KeyOf, shown : Nat]
          /\ r.pc = "rotate" /\ r.shown <= version
          /\ r.name = call[q].name /\ r.keys = call[q].keys
      BY <1>0, <3>1 DEF Relies
    <3> HIDE DEF r
    <3>3. Relies(q)'
      BY <1>0, <2>2, <3>1, <3>2 DEF Relies, Vault!Preserves
    <3> QED
      BY <3>1, <3>3, SecretMoves
  <2> QED
    BY <2>1, <2>2
<1>4. ASSUME NEW q \in Requests, Vault!Rotate(q) PROVE SecretsInv'
  <2>1. CASE ~Vault!Shown(call[q].name, call[q].shown)
    BY <1>e, <1>4, <2>1 DEF Vault!Rotate
  <2>2. CASE Vault!Shown(call[q].name, call[q].shown)
    <3>1. /\ call[q].name \in Names /\ call[q].keys \in SUBSET KeyOf
          /\ secret[call[q].name].keys \subseteq call[q].keys
      BY <1>0, <1>4, <2>2 DEF Vault!Rotate, Relies, Vault!Shown
    <3> QED
      BY <1>4, <2>2, <3>1, WriteKeeps DEF Vault!Rotate
  <2> QED
    BY <2>1, <2>2
<1>5. ASSUME NEW q \in Requests, NEW n \in Names, NEW force \in BOOLEAN, Vault!Delete(q, n, force)
      PROVE  SecretsInv'
  <2> DEFINE r == [pc |-> "lock", name |-> n, shown |-> secret[n].version, force |-> force]
  <2>1. Vault!Becomes(q, r) /\ UNCHANGED <<secret, version, refs, forced, holding>>
    BY <1>5 DEF Vault!Delete
  <2>2. r \in [pc : {"lock", "delete"}, name : Names, shown : Nat, force : BOOLEAN] /\ r.pc = "lock"
    BY <1>0
  <2> HIDE DEF r
  <2>3. Relies(q)'
    BY <1>0, <2>1, <2>2 DEF Relies
  <2> QED
    BY <2>1, <2>3, SecretMoves
<1>6. ASSUME NEW q \in Requests, Vault!Check(q) PROVE SecretsInv'
  <2>1. holding = "free" /\ call[q].pc = "lock" /\ UNCHANGED <<secret, version, refs, forced>>
    BY <1>6 DEF Vault!Check, Vault!LockToDelete, Vault!MayLock
  <2>2. CASE Vault!Ends(q) /\ UNCHANGED holding
    BY <1>e, <2>1, <2>2
  <2>3. CASE /\ call[q].force \/ \A f \in refs : f.name # call[q].name
             /\ Vault!LockToDelete(q) /\ Vault!Becomes(q, [call[q] EXCEPT !.pc = "delete"])
    <3> DEFINE r == [call[q] EXCEPT !.pc = "delete"]
    <3>1. /\ r \in [pc : {"lock", "delete"}, name : Names, shown : Nat, force : BOOLEAN]
          /\ r.pc = "delete" /\ r.name = call[q].name
      BY <1>0, <2>1 DEF Relies
    <3>2. r.force = call[q].force
      BY <1>0, <2>1 DEF Relies
    <3>3. Vault!Becomes(q, r) /\ holding' = q
      BY <2>3 DEF Vault!LockToDelete
    <3> HIDE DEF r
    <3>4. r.force = TRUE \/ ~Stands(r.name)
      BY <2>3, <3>1, <3>2 DEF Stands
    <3>5. Relies(q)'
      BY <1>0, <2>1, <3>1, <3>3, <3>4 DEF Relies, Stands
    <3> QED
      BY <2>1, <3>3, <3>5, SecretMoves
  <2> QED
    BY <1>6, <2>2, <2>3 DEF Vault!Check
<1>7. ASSUME NEW q \in Requests, Vault!Remove(q) PROVE SecretsInv'
  <2> DEFINE n == call[q].name
  <2>1. /\ holding = q /\ n \in Names /\ (call[q].force = TRUE \/ ~Stands(n))
        /\ call[q].force \in BOOLEAN
    BY <1>0, <1>7 DEF Vault!Remove, Relies
  <2>2. /\ Vault!Becomes(q, [pc |-> "commit"]) /\ UNCHANGED <<version, refs, holding>>
    BY <1>7 DEF Vault!Remove
  <2>3. call'[q].pc = "commit" /\ \A s \in Requests \ {q} : call'[s] = call[s]
    BY <1>0, <2>2
  <2>4. CASE ~Vault!Shown(n, call[q].shown)
    <3>1. UNCHANGED <<secret, forced>>
      BY <1>7, <2>4 DEF Vault!Remove
    <3>2. Relies(q)'
      BY <2>1, <2>2, <2>3 DEF Relies
    <3> QED
      BY <2>2, <3>1, <3>2, SecretMoves
  <2>5. CASE Vault!Shown(n, call[q].shown)
    <3>1. /\ secret' = [secret EXCEPT ![n] = Vault!None]
          /\ forced' = IF call[q].force THEN forced \cup {f \in refs : f.name = n} ELSE forced
      BY <1>7, <2>5 DEF Vault!Remove
    <3>2. SecretsTypeOK'
      BY <1>0, <2>1, <2>2, <3>1 DEF SecretsInv, SecretsTypeOK, Vault!None, Vault!Becomes
    <3>3. Vault!ReferencesHold'
      <4>1. ASSUME NEW f \in refs, f \notin forced' PROVE f \notin forced /\ f.name # n
        BY <2>1, <3>1, <4>1 DEF Stands
      <4>2. ASSUME NEW f \in refs, f \notin forced' PROVE Vault!Resolves(f)'
        BY <1>0, <3>1, <4>1, <4>2 DEF Vault!ReferencesHold, Vault!Resolves, Refs
      <4> QED
        BY <2>2, <4>2 DEF Vault!ReferencesHold
    <3>4. ASSUME NEW s \in Requests PROVE Relies(s)'
      <4>1. CASE s = q
        BY <2>1, <2>2, <2>3, <4>1 DEF Relies
      <4>2. CASE s # q
        <5>1. call'[s] = call[s] /\ Relies(s) /\ call[s].pc # "add"
          BY <1>0, <2>1, <2>3, <4>2 DEF Relies
        <5>2. call[s].pc = "rotate" /\ secret'[call[s].name].version = call[s].shown =>
                secret'[call[s].name].keys \subseteq call[s].keys
          <6>1. CASE call[s].name = n
            BY <1>0, <2>1, <3>1, <6>1 DEF Vault!None
          <6>2. CASE call[s].name # n
            BY <1>0, <3>1, <5>1, <6>2 DEF Relies
          <6> QED
            BY <6>1, <6>2
        <5> QED
          BY <2>2, <5>1, <5>2 DEF Relies, Stands
      <4> QED
        BY <4>1, <4>2
    <3> QED
      BY <3>2, <3>3, <3>4 DEF SecretsInv
  <2> QED
    BY <2>4, <2>5
<1>8. ASSUME NEW q \in Requests, NEW n \in Names, NEW key \in KeyOf, Vault!Refer(q, n, key)
      PROVE  SecretsInv'
  <2> DEFINE r == [pc |-> "validate", ref |-> [name |-> n, key |-> key]]
  <2>1. /\ Vault!Becomes(q, r) /\ UNCHANGED <<secret, version, refs, forced>>
        /\ holding = "free" /\ holding' = q
    BY <1>8 DEF Vault!Refer, Vault!MayLock
  <2>2. r \in [pc : {"validate", "add"}, ref : Refs] /\ r.pc = "validate"
    BY DEF Refs
  <2> HIDE DEF r
  <2>3. Relies(q)'
    BY <1>0, <2>1, <2>2 DEF Relies
  <2> QED
    BY <2>1, <2>3, SecretMoves
<1>9. ASSUME NEW q \in Requests, Vault!Validate(q) PROVE SecretsInv'
  <2>1. CASE ~Vault!Resolves(call[q].ref)
    <3>1. holding' = holding \/ holding \in {"free", q}
      BY <1>9, <2>1 DEF Vault!Validate, Vault!Frees
    <3> QED
      BY <1>e, <1>9, <2>1, <3>1 DEF Vault!Validate
  <2>2. CASE Vault!Resolves(call[q].ref)
    <3> DEFINE r == [call[q] EXCEPT !.pc = "add"]
    <3>1. Vault!Becomes(q, r) /\ UNCHANGED <<secret, version, refs, forced, holding>>
          /\ call[q].pc = "validate"
      BY <1>9, <2>2 DEF Vault!Validate
    <3>2. /\ holding = q /\ r \in [pc : {"validate", "add"}, ref : Refs] /\ r.pc = "add"
          /\ r.ref = call[q].ref
      BY <1>0, <3>1 DEF Relies
    <3> HIDE DEF r
    <3>3. Relies(q)'
      BY <1>0, <2>2, <3>1, <3>2 DEF Relies, Vault!Resolves
    <3> QED
      BY <3>1, <3>3, SecretMoves
  <2> QED
    BY <2>1, <2>2
<1>10. ASSUME NEW q \in Requests, Vault!Add(q) PROVE SecretsInv'
  <2>1. /\ holding = q /\ call[q].ref \in Refs /\ Vault!Resolves(call[q].ref)
    BY <1>0, <1>10 DEF Vault!Add, Relies
  <2>2. /\ refs' = refs \cup {call[q].ref} /\ forced' = forced \ {call[q].ref}
        /\ Vault!Becomes(q, Vault!Idle) /\ holding' = "free" /\ UNCHANGED <<secret, version>>
    BY <1>10, <2>1 DEF Vault!Add, Vault!Ends, Vault!Frees
  <2>3. SecretsTypeOK'
    BY <1>0, <2>1, <2>2 DEF SecretsInv, SecretsTypeOK, Vault!Becomes
  <2>4. Vault!ReferencesHold'
    BY <1>0, <2>1, <2>2 DEF Vault!ReferencesHold, Vault!Resolves
  <2>5. ASSUME NEW s \in Requests PROVE Relies(s)'
    <3>1. CASE s = q
      <4>1. call'[s].pc = "idle"
        BY <1>0, <2>2, <3>1 DEF Vault!Idle
      <4> QED
        BY <4>1 DEF Relies
    <3>2. CASE s # q
      <4>1. call'[s] = call[s] /\ Relies(s)
            /\ call[s].pc \notin {"delete", "validate", "add", "commit"}
        BY <1>0, <2>1, <2>2, <3>2 DEF Relies
      <4> QED
        BY <2>2, <4>1 DEF Relies
    <3> QED
      BY <3>1, <3>2
  <2> QED
    BY <2>3, <2>4, <2>5 DEF SecretsInv
<1>11. ASSUME NEW q \in Requests, Vault!Commit(q) \/ Vault!Lost(q) PROVE SecretsInv'
  <2>1. holding' = holding \/ holding \in {"free", q}
    BY <1>11 DEF Vault!Commit, Vault!Lost, Vault!Frees
  <2> QED
    BY <1>e, <1>11, <2>1 DEF Vault!Commit, Vault!Lost
<1>12. CASE UNCHANGED Vault!vars
  BY <1>12 DEF Vault!vars, SecretsInv, SecretsTypeOK, Vault!ReferencesHold, Relies, Stands, Vault!Resolves
<1> QED
  BY <1>1, <1>2, <1>3, <1>4, <1>5, <1>6, <1>7, <1>8, <1>9, <1>10, <1>11, <1>12 DEF Vault!Next, KeyOf

(* Every reference that was committed resolves, whatever rotations, deletions     *)
(* and registrations overlap, unless its secret was deleted by force since        *)
(* (secrets.py:161-180).                                                     *)
LEMMA ReferencesAlwaysHold ==
  ASSUME "free" \notin Requests
  PROVE  Vault!Init /\ [][Vault!Next]_(Vault!vars) => []Vault!ReferencesHold
<1>1. SecretsInv => Vault!ReferencesHold
  BY DEF SecretsInv
<1> QED
  BY <1>1, InitSecrets, SecretsStep, PTL

KeysSettings == Lifetime \in Nat \ {0} /\ Throttle \in Nat \ {0} /\ FetchLimit \in Nat /\ MaxTime \in Nat

FlightType == [pc : {"none", "decide", "fetch", "store"}, kid : SUBSET Kids, read : SUBSET Kids, began : Nat]
CallerType == [pc : {"idle", "look", "join", "wait", "after", "accepted", "refused"}, kid : SUBSET Kids,
               attempt : {1, 2}, changed : BOOLEAN, erred : BOOLEAN, due : BOOLEAN]

KeysTypeOK ==
  /\ time \in Nat /\ time <= MaxTime
  /\ since \in [Kids -> Nat] /\ gone \in [Kids -> Nat]
  /\ cache \in [keys : SUBSET Kids, at : Nat]
  /\ allowed \in Nat /\ excused \in Nat
  /\ flight \in FlightType
  /\ caller \in [Callers -> CallerType]

(* What the snapshot and the flight say of the provider. *)
SnapshotIsRecent ==
  /\ cache.at <= time
  /\ \A k \in cache.keys : k \in Keys!Published \/ cache.at <= gone[k] + FetchLimit
  /\ flight.pc \in {"fetch", "store"} => flight.began <= time /\ time <= flight.began + FetchLimit
  /\ flight.pc = "store" =>
       \A k \in Kids : /\ k \in flight.read => k \in Keys!Published \/ flight.began <= gone[k]
                       /\ since[k] < flight.began => k \in flight.read

(* As long as no fetch is allowed, the last one is under way, or failed, or left a
   snapshot that lacks only keys published since it began. *)
ThrottleIsEarned ==
  /\ allowed <= time + Throttle
  /\ flight.pc \in {"fetch", "store"} => allowed <= flight.began + Throttle
  /\ time < allowed =>
       \/ flight.pc \in {"fetch", "store"}
       \/ allowed <= excused
       \/ \A k \in Kids \ cache.keys : allowed <= since[k] + Throttle

(* What holds for a caller x that no refusal is excused to: its key was published    *)
(* when any fetch that may still land began.                                         *)
Owed(x) == x.due =>
  /\ x.pc \in {"look", "join", "wait", "after"}
  /\ \A k \in x.kid : since[k] + FetchLimit + Throttle <= time
  /\ excused <= time
  /\ x.pc \in {"join", "wait", "after"} /\ x.changed => x.kid \subseteq cache.keys
  /\ x.pc = "after" =>
       /\ Keys!Fresh
       /\ x.erred \/ x.attempt = 2 => x.kid \subseteq cache.keys

Honoured(x) == x.pc = "accepted" =>
  \A k \in x.kid : k \in Keys!Published \/ time < gone[k] + Lifetime + FetchLimit

KeysInv ==
  /\ KeysTypeOK /\ SnapshotIsRecent /\ ThrottleIsEarned
  /\ \A c \in Callers : Owed(caller[c]) /\ Honoured(caller[c])

LEMMA InitKeys == KeysSettings /\ Keys!Init => KeysInv
<1> SUFFICES ASSUME KeysSettings, Keys!Init PROVE KeysInv
  OBVIOUS
<1>1. KeysTypeOK
  BY DEF KeysSettings, Keys!Init, KeysTypeOK, CallerType, FlightType, Keys!Idle, Keys!None, Keys!Never
<1>2. SnapshotIsRecent /\ ThrottleIsEarned
  BY DEF KeysSettings, Keys!Init, SnapshotIsRecent, ThrottleIsEarned, Keys!None
<1>3. \A c \in Callers : caller[c].due = FALSE /\ caller[c].pc = "idle"
  BY DEF Keys!Init, Keys!Idle
<1> QED
  BY <1>1, <1>2, <1>3 DEF KeysInv, Owed, Honoured

(* A step of one caller, which may start a flight.                                   *)
LEMMA CallerMoves ==
  ASSUME KeysInv, NEW c \in Callers, NEW x \in CallerType,
         caller' = [caller EXCEPT ![c] = x],
         UNCHANGED <<time, since, gone, cache, allowed, excused>>,
         flight' = flight \/ (flight.pc = "none" /\ flight'.pc = "decide" /\ flight' \in FlightType),
         Owed(x), Honoured(x)
  PROVE  KeysInv'
<1>1. KeysTypeOK'
  BY DEF KeysInv, KeysTypeOK
<1>2. SnapshotIsRecent' /\ ThrottleIsEarned'
  BY DEF KeysInv, SnapshotIsRecent, ThrottleIsEarned, Keys!Published
<1>3. ASSUME NEW d \in Callers PROVE Owed(caller[d])' /\ Honoured(caller[d])'
  <2>1. Owed(caller'[d]) /\ Honoured(caller'[d])
    <3>1. caller'[d] = IF d = c THEN x ELSE caller[d]
      BY DEF KeysInv, KeysTypeOK
    <3> QED
      BY <3>1 DEF KeysInv
  <2> QED
    BY <2>1 DEF Owed, Honoured, Keys!Fresh, Keys!Published
<1> QED
  BY <1>1, <1>2, <1>3 DEF KeysInv

(* A flight that leaves the snapshot as it is: what those who wait for it learn.      *)
LEMMA FlightEnds ==
  ASSUME KeysInv, KeysTypeOK', UNCHANGED <<time, since, gone, cache, allowed, excused>>,
         flight.pc = "decide", flight' = Keys!None,
         \A d \in Callers :
           \/ /\ caller'[d].due => caller[d].due
              /\ caller'[d].pc = caller[d].pc /\ caller'[d].kid = caller[d].kid
              /\ caller'[d].erred = caller[d].erred /\ caller'[d].attempt = caller[d].attempt
              /\ caller'[d].changed => caller[d].changed
           \/ /\ caller[d].pc = "wait" /\ caller'[d].pc = "after" /\ caller'[d].kid = caller[d].kid
              /\ caller'[d].changed = caller[d].changed
              /\ caller'[d].due => /\ caller[d].due /\ Keys!Fresh
                                   /\ caller'[d].erred \/ caller'[d].attempt = 2 => caller[d].kid \subseteq cache.keys
  PROVE  KeysInv'
<1>1. SnapshotIsRecent' /\ ThrottleIsEarned'
  BY DEF KeysInv, SnapshotIsRecent, ThrottleIsEarned, Keys!Published, Keys!None
<1>2. ASSUME NEW d \in Callers PROVE Owed(caller[d])' /\ Honoured(caller[d])'
  <2>1. Owed(caller[d]) /\ Honoured(caller[d]) /\ caller[d] \in CallerType /\ caller'[d] \in CallerType
    BY DEF KeysInv, KeysTypeOK
  <2>2. Owed(caller'[d]) /\ Honoured(caller'[d])
    BY <2>1 DEF Owed, Honoured, CallerType
  <2> QED
    BY <2>2 DEF Owed, Honoured, Keys!Fresh, Keys!Published
<1> QED
  BY <1>1, <1>2 DEF KeysInv

(* The fetch failed: nobody is owed anything any more.                               *)
LEMMA FlightFails ==
  ASSUME KeysSettings, KeysInv, flight.pc \in {"fetch", "store"}, Keys!LandsFailed,
         UNCHANGED <<time, since, gone, allowed>>
  PROVE  KeysInv'
<1>1. KeysTypeOK'
  <2>1. Keys!None \in FlightType
    BY DEF Keys!None, FlightType
  <2>2. ASSUME NEW d \in Callers
        PROVE  [caller[d] EXCEPT !.pc = "after", !.erred = TRUE, !.due = FALSE] \in CallerType
    <3>1. caller[d] \in CallerType
      BY DEF KeysInv, KeysTypeOK
    <3> QED
      BY <3>1, Zenon DEF CallerType
  <2>3. \A d \in Callers : [caller[d] EXCEPT !.due = FALSE] \in CallerType
    BY DEF KeysInv, KeysTypeOK, CallerType
  <2>4. /\ caller' \in [Callers -> CallerType] /\ flight' \in FlightType /\ excused' = time + Throttle + 1
        /\ UNCHANGED cache
    BY <2>1, <2>2, <2>3 DEF Keys!LandsFailed
  <2> QED
    BY <2>4 DEF KeysInv, KeysTypeOK, KeysSettings
<1>2. SnapshotIsRecent' /\ ThrottleIsEarned'
  <2>1. flight'.pc = "none" /\ UNCHANGED cache /\ excused' = time + Throttle + 1
    BY DEF Keys!LandsFailed, Keys!None
  <2>2. SnapshotIsRecent /\ allowed <= time + Throttle /\ time \in Nat /\ allowed \in Nat
    BY DEF KeysInv, KeysTypeOK, ThrottleIsEarned
  <2>3. allowed <= time + Throttle + 1
    BY <2>2 DEF KeysSettings
  <2>4. SnapshotIsRecent'
    BY <2>1, <2>2 DEF SnapshotIsRecent, Keys!Published
  <2> QED
    BY <2>1, <2>2, <2>3, <2>4 DEF ThrottleIsEarned
<1>3. ASSUME NEW d \in Callers PROVE Owed(caller[d])' /\ Honoured(caller[d])'
  <2>1. Honoured(caller[d]) /\ caller[d] \in CallerType
    BY DEF KeysInv, KeysTypeOK
  <2>2. /\ caller'[d].due = FALSE
        /\ caller'[d].pc = "accepted" => caller[d].pc = "accepted" /\ caller'[d].kid = caller[d].kid
    BY <2>1 DEF Keys!LandsFailed, CallerType
  <2> QED
    BY <2>1, <2>2 DEF Owed, Honoured, Keys!Published
<1> QED
  BY <1>1, <1>2, <1>3 DEF KeysInv

LEMMA LandsTyped ==
  ASSUME KeysTypeOK, NEW erred \in BOOLEAN, Keys!Lands(erred)
  PROVE  flight' \in FlightType /\ caller' \in [Callers -> CallerType]
<1>1. Keys!None \in FlightType
  BY DEF Keys!None, FlightType
<1>2. \A d \in Callers, b \in BOOLEAN :
        /\ [caller[d] EXCEPT !.pc = "after", !.erred = erred, !.changed = b] \in CallerType
        /\ [caller[d] EXCEPT !.changed = b] \in CallerType
  BY DEF KeysTypeOK, CallerType
<1> QED
  BY <1>1, <1>2 DEF Keys!Lands, KeysTypeOK, CallerType

LEMMA DecideKeeps == KeysSettings /\ KeysInv /\ Keys!Decide => KeysInv'
<1> SUFFICES ASSUME KeysSettings, KeysInv, Keys!Decide PROVE KeysInv'
  OBVIOUS
<1>0. flight.pc = "decide" /\ UNCHANGED <<time, since, gone, excused>>
  BY DEF Keys!Decide
<1>1. CASE Keys!NoNeed /\ Keys!LandsEmpty /\ UNCHANGED allowed
  <2>1. KeysTypeOK'
    <3>1. Keys!None \in FlightType
      BY DEF Keys!None, FlightType
    <3>2. \A d \in Callers, b \in BOOLEAN :
            /\ [caller[d] EXCEPT !.pc = "after", !.erred = FALSE, !.due = b] \in CallerType
            /\ [caller[d] EXCEPT !.changed = b] \in CallerType
      BY DEF KeysInv, KeysTypeOK, CallerType
    <3> QED
      BY <1>0, <1>1, <3>1, <3>2 DEF Keys!LandsEmpty, KeysInv, KeysTypeOK, CallerType
  <2>2. Keys!Fresh
    BY <1>1 DEF Keys!NoNeed, Keys!Found
  <2>3. \A d \in Callers : caller[d] \in CallerType
    BY DEF KeysInv, KeysTypeOK
  <2>4. ASSUME NEW d \in Callers
        PROVE  caller'[d] = IF caller[d].pc = "wait"
                            THEN [caller[d] EXCEPT !.pc = "after", !.erred = FALSE,
                                                   !.due = caller[d].due /\ caller[d].attempt = 1]
                            ELSE [caller[d] EXCEPT !.changed = caller[d].changed /\ caller[d].pc = "join"]
    BY <1>1 DEF Keys!LandsEmpty
  <2>5. flight' = Keys!None /\ UNCHANGED cache
    BY <1>1 DEF Keys!LandsEmpty
  <2>6. ASSUME NEW d \in Callers, caller[d].pc # "wait"
        PROVE  /\ caller'[d].due = caller[d].due
               /\ caller'[d].pc = caller[d].pc /\ caller'[d].kid = caller[d].kid
               /\ caller'[d].erred = caller[d].erred /\ caller'[d].attempt = caller[d].attempt
               /\ caller'[d].changed => caller[d].changed
    BY <2>3, <2>4, <2>6 DEF CallerType
  <2>7. ASSUME NEW d \in Callers, caller[d].pc = "wait"
        PROVE  /\ caller'[d].pc = "after" /\ caller'[d].kid = caller[d].kid
               /\ caller'[d].changed = caller[d].changed
               /\ caller'[d].due =>
                    /\ caller[d].due /\ Keys!Fresh
                    /\ caller'[d].erred \/ caller'[d].attempt = 2 => caller[d].kid \subseteq cache.keys
    <3>1. /\ caller'[d].pc = "after" /\ caller'[d].kid = caller[d].kid
          /\ caller'[d].changed = caller[d].changed
          /\ caller'[d].due => caller[d].due /\ caller[d].attempt = 1
          /\ caller'[d].erred = FALSE /\ caller'[d].attempt = caller[d].attempt
      BY <2>3, <2>4, <2>7 DEF CallerType
    <3> QED
      BY <2>2, <3>1
  <2> QED
    BY <1>0, <1>1, <2>1, <2>5, <2>6, <2>7, FlightEnds
<1>2. CASE ~Keys!NoNeed /\ Keys!Fresh /\ time < allowed /\ Keys!LandsThrottled /\ UNCHANGED allowed
  <2>1. KeysTypeOK'
    BY <1>0, <1>2, LandsTyped DEF Keys!LandsThrottled, KeysInv, KeysTypeOK
  <2>2. \A d \in Callers : caller[d] \in CallerType
    BY DEF KeysInv, KeysTypeOK
  <2>3. ASSUME NEW d \in Callers, caller[d].due PROVE caller[d].kid \subseteq cache.keys
    <3>1. /\ excused <= time /\ caller[d].kid \subseteq Kids
          /\ \A k \in caller[d].kid : since[k] + FetchLimit + Throttle <= time
      BY <2>2, <2>3 DEF KeysInv, Owed, CallerType
    <3>2. \A k \in Kids \ cache.keys : allowed <= since[k] + Throttle
      BY <1>0, <1>2, <3>1 DEF KeysInv, KeysTypeOK, ThrottleIsEarned
    <3> QED
      BY <1>2, <3>1, <3>2 DEF KeysInv, KeysTypeOK, KeysSettings
  <2> QED
    BY <1>0, <1>2, <2>1, <2>2, <2>3, FlightEnds DEF Keys!LandsThrottled, Keys!Lands, CallerType
<1>3. CASE /\ Keys!Fetches
           /\ \/ time >= allowed /\ allowed' = time + Throttle
              \/ UNCHANGED allowed
  <2>1. /\ UNCHANGED <<caller, cache>> /\ flight'.pc = "fetch" /\ flight'.began = time /\ flight' \in FlightType
    BY <1>3 DEF Keys!Fetches, KeysInv, KeysTypeOK, FlightType
  <2>2. KeysTypeOK'
    BY <1>0, <1>3, <2>1 DEF KeysInv, KeysTypeOK, KeysSettings
  <2>3. SnapshotIsRecent' /\ ThrottleIsEarned'
    BY <1>0, <1>3, <2>1 DEF KeysInv, KeysTypeOK, SnapshotIsRecent, ThrottleIsEarned, Keys!Published, KeysSettings
  <2>4. ASSUME NEW d \in Callers PROVE Owed(caller[d])' /\ Honoured(caller[d])'
    BY <1>0, <2>1 DEF KeysInv, Owed, Honoured, Keys!Fresh, Keys!Published
  <2> QED
    BY <2>2, <2>3, <2>4 DEF KeysInv
<1> QED
  BY <1>1, <1>2, <1>3 DEF Keys!Decide

LEMMA ReadKeeps == KeysSettings /\ KeysInv /\ Keys!Read => KeysInv'
<1> SUFFICES ASSUME KeysSettings, KeysInv, Keys!Read PROVE KeysInv'
  OBVIOUS
<1>1. /\ flight.pc = "fetch" /\ flight'.pc = "store" /\ flight'.read = Keys!Published /\ flight'.began = flight.began
      /\ flight' \in FlightType
  BY DEF Keys!Read, KeysInv, KeysTypeOK, FlightType, Keys!Published
<1>2. UNCHANGED <<time, since, gone, cache, allowed, caller, excused>>
  BY DEF Keys!Read
<1>3. KeysTypeOK'
  BY <1>1, <1>2 DEF KeysInv, KeysTypeOK
<1>4. SnapshotIsRecent' /\ ThrottleIsEarned'
  BY <1>1, <1>2 DEF KeysInv, KeysTypeOK, SnapshotIsRecent, ThrottleIsEarned, Keys!Published, Keys!Never, KeysSettings, FlightType
<1>5. ASSUME NEW d \in Callers PROVE Owed(caller[d])' /\ Honoured(caller[d])'
  BY <1>2 DEF KeysInv, Owed, Honoured, Keys!Fresh, Keys!Published
<1> QED
  BY <1>3, <1>4, <1>5 DEF KeysInv

(* The snapshot that a fetch leaves has every key that somebody is owed.             *)
LEMMA StoreKeeps == KeysSettings /\ KeysInv /\ Keys!Store => KeysInv'
<1> SUFFICES ASSUME KeysSettings, KeysInv, Keys!Store PROVE KeysInv'
  OBVIOUS
<1>1. CASE flight.read = {}
  BY <1>1, FlightFails DEF Keys!Store
<1>2. CASE flight.read # {}
  <2>0. /\ flight.pc = "store" /\ UNCHANGED <<time, since, gone, allowed, excused>>
        /\ cache' = [keys |-> flight.read, at |-> time] /\ Keys!Lands(FALSE)
    BY <1>2 DEF Keys!Store
  <2>n. /\ time \in Nat /\ allowed \in Nat /\ excused \in Nat
        /\ \A k \in Kids : since[k] \in Nat /\ gone[k] \in Nat
        /\ flight.began \in Nat /\ flight.read \subseteq Kids
        /\ flight.began <= time /\ time <= flight.began + FetchLimit
        /\ Lifetime \in Nat \ {0} /\ Throttle \in Nat \ {0} /\ FetchLimit \in Nat
    BY <2>0 DEF KeysInv, KeysTypeOK, FlightType, SnapshotIsRecent, KeysSettings
  <2>r. \A k \in Kids : /\ k \notin flight.read => flight.began <= since[k]
                        /\ k \in flight.read => k \in Keys!Published \/ flight.began <= gone[k]
    BY <2>0, <2>n DEF KeysInv, SnapshotIsRecent
  <2>t. \A d \in Callers : caller[d] \in CallerType /\ Owed(caller[d]) /\ Honoured(caller[d])
    BY DEF KeysInv, KeysTypeOK
  <2>1. KeysTypeOK'
    BY <2>0, <2>n, LandsTyped DEF KeysInv, KeysTypeOK
  <2>2. SnapshotIsRecent'
    <3>1. cache'.keys = flight.read /\ cache'.at = time /\ flight'.pc = "none" /\ Keys!Published' = Keys!Published
      BY <2>0 DEF Keys!Lands, Keys!None, Keys!Published
    <3>2. ASSUME NEW k \in flight.read PROVE k \in Keys!Published \/ time <= gone[k] + FetchLimit
      BY <2>n, <2>r
    <3> QED
      BY <2>0, <2>n, <3>1, <3>2 DEF SnapshotIsRecent
  <2>3. ThrottleIsEarned'
    <3>1. allowed <= flight.began + Throttle /\ allowed <= time + Throttle
      BY <2>0 DEF KeysInv, ThrottleIsEarned
    <3>2. ASSUME NEW k \in Kids \ flight.read PROVE allowed <= since[k] + Throttle
      <4>1. flight.began <= since[k] /\ since[k] \in Nat
        BY <2>n, <2>r
      <4> QED
        BY <2>n, <3>1, <4>1
    <3> QED
      BY <2>0, <3>1, <3>2 DEF ThrottleIsEarned, Keys!Lands, Keys!None
  <2>4. ASSUME NEW d \in Callers PROVE Owed(caller[d])' /\ Honoured(caller[d])'
    <3>1. /\ caller'[d].due = caller[d].due /\ caller'[d].kid = caller[d].kid /\ caller[d].kid \subseteq Kids
          /\ caller'[d].pc = IF caller[d].pc = "wait" THEN "after" ELSE caller[d].pc
      BY <2>0, <2>t DEF Keys!Lands, CallerType
    <3>2. ASSUME caller[d].due, NEW k \in caller[d].kid PROVE k \in flight.read
      <4>1. since[k] + FetchLimit + Throttle <= time /\ k \in Kids
        BY <2>t, <3>1, <3>2 DEF Owed
      <4> QED
        <5>1. since[k] \in Nat /\ (k \notin flight.read => flight.began <= since[k])
          BY <2>n, <2>r, <4>1
        <5> QED
          BY <2>n, <4>1, <5>1
    <3>3. Keys!Fresh'
      BY <1>2, <2>0, <2>n DEF Keys!Fresh
    <3>4. Owed(caller[d])'
      BY <2>0, <2>t, <3>1, <3>2, <3>3 DEF Owed
    <3> QED
      BY <2>0, <2>t, <3>1, <3>4 DEF Honoured, Keys!Published
  <2> QED
    BY <2>1, <2>2, <2>3, <2>4 DEF KeysInv
<1> QED
  BY <1>1, <1>2

LEMMA RotateKeeps == KeysSettings /\ KeysInv /\ Keys!Rotate => KeysInv'
<1> SUFFICES ASSUME KeysSettings, KeysInv, Keys!Rotate PROVE KeysInv'
  OBVIOUS
<1>0. PICK k \in Kids :
        IF k \in Keys!Published
        THEN /\ since' = [since EXCEPT ![k] = Keys!Never] /\ gone' = [gone EXCEPT ![k] = time]
             /\ caller' = [c \in Callers |-> IF k \in caller[c].kid THEN [caller[c] EXCEPT !.due = FALSE] ELSE caller[c]]
        ELSE since' = [since EXCEPT ![k] = time] /\ UNCHANGED <<gone, caller>>
  BY DEF Keys!Rotate
<1>u. UNCHANGED <<time, cache, allowed, flight, excused>>
  BY DEF Keys!Rotate
<1>t. /\ time \in Nat /\ time <= MaxTime /\ allowed \in Nat /\ excused \in Nat
      /\ since \in [Kids -> Nat] /\ gone \in [Kids -> Nat]
      /\ cache \in [keys : SUBSET Kids, at : Nat] /\ flight \in FlightType
      /\ caller \in [Callers -> CallerType]
      /\ \A d \in Callers : caller[d] \in CallerType /\ Owed(caller[d]) /\ Honoured(caller[d])
      /\ Keys!Never \in Nat /\ time < Keys!Never
  BY DEF KeysInv, KeysTypeOK, Keys!Never, KeysSettings
<1>1. /\ since' \in [Kids -> Nat] /\ gone' \in [Kids -> Nat]
      /\ since'[k] = (IF k \in Keys!Published THEN Keys!Never ELSE time)
      /\ gone'[k] = (IF k \in Keys!Published THEN time ELSE gone[k])
      /\ \A j \in Kids \ {k} : since'[j] = since[j] /\ gone'[j] = gone[j]
      /\ k \in Keys!Published' <=> k \notin Keys!Published
      /\ \A j \in Kids \ {k} : j \in Keys!Published' <=> j \in Keys!Published
  BY <1>0, <1>t DEF Keys!Published
<1>2. ASSUME NEW d \in Callers
      PROVE  /\ caller'[d] \in CallerType
             /\ caller'[d] = caller[d] \/ caller'[d] = [caller[d] EXCEPT !.due = FALSE]
             /\ caller'[d].due => k \notin Keys!Published \/ k \notin caller[d].kid
  <2>1. [caller[d] EXCEPT !.due = FALSE] \in CallerType /\ [caller[d] EXCEPT !.due = FALSE].due = FALSE
    BY <1>t DEF CallerType
  <2> QED
    BY <1>0, <1>t, <2>1
<1>3. KeysTypeOK'
  <2>1. caller' = [d \in Callers |-> caller'[d]]
    BY <1>0, <1>t
  <2> QED
    BY <1>u, <1>t, <1>1, <1>2, <2>1 DEF KeysTypeOK
<1>4. SnapshotIsRecent'
  <2>1. ASSUME NEW j \in cache.keys PROVE j \in Keys!Published' \/ cache.at <= gone'[j] + FetchLimit
    <3>1. /\ j \in Kids /\ cache.at \in Nat /\ FetchLimit \in Nat /\ cache.at <= time
          /\ j \in Keys!Published \/ cache.at <= gone[j] + FetchLimit
      BY <1>t DEF KeysInv, KeysTypeOK, SnapshotIsRecent, KeysSettings
    <3> QED
      BY <1>t, <1>1, <3>1
  <2> QED
    BY <1>u, <1>t, <1>1, <2>1 DEF KeysInv, SnapshotIsRecent, FlightType
<1>5. ThrottleIsEarned'
  BY <1>u, <1>t, <1>1 DEF KeysInv, ThrottleIsEarned, KeysSettings
<1>6. ASSUME NEW d \in Callers PROVE Owed(caller[d])' /\ Honoured(caller[d])'
  <2>1. /\ caller'[d].pc = caller[d].pc /\ caller'[d].kid = caller[d].kid /\ caller'[d].changed = caller[d].changed
        /\ caller'[d].erred = caller[d].erred /\ caller'[d].attempt = caller[d].attempt
        /\ caller'[d].due => caller[d].due /\ (k \notin Keys!Published \/ k \notin caller[d].kid)
        /\ caller[d].kid \subseteq Kids
    BY <1>t, <1>2 DEF CallerType
  <2>2. Owed(caller[d])'
    <3>1. caller'[d].due => k \notin caller[d].kid
      BY <1>t, <2>1 DEF Owed, Keys!Published, KeysSettings
    <3> QED
      BY <1>u, <1>t, <1>1, <2>1, <3>1 DEF Owed, Keys!Fresh
  <2>3. Honoured(caller[d])'
    <3>1. Lifetime \in Nat \ {0} /\ FetchLimit \in Nat
      BY DEF KeysSettings
    <3>2. ASSUME NEW j \in caller[d].kid, caller[d].pc = "accepted"
          PROVE  j \in Keys!Published' \/ time < gone'[j] + Lifetime + FetchLimit
      <4>1. j \in Kids /\ (j \in Keys!Published \/ time < gone[j] + Lifetime + FetchLimit)
        BY <1>t, <2>1, <3>2 DEF Honoured
      <4> QED
        BY <1>t, <1>1, <3>1, <4>1
    <3> QED
      BY <1>u, <2>1, <3>2 DEF Honoured
  <2> QED
    BY <2>2, <2>3
<1> QED
  BY <1>3, <1>4, <1>5, <1>6 DEF KeysInv

LEMMA ClockKeeps == KeysSettings /\ KeysInv /\ Keys!Tick => KeysInv'
<1> SUFFICES ASSUME KeysSettings, KeysInv, Keys!Tick PROVE KeysInv'
  OBVIOUS
<1>0. /\ time < MaxTime /\ time' = time + 1
      /\ UNCHANGED <<since, gone, cache, allowed, flight, caller, excused>>
      /\ \A c \in Callers : caller[c].pc \in {"idle", "join", "wait"}
      /\ flight.pc \in {"fetch", "store"} => time < flight.began + FetchLimit
  BY DEF Keys!Tick
<1>1. KeysTypeOK'
  BY <1>0 DEF KeysInv, KeysTypeOK, KeysSettings
<1>2. SnapshotIsRecent' /\ ThrottleIsEarned'
  BY <1>0 DEF KeysInv, KeysTypeOK, SnapshotIsRecent, ThrottleIsEarned, Keys!Published, KeysSettings, FlightType
<1>3. ASSUME NEW d \in Callers PROVE Owed(caller[d])' /\ Honoured(caller[d])'
  <2>1. caller[d] \in CallerType /\ Owed(caller[d]) /\ time \in Nat /\ excused \in Nat /\ since \in [Kids -> Nat]
    BY DEF KeysInv, KeysTypeOK
  <2> QED
    BY <1>0, <2>1 DEF Owed, Honoured, CallerType, KeysSettings
<1> QED
  BY <1>1, <1>2, <1>3 DEF KeysInv

LEMMA KeysStep == KeysSettings /\ KeysInv /\ [Keys!Next]_(Keys!vars) => KeysInv'
<1> SUFFICES ASSUME KeysSettings, KeysInv, [Keys!Next]_(Keys!vars) PROVE KeysInv'
  OBVIOUS
<1>t. /\ time \in Nat /\ excused \in Nat /\ since \in [Kids -> Nat] /\ caller \in [Callers -> CallerType]
      /\ gone \in [Kids -> Nat] /\ cache \in [keys : SUBSET Kids, at : Nat]
      /\ \A d \in Callers : caller[d] \in CallerType /\ Owed(caller[d]) /\ Honoured(caller[d])
  BY DEF KeysInv, KeysTypeOK
<1>1. ASSUME NEW c \in Callers, Keys!Ask(c) PROVE KeysInv'
  <2>1. PICK k \in Kids : caller' =
          [caller EXCEPT ![c] = [Keys!Idle EXCEPT !.pc = "look", !.kid = {k},
                                             !.due = since[k] + FetchLimit + Throttle <= time /\ excused <= time]]
    BY <1>1 DEF Keys!Ask
  <2> DEFINE x == [Keys!Idle EXCEPT !.pc = "look", !.kid = {k},
                               !.due = since[k] + FetchLimit + Throttle <= time /\ excused <= time]
  <2>2. /\ x.pc = "look" /\ x.kid = {k} /\ x.changed = FALSE /\ x \in CallerType
        /\ x.due <=> since[k] + FetchLimit + Throttle <= time /\ excused <= time
    BY DEF Keys!Idle, CallerType
  <2>3. Owed(x) /\ Honoured(x)
    BY <2>2 DEF Owed, Honoured
  <2> HIDE DEF x
  <2> QED
    BY <1>1, <2>1, <2>2, <2>3, CallerMoves DEF Keys!Ask, x
<1>a. ASSUME NEW c \in Callers, Keys!Found(caller[c].kid), caller' = Keys!Accepted(c),
             UNCHANGED <<time, since, gone, cache, allowed, flight, excused>>
      PROVE  KeysInv'
  <2> DEFINE x == [Keys!Idle EXCEPT !.pc = "accepted", !.kid = caller[c].kid]
  <2>1. x.pc = "accepted" /\ x.kid = caller[c].kid /\ x.due = FALSE /\ x \in CallerType
    BY <1>t DEF Keys!Idle, CallerType
  <2>2. caller[c].kid \subseteq cache.keys /\ time < cache.at + Lifetime /\ caller[c].kid \subseteq Kids
    BY <1>a, <1>t DEF Keys!Found, Keys!Fresh, CallerType
  <2>3. Honoured(x)
    BY <1>t, <2>1, <2>2 DEF Honoured, KeysInv, SnapshotIsRecent, KeysSettings
  <2>4. Owed(x)
    BY <2>1 DEF Owed
  <2>5. caller' = [caller EXCEPT ![c] = x]
    BY <1>a DEF Keys!Accepted
  <2> HIDE DEF x
  <2> QED
    BY <1>a, <2>1, <2>3, <2>4, <2>5, CallerMoves
<1>2. ASSUME NEW c \in Callers, Keys!Look(c) PROVE KeysInv'
  <2>1. CASE Keys!Found(caller[c].kid)
    BY <1>2, <1>a, <2>1 DEF Keys!Look
  <2>2. CASE ~Keys!Found(caller[c].kid)
    <3> DEFINE x == [caller[c] EXCEPT !.pc = "join", !.changed = FALSE]
    <3>1. /\ x.pc = "join" /\ x.changed = FALSE /\ x.due = caller[c].due /\ x.kid = caller[c].kid /\ x \in CallerType
      BY <1>t DEF CallerType
    <3>2. Owed(x) /\ Honoured(x)
      BY <1>t, <3>1 DEF Owed, Honoured
    <3>3. caller' = [caller EXCEPT ![c] = x]
      BY <1>2, <2>2 DEF Keys!Look
    <3> HIDE DEF x
    <3> QED
      BY <1>2, <3>1, <3>2, <3>3, CallerMoves DEF Keys!Look
  <2> QED
    BY <2>1, <2>2
<1>3. ASSUME NEW c \in Callers, Keys!Join(c) PROVE KeysInv'
  <2> DEFINE x == [caller[c] EXCEPT !.pc = "wait"]
  <2>1. /\ x.pc = "wait" /\ x.changed = caller[c].changed /\ x.due = caller[c].due /\ x.kid = caller[c].kid
        /\ x \in CallerType /\ caller[c].pc = "join"
    BY <1>t, <1>3 DEF CallerType, Keys!Join
  <2>2. Owed(x) /\ Honoured(x)
    BY <1>t, <2>1 DEF Owed, Honoured
  <2>3. caller' = [caller EXCEPT ![c] = x]
    BY <1>3 DEF Keys!Join
  <2>4. flight' = flight \/ (flight.pc = "none" /\ flight'.pc = "decide" /\ flight' \in FlightType)
    <3>1. [Keys!None EXCEPT !.pc = "decide", !.kid = caller[c].kid] \in FlightType
      BY <1>t DEF Keys!None, FlightType, CallerType
    <3> QED
      BY <1>3, <3>1 DEF Keys!Join, Keys!None
  <2> HIDE DEF x
  <2> QED
    BY <1>3, <2>1, <2>2, <2>3, <2>4, CallerMoves DEF Keys!Join
<1>4. ASSUME NEW c \in Callers, Keys!After(c) PROVE KeysInv'
  <2>1. CASE Keys!Found(caller[c].kid)
    BY <1>4, <1>a, <2>1 DEF Keys!After
  <2>2. CASE ~Keys!Found(caller[c].kid) /\ ~caller[c].erred /\ Keys!NothingNew(c) /\ caller[c].attempt = 1
    <3> DEFINE x == [caller[c] EXCEPT !.pc = "look", !.attempt = 2, !.changed = FALSE]
    <3>1. /\ x.pc = "look" /\ x.changed = FALSE /\ x.due = caller[c].due /\ x.kid = caller[c].kid /\ x \in CallerType
      BY <1>t DEF CallerType
    <3>2. Owed(x) /\ Honoured(x)
      BY <1>t, <3>1 DEF Owed, Honoured
    <3>3. caller' = [caller EXCEPT ![c] = x]
      BY <1>4, <2>2 DEF Keys!After
    <3> HIDE DEF x
    <3> QED
      BY <1>4, <3>1, <3>2, <3>3, CallerMoves DEF Keys!After
  <2>3. CASE ~Keys!Found(caller[c].kid) /\ ~(~caller[c].erred /\ Keys!NothingNew(c) /\ caller[c].attempt = 1)
    <3> DEFINE x == [Keys!Idle EXCEPT !.pc = "refused", !.due = caller[c].due]
    <3>1. ~caller[c].due
      BY <1>t, <1>4, <2>3 DEF Owed, Keys!Found, Keys!After, Keys!NothingNew, CallerType
    <3>2. x.pc = "refused" /\ x.due = caller[c].due /\ x \in CallerType
      BY <1>t DEF Keys!Idle, CallerType
    <3>3. Owed(x) /\ Honoured(x)
      BY <3>1, <3>2 DEF Owed, Honoured
    <3>4. caller' = [caller EXCEPT ![c] = x]
      BY <1>4, <2>3 DEF Keys!After, Keys!Refused
    <3> HIDE DEF x
    <3> QED
      BY <1>4, <3>2, <3>3, <3>4, CallerMoves DEF Keys!After
  <2> QED
    BY <2>1, <2>2, <2>3
<1>5. ASSUME NEW c \in Callers, Keys!Leave(c) PROVE KeysInv'
  <2>1. Keys!Idle \in CallerType /\ Keys!Idle.pc = "idle" /\ Keys!Idle.due = FALSE
    BY DEF Keys!Idle, CallerType
  <2>2. Owed(Keys!Idle) /\ Honoured(Keys!Idle)
    BY <2>1 DEF Owed, Honoured
  <2> QED
    BY <1>5, <2>1, <2>2, CallerMoves DEF Keys!Leave
<1>6. CASE Keys!FetchFails
  BY <1>6, FlightFails DEF Keys!FetchFails
<1>7. CASE UNCHANGED Keys!vars
  <2>1. KeysTypeOK' /\ SnapshotIsRecent' /\ ThrottleIsEarned'
    BY <1>7 DEF Keys!vars, KeysInv, KeysTypeOK, SnapshotIsRecent, ThrottleIsEarned, Keys!Published
  <2>2. \A d \in Callers : Owed(caller[d])' /\ Honoured(caller[d])'
    BY <1>7, <1>t DEF Keys!vars, Owed, Honoured, Keys!Fresh, Keys!Published
  <2> QED
    BY <2>1, <2>2 DEF KeysInv
<1> QED
  BY <1>1, <1>2, <1>3, <1>4, <1>5, <1>6, <1>7, DecideKeeps, ReadKeeps, StoreKeeps, RotateKeeps, ClockKeeps DEF Keys!Next

(* A token is accepted only while its key is published or for Lifetime and one fetch  *)
(* after it was withdrawn, and a key that has been published for longer than one      *)
(* fetch and one Throttle is refused to nobody, but where a fetch failed just before   *)
(* or two flights in a row fetched nothing (identity.go:210-262).                     *)
LEMMA KeysStayCurrent ==
  ASSUME KeysSettings
  PROVE  Keys!Init /\ [][Keys!Next]_(Keys!vars) => []Keys!KeysAreCurrent
<1>1. KeysInv => Keys!KeysAreCurrent
  BY DEF KeysInv, KeysTypeOK, CallerType, Keys!KeysAreCurrent, Owed, Honoured
<1> QED
  BY <1>1, InitKeys, KeysStep, PTL

LogsSettings == IsFiniteSet(Clients) /\ Life \in Nat /\ MaxActive \in Nat /\ MaxPerSpace \in Nat

TicketType == [issued : BOOLEAN, space : SUBSET Spaces, uid : Nat, at : Nat]
ClientType ==
  [pc : {"idle", "verified", "look", "open", "recheck", "stream"}, nonce : SUBSET Tickets, log : Nat]

LogsTypeOK ==
  /\ now \in Nat /\ pod \in [Spaces -> Nat] /\ born \in [Spaces -> Nat]
  /\ ticket \in [Tickets -> TicketType]
  /\ used \in SUBSET Tickets /\ active \in Nat /\ busy \in [Spaces -> Int]
  /\ client \in [Clients -> ClientType]
  /\ admitted \in [once : SUBSET Tickets, again : SUBSET Tickets]

(* A ticket names one namespace and a pod that was there when it was issued.          *)
Bound(t) == t.issued => \E s \in Spaces : t.space = {s} /\ 0 < t.uid /\ t.uid <= born[s]

(* A request holds one issued ticket. The log it opened is that of a pod born no       *)
(* earlier than the ticket's; having looked again, of the ticket's pod itself.         *)
Entitled(x) == x.pc # "idle" =>
  \E n \in Tickets :
    /\ x.nonce = {n} /\ ticket[n].issued
    /\ x.pc = "recheck" => ticket[n].uid <= x.log /\ \A s \in ticket[n].space : x.log <= born[s]
    /\ x.pc = "stream" => x.log = ticket[n].uid

In(s) == {c \in Logs!Admitted : Logs!Space(c) = s}

Counted ==
  /\ active = Cardinality(Logs!Admitted) /\ active <= MaxActive
  /\ \A s \in Spaces : busy[s] = Cardinality(In(s)) /\ busy[s] <= MaxPerSpace

OnceOnly ==
  /\ \A n \in admitted.once : ticket[n].issued /\ (now < Logs!Expires(n) => n \in used)
  /\ admitted.again = {}

LogsInv ==
  /\ LogsTypeOK
  /\ \A s \in Spaces : pod[s] \in {0, born[s]}
  /\ \A n \in Tickets : Bound(ticket[n])
  /\ \A c \in Clients : Entitled(client[c])
  /\ Counted /\ OnceOnly

LEMMA ClaimsAre ==
  ASSUME NEW c \in Clients, NEW n \in Tickets, NEW s \in Spaces, client[c].nonce = {n}, ticket[n].space = {s}
  PROVE  Logs!Claims(c) = ticket[n] /\ Logs!Space(c) = s
<1>1. {ticket[m] : m \in client[c].nonce} = {ticket[n]}
  OBVIOUS
<1>2. Logs!Claims(c) = ticket[n]
  BY <1>1 DEF Logs!Claims
<1> QED
  BY <1>2 DEF Logs!Space

LEMMA ClaimsStay ==
  ASSUME NEW c \in Clients, client'[c].nonce = client[c].nonce, \A n \in client[c].nonce : ticket'[n] = ticket[n]
  PROVE  Logs!Claims(c)' = Logs!Claims(c) /\ Logs!Space(c)' = Logs!Space(c)
<1>1. {ticket'[n] : n \in client'[c].nonce} = {ticket[n] : n \in client[c].nonce}
  OBVIOUS
<1>2. Logs!Claims(c)' = Logs!Claims(c)
  BY <1>1 DEF Logs!Claims
<1> QED
  BY <1>2 DEF Logs!Space

LEMMA SameCardinality == \A S : Logs!Cardinality(S) = Cardinality(S)
  BY DEF Logs!Cardinality, Cardinality

(* The request of a client that is not idle.                                          *)
LEMMA OfRequest ==
  ASSUME LogsInv, NEW c \in Clients, client[c].pc # "idle"
  PROVE  \E n \in Tickets, s \in Spaces :
           /\ client[c].nonce = {n} /\ ticket[n].space = {s} /\ ticket[n].issued
           /\ Logs!Claims(c) = ticket[n] /\ Logs!Space(c) = s
           /\ ticket[n].uid \in Nat /\ 0 < ticket[n].uid /\ ticket[n].uid <= born[s] /\ born[s] \in Nat
<1>1. PICK n \in Tickets : client[c].nonce = {n} /\ ticket[n].issued
  BY DEF LogsInv, Entitled
<1>2. PICK s \in Spaces : ticket[n].space = {s} /\ 0 < ticket[n].uid /\ ticket[n].uid <= born[s]
  BY <1>1 DEF LogsInv, Bound
<1>3. ticket[n] \in TicketType /\ born[s] \in Nat
  BY DEF LogsInv, LogsTypeOK
<1> QED
  BY <1>1, <1>2, <1>3, ClaimsAre DEF TicketType

LEMMA AdmittedFinite ==
  ASSUME LogsSettings PROVE IsFiniteSet(Logs!Admitted) /\ \A s \in Spaces : IsFiniteSet(In(s))
<1>1. Logs!Admitted \subseteq Clients /\ \A s \in Spaces : In(s) \subseteq Clients
  BY DEF Logs!Admitted, In
<1> QED
  BY <1>1, FS_Subset DEF LogsSettings

(* The counters count the same requests.                                              *)
LEMMA CountKept ==
  ASSUME Counted, UNCHANGED <<active, busy>>, Logs!Admitted' = Logs!Admitted, \A c \in Logs!Admitted : Logs!Space(c)' = Logs!Space(c)
  PROVE  Counted'
<1>1. \A s \in Spaces : In(s)' = In(s)
  BY DEF In
<1> QED
  BY <1>1 DEF Counted

LEMMA CountJoins ==
  ASSUME LogsSettings, LogsInv, NEW c \in Clients, c \notin Logs!Admitted, Logs!Space(c) \in Spaces,
         Logs!Admitted' = Logs!Admitted \cup {c}, \A d \in Logs!Admitted \cup {c} : Logs!Space(d)' = Logs!Space(d),
         active < MaxActive, busy[Logs!Space(c)] < MaxPerSpace,
         active' = active + 1, busy' = [busy EXCEPT ![Logs!Space(c)] = @ + 1]
  PROVE  Counted'
<1>1. IsFiniteSet(Logs!Admitted) /\ \A s \in Spaces : IsFiniteSet(In(s))
  BY AdmittedFinite
<1>2. active' = Cardinality(Logs!Admitted') /\ active' <= MaxActive
  <2>1. Cardinality(Logs!Admitted \cup {c}) = Cardinality(Logs!Admitted) + 1
    BY <1>1, FS_AddElement
  <2> QED
    BY <2>1 DEF LogsInv, Counted, LogsTypeOK, LogsSettings
<1>3. ASSUME NEW s \in Spaces PROVE busy'[s] = Cardinality(In(s)') /\ busy'[s] <= MaxPerSpace
  <2>1. busy[s] = Cardinality(In(s)) /\ busy[s] <= MaxPerSpace /\ busy[s] \in Int
    BY DEF LogsInv, Counted, LogsTypeOK
  <2>2. CASE s = Logs!Space(c)
    <3>1. In(s)' = In(s) \cup {c} /\ c \notin In(s)
      BY <2>2 DEF In
    <3>2. Cardinality(In(s) \cup {c}) = Cardinality(In(s)) + 1
      BY <1>1, <3>1, FS_AddElement
    <3>3. busy'[s] = busy[s] + 1
      BY <2>2 DEF LogsInv, LogsTypeOK
    <3> QED
      BY <2>1, <2>2, <3>1, <3>2, <3>3 DEF LogsSettings
  <2>3. CASE s # Logs!Space(c)
    <3>1. In(s)' = In(s)
      BY <2>3 DEF In
    <3>2. busy'[s] = busy[s]
      BY <2>3 DEF LogsInv, LogsTypeOK
    <3> QED
      BY <2>1, <3>1, <3>2
  <2> QED
    BY <2>2, <2>3
<1> QED
  BY <1>2, <1>3 DEF Counted

LEMMA CountLeaves ==
  ASSUME LogsSettings, LogsInv, NEW c \in Clients, c \in Logs!Admitted, Logs!Space(c) \in Spaces,
         Logs!Admitted' = Logs!Admitted \ {c}, \A d \in Logs!Admitted \ {c} : Logs!Space(d)' = Logs!Space(d),
         active' = active - 1, busy' = [busy EXCEPT ![Logs!Space(c)] = @ - 1]
  PROVE  Counted'
<1>1. IsFiniteSet(Logs!Admitted) /\ \A s \in Spaces : IsFiniteSet(In(s))
  BY AdmittedFinite
<1>2. active' = Cardinality(Logs!Admitted') /\ active' <= MaxActive
  <2>1. Cardinality(Logs!Admitted \ {c}) = Cardinality(Logs!Admitted) - 1
    BY <1>1, FS_RemoveElement
  <2> QED
    BY <2>1 DEF LogsInv, Counted, LogsTypeOK, LogsSettings
<1>3. ASSUME NEW s \in Spaces PROVE busy'[s] = Cardinality(In(s)') /\ busy'[s] <= MaxPerSpace
  <2>1. busy[s] = Cardinality(In(s)) /\ busy[s] <= MaxPerSpace /\ busy[s] \in Int
    BY DEF LogsInv, Counted, LogsTypeOK
  <2>2. CASE s = Logs!Space(c)
    <3>1. In(s)' = In(s) \ {c} /\ c \in In(s)
      BY <2>2 DEF In
    <3>2. Cardinality(In(s) \ {c}) = Cardinality(In(s)) - 1
      BY <1>1, <3>1, FS_RemoveElement
    <3>3. busy'[s] = busy[s] - 1
      BY <2>2 DEF LogsInv, LogsTypeOK
    <3> QED
      BY <2>1, <3>1, <3>2, <3>3 DEF LogsSettings
  <2>3. CASE s # Logs!Space(c)
    <3>1. In(s)' = In(s)
      BY <2>3 DEF In
    <3>2. busy'[s] = busy[s]
      BY <2>3 DEF LogsInv, LogsTypeOK
    <3> QED
      BY <2>1, <3>1, <3>2
  <2> QED
    BY <2>2, <2>3
<1> QED
  BY <1>2, <1>3 DEF Counted

(* A request moves to x and everything but the counters is in order.                   *)
LEMMA ClientMoves ==
  ASSUME LogsInv, NEW c \in Clients, NEW x \in ClientType, client' = [client EXCEPT ![c] = x],
         UNCHANGED <<Logs!world, ticket>>, Entitled(x)
  PROVE  /\ client' \in [Clients -> ClientType]
         /\ \A s \in Spaces : pod'[s] \in {0, born'[s]}
         /\ \A n \in Tickets : Bound(ticket[n])'
         /\ \A d \in Clients : Entitled(client[d])'
         /\ client'[c] = x /\ \A d \in Clients \ {c} : client'[d] = client[d]
         /\ \A d \in Clients \ {c} : Logs!Space(d)' = Logs!Space(d)
         /\ x.nonce = client[c].nonce => Logs!Space(c)' = Logs!Space(c)
<1>1. client' \in [Clients -> ClientType] /\ client'[c] = x /\ \A d \in Clients \ {c} : client'[d] = client[d]
  BY DEF LogsInv, LogsTypeOK
<1>2. UNCHANGED <<pod, born, ticket>>
  BY DEF Logs!world
<1>3. \A d \in Clients : Entitled(client'[d])
  BY <1>1 DEF LogsInv
<1>4. \A d \in Clients : Entitled(client[d])'
  BY <1>2, <1>3 DEF Entitled
<1>5. \A n \in Tickets : Bound(ticket[n])'
  BY <1>2 DEF LogsInv, Bound
<1>6. \A s \in Spaces : pod'[s] \in {0, born'[s]}
  BY <1>2 DEF LogsInv
<1>7. \A d \in Clients \ {c} : Logs!Space(d)' = Logs!Space(d)
  BY <1>1, <1>2, ClaimsStay
<1>8. x.nonce = client[c].nonce => Logs!Space(c)' = Logs!Space(c)
  BY <1>1, <1>2, ClaimsStay
<1> QED
  BY <1>1, <1>4, <1>5, <1>6, <1>7, <1>8

(* A request goes on, and stays as it was for the counters.                            *)
LEMMA RequestGoesOn ==
  ASSUME LogsInv, NEW c \in Clients, NEW x \in ClientType, client' = [client EXCEPT ![c] = x],
         UNCHANGED <<Logs!world, ticket, active, busy, admitted>>, Entitled(x),
         x.pc \in {"look", "open", "recheck", "stream"} <=> c \in Logs!Admitted,
         c \in Logs!Admitted => x.nonce = client[c].nonce,
         used' \in SUBSET Tickets, \A n \in used : now < Logs!Expires(n) => n \in used'
  PROVE  LogsInv'
<1>1. /\ client' \in [Clients -> ClientType]
      /\ \A s \in Spaces : pod'[s] \in {0, born'[s]}
      /\ \A n \in Tickets : Bound(ticket[n])'
      /\ \A d \in Clients : Entitled(client[d])'
      /\ client'[c] = x /\ \A d \in Clients \ {c} : client'[d] = client[d]
      /\ \A d \in Clients \ {c} : Logs!Space(d)' = Logs!Space(d)
      /\ x.nonce = client[c].nonce => Logs!Space(c)' = Logs!Space(c)
  BY ClientMoves
<1>2. Logs!Admitted' = Logs!Admitted /\ \A d \in Logs!Admitted : Logs!Space(d)' = Logs!Space(d)
  BY <1>1 DEF Logs!Admitted
<1>3. Counted'
  BY <1>2, CountKept DEF LogsInv
<1>4. OnceOnly'
  BY DEF LogsInv, OnceOnly, Logs!Expires, Logs!world
<1>5. LogsTypeOK'
  BY <1>1 DEF LogsInv, LogsTypeOK, Logs!world
<1> QED
  BY <1>1, <1>3, <1>4, <1>5 DEF LogsInv

LEMMA RequestEnds ==
  ASSUME LogsSettings, LogsInv, NEW c \in Logs!Admitted, Logs!Release(c), UNCHANGED <<Logs!world, ticket>>
  PROVE  LogsInv'
<1>0. c \in Clients /\ client[c].pc # "idle" /\ c \in Logs!Admitted
  BY DEF Logs!Admitted
<1>i. Logs!Idle \in ClientType /\ Entitled(Logs!Idle) /\ Logs!Idle.pc = "idle"
  BY DEF Logs!Idle, ClientType, Entitled
<1>1. /\ client' \in [Clients -> ClientType]
      /\ \A s \in Spaces : pod'[s] \in {0, born'[s]}
      /\ \A n \in Tickets : Bound(ticket[n])'
      /\ \A d \in Clients : Entitled(client[d])'
      /\ client'[c] = Logs!Idle /\ \A d \in Clients \ {c} : client'[d] = client[d]
      /\ \A d \in Clients \ {c} : Logs!Space(d)' = Logs!Space(d)
  BY <1>0, <1>i, ClientMoves DEF Logs!Release
<1>2. Logs!Admitted' = Logs!Admitted \ {c} /\ \A d \in Logs!Admitted \ {c} : Logs!Space(d)' = Logs!Space(d)
  BY <1>1, <1>i DEF Logs!Admitted
<1>3. Logs!Space(c) \in Spaces
  BY <1>0, OfRequest
<1>4. Counted'
  BY <1>0, <1>2, <1>3, CountLeaves DEF Logs!Release
<1>5. OnceOnly'
  BY DEF LogsInv, OnceOnly, Logs!Expires, Logs!world, Logs!Release
<1>6. active \in Nat /\ active = Cardinality(Logs!Admitted) /\ IsFiniteSet(Logs!Admitted)
  BY AdmittedFinite DEF LogsInv, LogsTypeOK, Counted
<1>7. active' \in Nat
  <2>1. Cardinality(Logs!Admitted \ {c}) = active - 1 /\ Cardinality(Logs!Admitted \ {c}) \in Nat
    BY <1>0, <1>6, FS_RemoveElement, FS_CardinalityType
  <2> QED
    BY <2>1 DEF Logs!Release
<1>8. busy' \in [Spaces -> Int]
  BY <1>3 DEF Logs!Release, LogsInv, LogsTypeOK
<1>9. LogsTypeOK'
  BY <1>1, <1>7, <1>8 DEF LogsInv, LogsTypeOK, Logs!world, Logs!Release
<1> QED
  BY <1>1, <1>4, <1>5, <1>9 DEF LogsInv

LEMMA AcquireKeeps == ASSUME LogsSettings, LogsInv, NEW c \in Clients, Logs!Acquire(c) PROVE LogsInv'
<1>1. PICK n \in Tickets, s \in Spaces : client[c].nonce = {n} /\ ticket[n].space = {s} /\ ticket[n].issued /\ Logs!Space(c) = s
  BY OfRequest DEF Logs!Acquire
<1>2. Logs!Remembered \subseteq used /\ Logs!Remembered \subseteq Tickets /\ \A m \in used : now < Logs!Expires(m) => m \in Logs!Remembered
  BY DEF Logs!Remembered, LogsInv, LogsTypeOK
<1>t. client[c] \in ClientType /\ client[c].pc = "verified" /\ c \notin Logs!Admitted /\ UNCHANGED <<Logs!world, ticket>>
  BY DEF LogsInv, LogsTypeOK, Logs!Acquire, Logs!Admitted
<1>3. CASE ~Logs!Admits(c)
  <2>1. Logs!Idle \in ClientType /\ Entitled(Logs!Idle) /\ Logs!Idle.pc = "idle"
    BY DEF Logs!Idle, ClientType, Entitled
  <2>2. used' = Logs!Remembered /\ client' = [client EXCEPT ![c] = Logs!Idle] /\ UNCHANGED <<active, busy, admitted>>
    BY <1>3 DEF Logs!Acquire
  <2> QED
    BY <1>2, <1>t, <2>1, <2>2, RequestGoesOn
<1>4. CASE Logs!Admits(c)
  <2>w. PICK x : x = [client[c] EXCEPT !.pc = "look"]
    OBVIOUS
  <2>1. x \in ClientType /\ x.pc = "look" /\ x.nonce = client[c].nonce
    BY <2>w, <1>t DEF ClientType
  <2>2. Entitled(x)
    BY <1>1, <2>1 DEF Entitled
  <2>3. client' = [client EXCEPT ![c] = x]
    BY <1>4, <2>w DEF Logs!Acquire, Logs!Goes
  <2>4. /\ client' \in [Clients -> ClientType]
        /\ \A t \in Spaces : pod'[t] \in {0, born'[t]}
        /\ \A m \in Tickets : Bound(ticket[m])'
        /\ \A d \in Clients : Entitled(client[d])'
        /\ client'[c] = x /\ \A d \in Clients \ {c} : client'[d] = client[d]
        /\ \A d \in Clients \ {c} : Logs!Space(d)' = Logs!Space(d)
        /\ x.nonce = client[c].nonce => Logs!Space(c)' = Logs!Space(c)
    BY <1>t, <2>1, <2>2, <2>3, ClientMoves
  <2>5. Logs!Admitted' = Logs!Admitted \cup {c} /\ \A d \in Logs!Admitted \cup {c} : Logs!Space(d)' = Logs!Space(d)
    BY <2>1, <2>4 DEF Logs!Admitted
  <2>6. Counted'
    BY <1>1, <1>4, <1>t, <2>5, CountJoins DEF Logs!Acquire, Logs!Admits
  <2>7. PICK fresh \in SUBSET {m \in {n} : now < Logs!Expires(m)} :
          admitted' = [once |-> admitted.once \cup fresh, again |-> admitted.again \cup (fresh \cap admitted.once)]
    BY <1>1, <1>4 DEF Logs!Acquire
  <2>8. used' = Logs!Remembered \cup {n}
    BY <1>1, <1>4 DEF Logs!Acquire
  <2>9. n \notin Logs!Remembered
    BY <1>1, <1>4 DEF Logs!Admits
  <2>10. fresh \cap admitted.once = {}
    BY <1>2, <2>7, <2>9 DEF LogsInv, OnceOnly
  <2>11. OnceOnly'
    BY <1>1, <1>2, <1>t, <2>7, <2>8, <2>10 DEF LogsInv, OnceOnly, Logs!Expires, Logs!world
  <2>12. active' \in Nat /\ busy' \in [Spaces -> Int]
    BY <1>1, <1>4 DEF Logs!Acquire, LogsInv, LogsTypeOK
  <2>13. used' \in SUBSET Tickets /\ admitted' \in [once : SUBSET Tickets, again : SUBSET Tickets]
    BY <1>2, <2>7, <2>8 DEF LogsInv, LogsTypeOK
  <2>14. LogsTypeOK'
    BY <1>t, <2>4, <2>12, <2>13 DEF LogsInv, LogsTypeOK, Logs!world
  <2> QED
    BY <2>4, <2>6, <2>11, <2>14 DEF LogsInv
<1> QED
  BY <1>3, <1>4

(* Looking, opening the log by the name of the pod, and looking again.                 *)
LEMMA ServeKeeps == ASSUME LogsSettings, LogsInv, NEW c \in Clients, Logs!Serve(c) PROVE LogsInv'
<1>t. client[c] \in ClientType /\ \A s \in Spaces : pod[s] \in {0, born[s]}
  BY DEF LogsInv, LogsTypeOK
<1>u. used \in SUBSET Tickets
  BY DEF LogsInv, LogsTypeOK
<1>1. CASE Logs!Verify(c)
  <2>1. PICK n \in Tickets : ticket[n].issued /\ client' = [client EXCEPT ![c] = [Logs!Idle EXCEPT !.pc = "verified", !.nonce = {n}]]
    BY <1>1 DEF Logs!Verify
  <2>w. PICK x : x = [Logs!Idle EXCEPT !.pc = "verified", !.nonce = {n}]
    OBVIOUS
  <2>2. x \in ClientType /\ x.pc = "verified" /\ x.nonce = {n}
    BY <2>w DEF ClientType, Logs!Idle
  <2>3. Entitled(x)
    BY <2>1, <2>2 DEF Entitled
  <2>4. c \notin Logs!Admitted /\ UNCHANGED <<Logs!world, ticket, used, active, busy, admitted>>
    BY <1>1 DEF Logs!Verify, Logs!Admitted, Logs!replica
  <2> QED
    BY <1>u, <2>1, <2>w, <2>2, <2>3, <2>4, RequestGoesOn
<1>2. CASE Logs!Look(c) /\ ~Logs!Release(c)
  <2>1. client[c].pc = "look" /\ Logs!Goes(c, "open") /\ UNCHANGED <<Logs!world, ticket, used, active, busy, admitted>>
    BY <1>2 DEF Logs!Look, Logs!replica
  <2>w. PICK x : x = [client[c] EXCEPT !.pc = "open"]
    OBVIOUS
  <2>2. x \in ClientType /\ x.pc = "open" /\ x.nonce = client[c].nonce /\ client' = [client EXCEPT ![c] = x]
    BY <1>t, <2>1, <2>w DEF ClientType, Logs!Goes
  <2>3. Entitled(x) /\ c \in Logs!Admitted
    BY <2>1, <2>2 DEF Entitled, LogsInv, Logs!Admitted
  <2> QED
    BY <1>u, <2>1, <2>2, <2>3, RequestGoesOn
<1>3. CASE Logs!Open(c) /\ ~Logs!Release(c)
  <2>1. /\ client[c].pc = "open" /\ pod[Logs!Space(c)] # 0
        /\ client' = [client EXCEPT ![c].pc = "recheck", ![c].log = pod[Logs!Space(c)]]
        /\ UNCHANGED <<Logs!world, ticket, used, active, busy, admitted>>
    BY <1>3 DEF Logs!Open, Logs!replica
  <2>2. PICK n \in Tickets, s \in Spaces :
           /\ client[c].nonce = {n} /\ ticket[n].space = {s} /\ ticket[n].issued /\ Logs!Space(c) = s
           /\ ticket[n].uid \in Nat /\ ticket[n].uid <= born[s] /\ born[s] \in Nat
    BY <2>1, OfRequest
  <2>w. PICK x : x = [client[c] EXCEPT !.pc = "recheck", !.log = pod[Logs!Space(c)]]
    OBVIOUS
  <2>3. pod[Logs!Space(c)] = born[s]
    BY <1>t, <2>1, <2>2
  <2>4. x \in ClientType /\ x.pc = "recheck" /\ x.log = born[s] /\ x.nonce = client[c].nonce
    BY <1>t, <2>w, <2>2, <2>3 DEF ClientType
  <2>5. client' = [client EXCEPT ![c] = x]
    BY <2>1, <2>w, <1>t DEF LogsInv, LogsTypeOK
  <2>6. Entitled(x) /\ c \in Logs!Admitted
    BY <2>1, <2>2, <2>4 DEF Entitled, Logs!Admitted
  <2> QED
    BY <1>u, <2>1, <2>4, <2>5, <2>6, RequestGoesOn
<1>4. CASE Logs!Recheck(c) /\ ~Logs!Release(c)
  <2>1. /\ client[c].pc = "recheck" /\ Logs!Owns(c) /\ Logs!Goes(c, "stream")
        /\ UNCHANGED <<Logs!world, ticket, used, active, busy, admitted>>
    BY <1>4 DEF Logs!Recheck, Logs!replica
  <2>2. PICK n \in Tickets, s \in Spaces :
           /\ client[c].nonce = {n} /\ ticket[n].space = {s} /\ ticket[n].issued
           /\ Logs!Claims(c) = ticket[n] /\ Logs!Space(c) = s
           /\ ticket[n].uid \in Nat /\ 0 < ticket[n].uid /\ ticket[n].uid <= born[s] /\ born[s] \in Nat
    BY <2>1, OfRequest
  <2>3. ticket[n].uid <= client[c].log /\ client[c].log <= born[s] /\ client[c].log \in Nat
    BY <1>t, <2>1, <2>2 DEF LogsInv, Entitled, ClientType
  <2>4. client[c].log = ticket[n].uid
    BY <1>t, <2>1, <2>2, <2>3 DEF Logs!Owns
  <2>w. PICK x : x = [client[c] EXCEPT !.pc = "stream"]
    OBVIOUS
  <2>5. x \in ClientType /\ x.pc = "stream" /\ x.log = client[c].log /\ x.nonce = client[c].nonce
        /\ client' = [client EXCEPT ![c] = x]
    BY <1>t, <2>1, <2>w DEF ClientType, Logs!Goes
  <2>6. Entitled(x) /\ c \in Logs!Admitted
    BY <2>1, <2>2, <2>4, <2>5 DEF Entitled, Logs!Admitted
  <2> QED
    BY <1>u, <2>1, <2>5, <2>6, RequestGoesOn
<1>5. CASE (Logs!Look(c) \/ Logs!Open(c) \/ Logs!Recheck(c) \/ Logs!End(c)) /\ Logs!Release(c)
  <2>1. c \in Logs!Admitted /\ UNCHANGED <<Logs!world, ticket>>
    BY <1>5 DEF Logs!Look, Logs!Open, Logs!Recheck, Logs!End, Logs!Admitted
  <2> QED
    BY <1>5, <2>1, RequestEnds
<1> QED
  BY <1>1, <1>2, <1>3, <1>4, <1>5, AcquireKeeps DEF Logs!Serve, Logs!End

LEMMA IssueKeeps == ASSUME LogsInv, NEW n \in Tickets, Logs!Issue(n) PROVE LogsInv'
<1>1. PICK s \in Spaces :
         /\ pod[s] # 0
         /\ ticket' = [ticket EXCEPT ![n] = [issued |-> TRUE, space |-> {s}, uid |-> pod[s], at |-> now]]
  BY DEF Logs!Issue
<1>2. ~ticket[n].issued /\ UNCHANGED <<now, pod, born, used, active, busy, admitted, client>>
  BY DEF Logs!Issue, Logs!world, Logs!replica
<1>t. LogsTypeOK /\ pod[s] = born[s] /\ pod[s] \in Nat
  BY <1>1 DEF LogsInv, LogsTypeOK
<1>3. ticket' \in [Tickets -> TicketType] /\ \A m \in Tickets \ {n} : ticket'[m] = ticket[m]
  BY <1>1, <1>t DEF LogsTypeOK, TicketType
<1>4. ticket'[n] = [issued |-> TRUE, space |-> {s}, uid |-> pod[s], at |-> now]
  BY <1>1, <1>t DEF LogsTypeOK
<1>5. \A m \in Tickets : Bound(ticket[m])'
  <2>1. Bound(ticket[n])'
    BY <1>1, <1>2, <1>4, <1>t DEF Bound
  <2>2. ASSUME NEW m \in Tickets \ {n} PROVE Bound(ticket[m])'
    BY <1>2, <1>3 DEF LogsInv, Bound
  <2> QED
    BY <2>1, <2>2
<1>6. ASSUME NEW c \in Clients PROVE Entitled(client[c])'
  <2>1. Entitled(client[c])
    BY DEF LogsInv
  <2> QED
    BY <1>2, <1>3, <2>1 DEF Entitled
<1>7. ASSUME NEW c \in Logs!Admitted PROVE Logs!Space(c)' = Logs!Space(c)
  <2>1. c \in Clients /\ client[c].pc # "idle"
    BY DEF Logs!Admitted
  <2>2. PICK m \in Tickets : client[c].nonce = {m} /\ ticket[m].issued
    BY <2>1 DEF LogsInv, Entitled
  <2>3. ticket'[m] = ticket[m]
    BY <1>2, <1>3, <2>2
  <2> QED
    BY <1>2, <2>1, <2>2, <2>3, ClaimsStay
<1>8. Counted'
  <2>1. Logs!Admitted' = Logs!Admitted
    BY <1>2 DEF Logs!Admitted
  <2> QED
    BY <1>2, <1>7, <2>1, CountKept DEF LogsInv
<1>9. OnceOnly'
  <2>1. \A m \in admitted.once : m \in Tickets /\ ticket[m].issued /\ ticket'[m] = ticket[m]
    BY <1>2, <1>3 DEF LogsInv, LogsTypeOK, OnceOnly
  <2> QED
    BY <1>2, <2>1 DEF LogsInv, OnceOnly, Logs!Expires
<1>10. LogsTypeOK' /\ \A r \in Spaces : pod'[r] \in {0, born'[r]}
  BY <1>2, <1>3 DEF LogsInv, LogsTypeOK
<1> QED
  BY <1>5, <1>6, <1>8, <1>9, <1>10 DEF LogsInv

(* Pods come and go, and time passes.                                                  *)
LEMMA WorldKeeps ==
  ASSUME LogsSettings, LogsInv, UNCHANGED <<ticket, used, active, busy, admitted, client>>, now' \in Nat, now <= now',
         pod' \in [Spaces -> Nat], born' \in [Spaces -> Nat],
         \A s \in Spaces : born[s] <= born'[s] /\ pod'[s] \in {0, born'[s]}
  PROVE  LogsInv'
<1>t. /\ now \in Nat /\ born \in [Spaces -> Nat] /\ ticket \in [Tickets -> TicketType]
      /\ client \in [Clients -> ClientType]
  BY DEF LogsInv, LogsTypeOK
<1>1. LogsTypeOK'
  BY DEF LogsInv, LogsTypeOK
<1>2. ASSUME NEW n \in Tickets PROVE Bound(ticket[n])'
  <2>1. Bound(ticket[n]) /\ ticket[n] \in TicketType
    BY <1>t DEF LogsInv
  <2> QED
    BY <1>t, <2>1 DEF Bound, TicketType
<1>3. ASSUME NEW c \in Clients PROVE Entitled(client[c])'
  <2>1. CASE client[c].pc = "idle"
    BY <2>1 DEF Entitled
  <2>2. CASE client[c].pc # "idle"
    <3>1. PICK n \in Tickets :
            /\ client[c].nonce = {n} /\ ticket[n].issued
            /\ client[c].pc = "recheck" =>
                 ticket[n].uid <= client[c].log /\ \A s \in ticket[n].space : client[c].log <= born[s]
            /\ client[c].pc = "stream" => client[c].log = ticket[n].uid
      BY <2>2 DEF LogsInv, Entitled
    <3>2. client[c].log \in Nat /\ ticket[n].space \subseteq Spaces
      BY <1>t DEF ClientType, TicketType
    <3>3. ASSUME NEW s \in ticket[n].space, client[c].log <= born[s] PROVE client[c].log <= born'[s]
      BY <1>t, <3>2, <3>3
    <3> QED
      BY <3>1, <3>3 DEF Entitled
  <2> QED
    BY <2>1, <2>2
<1>4. Counted'
  <2>1. Logs!Admitted' = Logs!Admitted /\ \A c \in Logs!Admitted : Logs!Space(c)' = Logs!Space(c)
    BY ClaimsStay DEF Logs!Admitted
  <2> QED
    BY <2>1, CountKept DEF LogsInv
<1>5. OnceOnly'
  <2>1. ASSUME NEW n \in admitted.once PROVE ticket[n].issued /\ (now' < Logs!Expires(n) => n \in used)
    <3>1. n \in Tickets /\ ticket[n].issued /\ (now < Logs!Expires(n) => n \in used)
      BY DEF LogsInv, OnceOnly, LogsTypeOK
    <3>2. ticket[n].at \in Nat
      BY <1>t, <3>1 DEF TicketType
    <3>3. Logs!Expires(n) \in Nat
      BY <3>2 DEF Logs!Expires, LogsSettings
    <3> QED
      BY <1>t, <3>1, <3>3
  <2>2. admitted.again = {}
    BY DEF LogsInv, OnceOnly
  <2> QED
    BY <2>1, <2>2 DEF OnceOnly, Logs!Expires
<1> QED
  BY <1>1, <1>2, <1>3, <1>4, <1>5 DEF LogsInv

LEMMA ExitKeeps == ASSUME LogsSettings, LogsInv, Logs!Exit PROVE LogsInv'
<1>1. /\ client' = [c \in Clients |-> Logs!Idle] /\ used' = {} /\ active' = 0 /\ busy' = [s \in Spaces |-> 0]
      /\ admitted' = [once |-> {}, again |-> {}] /\ UNCHANGED <<now, pod, born, ticket>>
  BY DEF Logs!Exit, Logs!world
<1>2. Logs!Idle \in ClientType /\ Logs!Idle.pc = "idle"
  BY DEF Logs!Idle, ClientType
<1>3. Logs!Admitted' = {} /\ \A s \in Spaces : In(s)' = {}
  BY <1>1, <1>2 DEF Logs!Admitted, In
<1>4. Counted'
  BY <1>1, <1>3, FS_EmptySet DEF Counted, LogsSettings
<1>5. \A c \in Clients : Entitled(client[c])'
  BY <1>1, <1>2 DEF Entitled
<1>6. OnceOnly'
  BY <1>1 DEF OnceOnly
<1>7. LogsTypeOK' /\ (\A s \in Spaces : pod'[s] \in {0, born'[s]})
  BY <1>1, <1>2 DEF LogsInv, LogsTypeOK
<1>8. \A n \in Tickets : Bound(ticket[n])'
  BY <1>1 DEF LogsInv, Bound
<1> QED
  BY <1>4, <1>5, <1>6, <1>7, <1>8 DEF LogsInv

LEMMA InitLogs == ASSUME LogsSettings PROVE Logs!Init => LogsInv
<1> SUFFICES ASSUME Logs!Init PROVE LogsInv
  OBVIOUS
<1>1. Logs!Idle \in ClientType /\ Logs!Idle.pc = "idle" /\ Logs!None \in TicketType /\ ~Logs!None.issued
  BY DEF Logs!Idle, ClientType, Logs!None, TicketType
<1>2. LogsTypeOK /\ \A s \in Spaces : pod[s] \in {0, born[s]}
  BY <1>1 DEF Logs!Init, LogsTypeOK
<1>3. Logs!Admitted = {} /\ \A s \in Spaces : In(s) = {}
  BY <1>1 DEF Logs!Init, Logs!Admitted, In
<1>4. Counted
  BY <1>3, FS_EmptySet DEF Logs!Init, Counted, LogsSettings
<1> QED
  BY <1>1, <1>2, <1>4 DEF Logs!Init, LogsInv, Bound, Entitled, OnceOnly

LEMMA LogsStep == ASSUME LogsSettings PROVE LogsInv /\ [Logs!Next]_(Logs!vars) => LogsInv'
<1> SUFFICES ASSUME LogsInv, [Logs!Next]_(Logs!vars) PROVE LogsInv'
  OBVIOUS
<1>t. /\ now \in Nat /\ pod \in [Spaces -> Nat] /\ born \in [Spaces -> Nat]
      /\ \A s \in Spaces : pod[s] \in {0, born[s]}
  BY DEF LogsInv, LogsTypeOK
<1>1. CASE Logs!Tick
  <2>1. UNCHANGED <<pod, born, ticket, used, active, busy, admitted, client>> /\ now' = now + 1
    BY <1>1 DEF Logs!Tick, Logs!replica
  <2> QED
    BY <1>t, <2>1, WorldKeeps
<1>2. CASE Logs!Drain \/ UNCHANGED Logs!vars
  <2>1. UNCHANGED <<now, pod, born, ticket, used, active, busy, admitted, client>>
    BY <1>2 DEF Logs!Drain, Logs!vars, Logs!world
  <2> QED
    BY <1>t, <2>1, WorldKeeps
<1>3. ASSUME NEW s \in Spaces, Logs!PodGoes(s) \/ Logs!PodComes(s) PROVE LogsInv'
  <2>1. UNCHANGED <<now, ticket, used, active, busy, admitted, client>>
    BY <1>3 DEF Logs!PodGoes, Logs!PodComes, Logs!replica
  <2>2. CASE Logs!PodGoes(s)
    <3>1. pod' = [pod EXCEPT ![s] = 0] /\ UNCHANGED born
      BY <2>2 DEF Logs!PodGoes
    <3>2. pod' \in [Spaces -> Nat] /\ \A r \in Spaces : born[r] <= born'[r] /\ pod'[r] \in {0, born'[r]}
      BY <1>t, <3>1
    <3> QED
      BY <1>t, <2>1, <3>1, <3>2, WorldKeeps
  <2>3. CASE Logs!PodComes(s)
    <3>1. born' = [born EXCEPT ![s] = @ + 1] /\ pod' = [pod EXCEPT ![s] = born[s] + 1]
      BY <2>3 DEF Logs!PodComes
    <3>2. pod' \in [Spaces -> Nat] /\ born' \in [Spaces -> Nat]
      BY <1>t, <3>1
    <3>3. ASSUME NEW r \in Spaces PROVE born[r] <= born'[r] /\ pod'[r] \in {0, born'[r]}
      BY <1>t, <3>1
    <3> QED
      BY <1>t, <2>1, <3>2, <3>3, WorldKeeps
  <2> QED
    BY <1>3, <2>2, <2>3
<1> QED
  BY <1>1, <1>2, <1>3, ExitKeeps, IssueKeeps, ServeKeeps DEF Logs!Next

(* What is sent is the log of the pod the ticket names, the counters are those of the  *)
(* requests under way and a ticket is admitted once before it expires                  *)
(* (services/log-stream-go/server.go).                                                 *)
LEMMA LogsStayTheirs == ASSUME LogsSettings PROVE Logs!Init /\ [][Logs!Next]_(Logs!vars) => []Logs!LogsAreTheirs
<1>1. LogsInv => Logs!LogsAreTheirs
  <2> SUFFICES ASSUME LogsInv PROVE Logs!LogsAreTheirs
    OBVIOUS
  <2>1. ASSUME NEW c \in Clients, client[c].pc = "stream" PROVE client[c].log = Logs!Claims(c).uid
    <3>1. PICK n \in Tickets : client[c].nonce = {n} /\ Logs!Claims(c) = ticket[n]
      BY <2>1, OfRequest
    <3> QED
      BY <2>1, <3>1 DEF LogsInv, Entitled
  <2>2. active = Cardinality(Logs!Admitted) /\ active <= MaxActive /\ admitted.again = {}
    BY DEF LogsInv, Counted, OnceOnly
  <2>3. ASSUME NEW s \in Spaces
        PROVE  busy[s] = Cardinality({c \in Logs!Admitted : Logs!Space(c) = s}) /\ busy[s] <= MaxPerSpace
    BY DEF LogsInv, Counted, In
  <2> QED
    BY <2>1, <2>2, <2>3, SameCardinality DEF Logs!LogsAreTheirs
<1> QED
  BY <1>1, InitLogs, LogsStep, PTL

(* While workers download: unless the context is cancelled or one of them failed,     *)
(* what was listed is still to be taken, in the hands of a worker, or staged.          *)
Gathering ==
  /\ staged /\ placed = {} /\ items # {}
  /\ todo \subseteq items /\ stage \subseteq items
  /\ \A w \in Workers : \A x, y \in loader[w] : x = y
  /\ ~Loader!Spoilt => \A i \in items : i \in todo \/ i \in stage \/ \E w \in Workers : i \in loader[w]

LoaderInv ==
  /\ kills \in Nat /\ (pc = "killed" => kills > 0)
  /\ pc \in Loader!Ended \cup {"list", "download", "publish", "clean"}
  /\ \A i \in items : i = [name |-> i.name, version |-> i.version]
  /\ loader \in [Workers -> SUBSET items]
  /\ ~staged => stage = {}
  /\ pc = "list" => Loader!EmptyVolume /\ \A w \in Workers : loader[w] = {}
  /\ pc = "download" => Gathering
  /\ pc = "publish" => staged /\ items # {} /\ items = stage \cup placed
  /\ pc = "clean" => placed = {}
  /\ pc = "succeeded" => ~staged /\ items # {} /\ items = placed
  /\ pc \in {"off", "failed"} /\ kills = 0 => Loader!EmptyVolume

LEMMA InitLoader == Loader!Init => LoaderInv
  BY DEF Loader!Init, LoaderInv, Loader!Ended, Loader!EmptyVolume

LEMMA ListKeeps == LoaderInv /\ Loader!List => LoaderInv'
<1> SUFFICES ASSUME LoaderInv, Loader!List PROVE LoaderInv'
  OBVIOUS
<1>1. CASE Loader!Fail
  BY <1>1 DEF Loader!List, Loader!Fail, LoaderInv, Loader!Ended, Loader!pool, Loader!disk, Loader!env, Loader!EmptyVolume
<1>2. CASE ~Loader!Fail
  <2>1. UNCHANGED <<pc, todo, loader, stage, staged, placed, kills>> /\ pc = "list"
    BY <1>2 DEF Loader!List, Loader!pool, Loader!disk, Loader!env
  <2>2. PICK last : items' = items \cup Loader!Listed(last) \/ items' \subseteq Loader!Listed(last)
    BY <1>2 DEF Loader!List
  <2>3. \A i \in items' : i = [name |-> i.name, version |-> i.version]
    BY <2>2 DEF Loader!Listed, LoaderInv
  <2>4. loader' \in [Workers -> SUBSET items']
    BY <2>1 DEF LoaderInv
  <2> QED
    BY <2>1, <2>3, <2>4 DEF LoaderInv, Loader!Ended, Loader!EmptyVolume
<1> QED
  BY <1>1, <1>2

LEMMA StageKeeps == LoaderInv /\ Loader!Stage => LoaderInv'
<1> SUFFICES ASSUME LoaderInv, Loader!Stage PROVE LoaderInv'
  OBVIOUS
<1>1. CASE Loader!Fail
  BY <1>1 DEF Loader!Stage, Loader!Fail, LoaderInv, Loader!Ended, Loader!pool, Loader!disk, Loader!env, Loader!EmptyVolume
<1>2. CASE ~Loader!Fail
  <2>1. /\ pc = "list" /\ pc' = "download" /\ todo' = items /\ staged' = TRUE
        /\ items # {} /\ UNCHANGED <<items, loader, stage, placed, kills>>
    BY <1>2 DEF Loader!Stage, Loader!env
  <2>2. stage = {} /\ placed = {} /\ \A w \in Workers : loader[w] = {}
    BY <2>1 DEF LoaderInv, Loader!EmptyVolume
  <2>3. Gathering'
    BY <2>1, <2>2 DEF Gathering
  <2> QED
    BY <2>1, <2>2, <2>3 DEF LoaderInv, Loader!Ended
<1> QED
  BY <1>1, <1>2

(* A step of a worker: it takes, finishes or gives up what it is handed.              *)
LEMMA WorkKeeps == ASSUME LoaderInv, NEW w \in Workers, Loader!Work(w) PROVE LoaderInv'
<1>1. /\ pc = "download" /\ UNCHANGED <<pc, items, staged, placed, kills>>
      /\ staged /\ placed = {} /\ items # {} /\ todo \subseteq items /\ stage \subseteq items
  BY DEF Loader!Work, Loader!Take, Loader!Downloaded, Loader!Broke, Loader!disk, Loader!env, LoaderInv, Gathering
<1>2. SUFFICES loader' \in [Workers -> SUBSET items] /\ Gathering'
  BY <1>1 DEF LoaderInv, Loader!Ended
<1>3. loader \in [Workers -> SUBSET items] /\ Gathering
  BY <1>1 DEF LoaderInv
<1>4. CASE Loader!Take(w)
  <2>1. PICK item \in todo :
          /\ todo' = todo \ {item} /\ UNCHANGED <<stage, failed, cancelled>> /\ loader[w] = {}
          /\ cancelled \/ loader' = [loader EXCEPT ![w] = {item}]
          /\ cancelled => UNCHANGED loader
    BY <1>4 DEF Loader!Take, Loader!disk
  <2>2. CASE cancelled
    BY <1>1, <1>3, <2>1, <2>2 DEF Gathering, Loader!Spoilt
  <2>3. CASE ~cancelled
    <3>1. loader' \in [Workers -> SUBSET items] /\ loader'[w] = {item}
          /\ \A v \in Workers \ {w} : loader'[v] = loader[v]
      BY <1>1, <1>3, <2>1, <2>3
    <3>2. \A v \in Workers : \A x, y \in loader'[v] : x = y
      BY <1>3, <3>1 DEF Gathering
    <3>3. ASSUME NEW i \in items, ~Loader!Spoilt'
          PROVE  i \in todo' \/ i \in stage' \/ \E v \in Workers : i \in loader'[v]
      <4>1. i \in todo \/ i \in stage \/ \E v \in Workers : i \in loader[v]
        BY <1>3, <2>1, <3>3 DEF Gathering, Loader!Spoilt
      <4>2. ASSUME NEW v \in Workers, i \in loader[v] PROVE i \in loader'[v]
        BY <2>1, <3>1, <4>2
      <4> QED
        BY <2>1, <3>1, <4>1, <4>2
    <3> QED
      BY <1>1, <2>1, <3>1, <3>2, <3>3 DEF Gathering
  <2> QED
    BY <2>2, <2>3
<1>5. CASE Loader!Downloaded(w)
  <2>1. PICK item \in loader[w] :
          Loader!Unchanged(item) /\ stage' = stage \cup {[item EXCEPT !.version = bucket[item.name]]}
    BY <1>5 DEF Loader!Downloaded
  <2>2. loader' = [loader EXCEPT ![w] = {}] /\ UNCHANGED <<todo, failed, cancelled>>
    BY <1>5 DEF Loader!Downloaded
  <2>3. item \in items /\ item = [name |-> item.name, version |-> item.version]
    BY <1>3, <2>1 DEF LoaderInv
  <2>4. bucket[item.name] = item.version
    BY <2>1 DEF Loader!Unchanged
  <2>5. stage' = stage \cup {item}
    BY <2>1, <2>3, <2>4
  <2>6. loader' \in [Workers -> SUBSET items] /\ loader'[w] = {}
        /\ \A v \in Workers \ {w} : loader'[v] = loader[v]
    BY <1>3, <2>2
  <2>7. \A v \in Workers : \A x, y \in loader'[v] : x = y
    BY <1>3, <2>6 DEF Gathering
  <2>8. ASSUME NEW i \in items, ~Loader!Spoilt'
        PROVE  i \in todo' \/ i \in stage' \/ \E v \in Workers : i \in loader'[v]
    <3>1. i \in todo \/ i \in stage \/ \E v \in Workers : i \in loader[v]
      BY <1>3, <2>2, <2>8 DEF Gathering, Loader!Spoilt
    <3>2. ASSUME NEW v \in Workers, i \in loader[v] PROVE i = item \/ i \in loader'[v]
      BY <1>3, <2>1, <2>6, <3>2 DEF Gathering
    <3> QED
      BY <2>2, <2>5, <3>1, <3>2
  <2> QED
    BY <1>1, <2>2, <2>3, <2>5, <2>6, <2>7, <2>8 DEF Gathering
<1>6. CASE Loader!Broke(w)
  <2>1. loader' = [loader EXCEPT ![w] = {}] /\ cancelled' = TRUE /\ UNCHANGED <<todo, stage>>
    BY <1>6 DEF Loader!Broke, Loader!Reported, Loader!disk
  <2>2. loader' \in [Workers -> SUBSET items] /\ loader'[w] = {}
        /\ \A v \in Workers \ {w} : loader'[v] = loader[v]
    BY <1>3, <2>1
  <2>3. \A v \in Workers : \A x, y \in loader'[v] : x = y
    BY <1>3, <2>2 DEF Gathering
  <2> QED
    BY <1>1, <2>1, <2>2, <2>3 DEF Gathering, Loader!Spoilt
<1> QED
  BY <1>4, <1>5, <1>6 DEF Loader!Work

(* When nobody has anything left to do, what was listed is staged.                    *)
LEMMA WaitKeeps == LoaderInv /\ Loader!Wait => LoaderInv'
<1> SUFFICES ASSUME LoaderInv, Loader!Wait PROVE LoaderInv'
  OBVIOUS
<1>1. /\ pc = "download" /\ todo = {} /\ \A w \in Workers : loader[w] = {}
      /\ UNCHANGED <<items, loader, stage, staged, placed, kills>>
      /\ pc' = IF Loader!Spoilt THEN "clean" ELSE "publish"
  BY DEF Loader!Wait, Loader!pool, Loader!disk, Loader!env
<1>2. Gathering
  BY <1>1 DEF LoaderInv
<1>3. ~Loader!Spoilt => items = stage \cup placed
  BY <1>1, <1>2 DEF Gathering
<1> QED
  BY <1>1, <1>2, <1>3 DEF LoaderInv, Loader!Ended, Gathering

LEMMA PublishKeeps == LoaderInv /\ Loader!Publish => LoaderInv'
<1> SUFFICES ASSUME LoaderInv, Loader!Publish PROVE LoaderInv'
  OBVIOUS
<1>1. pc = "publish" /\ items = stage \cup placed /\ items # {} /\ staged /\ UNCHANGED <<items, loader, kills>>
  BY DEF Loader!Publish, LoaderInv, Loader!pool, Loader!env
<1>2. CASE stage = {}
  BY <1>1, <1>2 DEF Loader!Publish, LoaderInv, Loader!Ended
<1>3. CASE stage # {}
  <2>1. stage' \cup placed' = stage \cup placed /\ UNCHANGED <<pc, staged>>
    BY <1>1, <1>3 DEF Loader!Publish
  <2> QED
    BY <1>1, <2>1 DEF LoaderInv, Loader!Ended
<1> QED
  BY <1>2, <1>3

LEMMA LoaderStep == LoaderInv /\ [Loader!Next]_(Loader!vars) => LoaderInv'
<1> SUFFICES ASSUME LoaderInv, [Loader!Next]_(Loader!vars) PROVE LoaderInv'
  OBVIOUS
<1>1. CASE Loader!Start
  <2>1. /\ items' = {} /\ loader' = [w \in Workers |-> {}] /\ UNCHANGED <<stage, staged, placed, kills>>
        /\ pc' = IF Loader!EmptyVolume THEN "list" ELSE "failed"
        /\ pc \in {"off", "failed", "killed"}
    BY <1>1 DEF Loader!Start, Loader!disk, Loader!Ended
  <2>2. Loader!EmptyVolume \/ kills > 0
    BY <2>1 DEF LoaderInv
  <2> QED
    BY <2>1, <2>2 DEF LoaderInv, Loader!Ended, Loader!EmptyVolume
<1>2. CASE Loader!StopDispatch
  <2>1. pc = "download" /\ cancelled' /\ todo' = {} /\ UNCHANGED <<pc, items, loader, stage, staged, placed, kills>>
    BY <1>2 DEF Loader!StopDispatch, Loader!disk, Loader!env
  <2>2. Gathering'
    BY <2>1 DEF LoaderInv, Gathering, Loader!Spoilt
  <2> QED
    BY <2>1, <2>2 DEF LoaderInv, Loader!Ended
<1>3. CASE Loader!Rollback
  BY <1>3 DEF Loader!Rollback, Loader!RolledBack, LoaderInv, Loader!Ended, Loader!pool, Loader!env
<1>4. CASE Loader!Clean
  BY <1>4 DEF Loader!Clean, LoaderInv, Loader!Ended, Loader!EmptyVolume, Loader!pool, Loader!env
<1>5. CASE Loader!Cancel
  <2>1. CASE pc = "list" /\ Loader!Fail
    BY <2>1 DEF Loader!Fail, LoaderInv, Loader!Ended, Loader!EmptyVolume, Loader!pool, Loader!disk, Loader!env
  <2>2. CASE pc = "download" /\ cancelled' = TRUE
    <3>1. UNCHANGED <<pc, items, todo, loader, stage, staged, placed, kills>>
      BY <1>5, <2>2 DEF Loader!Cancel, LoaderInv, Loader!disk, Loader!env
    <3>2. Gathering'
      BY <2>2, <3>1 DEF LoaderInv, Gathering, Loader!Spoilt
    <3> QED
      BY <2>2, <3>1, <3>2 DEF LoaderInv, Loader!Ended
  <2> QED
    BY <1>5, <2>1, <2>2 DEF Loader!Cancel
<1>6. CASE Loader!Kill
  BY <1>6 DEF Loader!Kill, LoaderInv, Loader!Ended, Loader!pool, Loader!disk
<1>7. CASE Loader!Replace
  BY <1>7 DEF Loader!Replace, LoaderInv, Loader!Ended, Gathering, Loader!Spoilt, Loader!EmptyVolume, Loader!pool, Loader!disk
<1>8. CASE UNCHANGED Loader!vars
  BY <1>8 DEF Loader!vars, LoaderInv, Loader!Ended, Gathering, Loader!Spoilt, Loader!EmptyVolume
<1> QED
  BY <1>1, <1>2, <1>3, <1>4, <1>5, <1>6, <1>7, <1>8, ListKeeps, StageKeeps, WorkKeeps, WaitKeeps, PublishKeeps
     DEF Loader!Next, Loader!Step

(* A server that is let start finds exactly the files that were listed, and a run that *)
(* fails by itself leaves nothing (services/storage-initializer-go/main.go).           *)
LEMMA ModelsAreWhole == Loader!Init /\ [][Loader!Next]_(Loader!vars) => []Loader!ModelIsWhole
<1>1. LoaderInv => Loader!ModelIsWhole
  BY DEF LoaderInv, Loader!ModelIsWhole
<1> QED
  BY <1>1, InitLoader, LoaderStep, PTL

BatchSettings ==
  /\ Pin \in Inputs /\ "nothing" \notin Outputs
  /\ \A i \in Inputs : Forecasts[i] \subseteq Outputs

AttemptType ==
  [pc : {"idle", "load", "predict", "put", "head", "verify", "done", "failed"},
   read : Inputs \cup {Batch!Nothing}, made : Outputs \cup {Batch!Nothing}, tries : Nat,
   seen : Outputs \cup {Batch!Nothing}, found : Outputs \cup {Batch!Nothing}]

BatchTypeOK ==
  /\ input \in Inputs
  /\ object \in Batch!Objects \cup {Batch!Absent}
  /\ attempt \in [Attempts -> AttemptType]
  /\ tampered \in BOOLEAN

(* What an attempt x read is the pinned input, what it made a forecast for it, and    *)
(* what it reported is what it made.                                                  *)
Pinned(x) ==
  /\ x.pc \in {"load", "predict", "put", "head", "verify", "done"} =>
       x.read \in Inputs /\ (HasChecksum => x.read = Pin)
  /\ x.pc \in {"put", "head", "verify", "done"} => x.made \in Forecasts[x.read]
  /\ x.pc = "done" => x.found = x.made

(* As long as nobody else writes there, what was reported is in the store.            *)
Stored(x) == x.pc = "done" /\ ~tampered => object.body = x.made

BatchInv == BatchTypeOK /\ \A a \in Attempts : Pinned(attempt[a]) /\ Stored(attempt[a])

LEMMA InitBatch == ASSUME BatchSettings PROVE Batch!Init => BatchInv
<1> SUFFICES ASSUME Batch!Init PROVE BatchInv
  OBVIOUS
<1>1. Batch!New \in AttemptType /\ Batch!New.pc = "idle"
  BY DEF Batch!New, AttemptType
<1>2. BatchTypeOK
  BY <1>1 DEF Batch!Init, BatchTypeOK
<1>3. \A a \in Attempts : attempt[a].pc = "idle"
  BY <1>1 DEF Batch!Init
<1> QED
  BY <1>2, <1>3 DEF BatchInv, Pinned, Stored

(* A step of one attempt, to the record w, that leaves the object or finds none.      *)
LEMMA AttemptMoves ==
  ASSUME BatchSettings, BatchInv, NEW a \in Attempts, NEW w \in AttemptType, Batch!Moves(a, w),
         UNCHANGED input, object' \in Batch!Objects \cup {Batch!Absent},
         object' = object \/ object = Batch!Absent,
         Pinned(w), Stored(w)'
  PROVE  BatchInv'
<1>1. attempt' = [attempt EXCEPT ![a] = w] /\ UNCHANGED tampered
  BY DEF Batch!Moves
<1>2. BatchTypeOK'
  BY <1>1 DEF BatchInv, BatchTypeOK
<1>3. ASSUME NEW b \in Attempts PROVE Pinned(attempt[b])' /\ Stored(attempt[b])'
  <2>1. CASE b = a
    <3>1. attempt'[b] = w
      BY <1>1, <2>1 DEF BatchInv, BatchTypeOK
    <3> QED
      BY <3>1 DEF Pinned, Stored
  <2>2. CASE b # a
    <3>1. attempt'[b] = attempt[b]
      BY <1>1, <2>2 DEF BatchInv, BatchTypeOK
    <3>2. Pinned(attempt[b]) /\ Stored(attempt[b]) /\ attempt[b] \in AttemptType
      BY DEF BatchInv, BatchTypeOK
    <3>3. Pinned(attempt[b])'
      BY <3>1, <3>2 DEF Pinned
    <3>4. ASSUME attempt[b].pc = "done", ~tampered PROVE object # Batch!Absent
      BY <3>2, <3>4 DEF Stored, Pinned, BatchSettings, Batch!Absent, Batch!Nothing
    <3>5. Stored(attempt[b])'
      BY <1>1, <3>1, <3>2, <3>4 DEF Stored
    <3> QED
      BY <3>3, <3>5
  <2> QED
    BY <2>1, <2>2
<1> QED
  BY <1>2, <1>3 DEF BatchInv

LEMMA AttemptFails ==
  ASSUME BatchSettings, BatchInv, NEW a \in Attempts, Batch!Failed(a), UNCHANGED input,
         object' \in Batch!Objects \cup {Batch!Absent}, object' = object \/ object = Batch!Absent
  PROVE  BatchInv'
<1>w. PICK w : w = [attempt[a] EXCEPT !.pc = "failed"]
  OBVIOUS
<1>1. w \in AttemptType /\ w.pc = "failed"
  BY <1>w DEF BatchInv, BatchTypeOK, AttemptType
<1>2. Pinned(w) /\ Stored(w)'
  BY <1>w, <1>1 DEF Pinned, Stored
<1>3. Batch!Moves(a, w)
  BY <1>w DEF Batch!Failed
<1> QED
  BY <1>1, <1>2, <1>3, AttemptMoves

LEMMA BatchStep == ASSUME BatchSettings PROVE BatchInv /\ [Batch!Next]_(Batch!vars) => BatchInv'
<1> SUFFICES ASSUME BatchInv, [Batch!Next]_(Batch!vars) PROVE BatchInv'
  OBVIOUS
<1>t. \A a \in Attempts : attempt[a] \in AttemptType /\ Pinned(attempt[a]) /\ Stored(attempt[a])
  BY DEF BatchInv, BatchTypeOK
<1>o. object \in Batch!Objects \cup {Batch!Absent} /\ input \in Inputs
  BY DEF BatchInv, BatchTypeOK
<1>1. ASSUME NEW a \in Attempts, Batch!Download(a) PROVE BatchInv'
  <2>1. CASE ~Batch!Differs(input)
    <3>w. PICK w : w = [attempt[a] EXCEPT !.pc = "load", !.read = input]
      OBVIOUS
    <3>1. w \in AttemptType /\ w.pc = "load" /\ w.read = input
      BY <3>w, <1>t, <1>o DEF AttemptType
    <3>2. Pinned(w) /\ Stored(w)' /\ Batch!Moves(a, w)
      BY <3>w, <1>1, <2>1, <3>1, <1>o DEF Pinned, Stored, Batch!Download, Batch!Differs
    <3> QED
      BY <1>1, <1>o, <3>1, <3>2, AttemptMoves DEF Batch!Download
  <2> QED
    BY <1>1, <1>o, <2>1, AttemptFails DEF Batch!Download
<1>2. ASSUME NEW a \in Attempts, Batch!Load(a) PROVE BatchInv'
  <2>1. CASE intact
    <3>w. PICK w : w = [attempt[a] EXCEPT !.pc = "predict"]
      OBVIOUS
    <3>1. w \in AttemptType /\ w.pc = "predict" /\ w.read = attempt[a].read
      BY <3>w, <1>t DEF AttemptType
    <3>2. Pinned(w) /\ Stored(w)' /\ Batch!Moves(a, w)
      BY <3>w, <1>2, <2>1, <3>1, <1>t DEF Pinned, Stored, Batch!Load
    <3> QED
      BY <1>2, <1>o, <3>1, <3>2, AttemptMoves DEF Batch!Load
  <2> QED
    BY <1>2, <1>o, <2>1, AttemptFails DEF Batch!Load
<1>3. ASSUME NEW a \in Attempts, Batch!Predict(a) PROVE BatchInv'
  <2>1. CASE Batch!Fits(attempt[a].read)
    <3>1. PICK o \in Forecasts[attempt[a].read] : Batch!Moves(a, [attempt[a] EXCEPT !.pc = "put", !.made = o])
      BY <1>3, <2>1 DEF Batch!Predict
    <3>w. PICK w : w = [attempt[a] EXCEPT !.pc = "put", !.made = o]
      OBVIOUS
    <3>2. attempt[a].pc = "predict" /\ attempt[a].read \in Inputs /\ o \in Outputs
      BY <3>w, <1>3, <1>t, <3>1 DEF Batch!Predict, Pinned, BatchSettings
    <3>3. w \in AttemptType /\ w.pc = "put" /\ w.read = attempt[a].read /\ w.made = o
      BY <3>w, <1>t, <3>2 DEF AttemptType
    <3>4. Pinned(w) /\ Stored(w)' /\ Batch!Moves(a, w)
      BY <3>w, <1>t, <3>1, <3>2, <3>3 DEF Pinned, Stored
    <3> QED
      BY <1>3, <1>o, <3>3, <3>4, AttemptMoves DEF Batch!Predict
  <2> QED
    BY <1>3, <1>o, <2>1, AttemptFails DEF Batch!Predict
<1>4. ASSUME NEW a \in Attempts, Batch!Put(a) PROVE BatchInv'
  <2>1. attempt[a].pc = "put" /\ object = Batch!Absent /\ UNCHANGED input
        /\ object' = [body |-> attempt[a].made, claims |-> attempt[a].made]
    BY <1>4 DEF Batch!Put, Batch!MayPut
  <2>2. attempt[a].made \in Outputs /\ attempt[a].made \in Forecasts[attempt[a].read]
    BY <2>1, <1>t DEF Pinned, BatchSettings
  <2>3. object' \in Batch!Objects /\ object'.body = attempt[a].made
    BY <2>1, <2>2 DEF Batch!Objects
  <2>4. CASE Batch!Moves(a, Batch!Reported(attempt[a]))
    <3>w. PICK w : w = [attempt[a] EXCEPT !.pc = "done", !.found = object'.body]
      OBVIOUS
    <3>1. w \in AttemptType /\ w.pc = "done" /\ w.read = attempt[a].read /\ w.made = attempt[a].made
          /\ w.found = attempt[a].made
      BY <3>w, <1>t, <2>2, <2>3 DEF AttemptType
    <3>2. Pinned(w) /\ Stored(w)' /\ Batch!Moves(a, w)
      BY <3>w, <1>t, <2>1, <2>3, <2>4, <3>1 DEF Pinned, Stored, Batch!Reported
    <3> QED
      BY <2>1, <2>3, <3>1, <3>2, AttemptMoves
  <2>5. CASE Batch!Moves(a, [attempt[a] EXCEPT !.tries = @ + 1])
    <3>w. PICK w : w = [attempt[a] EXCEPT !.tries = @ + 1]
      OBVIOUS
    <3>1. w \in AttemptType /\ w.pc = "put" /\ w.read = attempt[a].read /\ w.made = attempt[a].made
      BY <3>w, <1>t, <2>1 DEF AttemptType
    <3>2. Pinned(w) /\ Stored(w)' /\ Batch!Moves(a, w)
      BY <3>w, <1>t, <2>1, <2>5, <3>1 DEF Pinned, Stored
    <3> QED
      BY <2>1, <2>3, <3>1, <3>2, AttemptMoves
  <2>6. CASE Batch!Failed(a)
    BY <2>1, <2>3, <2>6, AttemptFails
  <2> QED
    BY <1>4, <2>4, <2>5, <2>6 DEF Batch!Put
<1>5. ASSUME NEW a \in Attempts, Batch!Refused(a) PROVE BatchInv'
  <2>w. PICK w : w = [attempt[a] EXCEPT !.pc = "head"]
    OBVIOUS
  <2>1. w \in AttemptType /\ w.pc = "head" /\ w.read = attempt[a].read /\ w.made = attempt[a].made
    BY <2>w, <1>t DEF AttemptType
  <2>2. Pinned(w) /\ Stored(w)' /\ Batch!Moves(a, w)
    BY <2>w, <1>5, <2>1, <1>t DEF Pinned, Stored, Batch!Refused
  <2> QED
    BY <1>5, <1>o, <2>1, <2>2, AttemptMoves DEF Batch!Refused
<1>6. ASSUME NEW a \in Attempts, Batch!LookAtHead(a) PROVE BatchInv'
  <2>1. CASE ~(object = Batch!Absent \/ Batch!Conflicts(attempt[a]))
    <3>1. PICK tag \in {object.body, Batch!Nothing} : Batch!Moves(a, [attempt[a] EXCEPT !.pc = "verify", !.seen = tag])
      BY <1>6, <2>1 DEF Batch!LookAtHead
    <3>w. PICK w : w = [attempt[a] EXCEPT !.pc = "verify", !.seen = tag]
      OBVIOUS
    <3>2. tag \in Outputs \cup {Batch!Nothing}
      BY <3>w, <1>o, <2>1, <3>1 DEF Batch!Objects
    <3>3. w \in AttemptType /\ w.pc = "verify" /\ w.read = attempt[a].read /\ w.made = attempt[a].made
      BY <3>w, <1>t, <3>2 DEF AttemptType
    <3>4. Pinned(w) /\ Stored(w)' /\ Batch!Moves(a, w)
      BY <3>w, <1>6, <1>t, <3>1, <3>3 DEF Pinned, Stored, Batch!LookAtHead
    <3> QED
      BY <1>6, <1>o, <3>3, <3>4, AttemptMoves DEF Batch!LookAtHead
  <2> QED
    BY <1>6, <1>o, <2>1, AttemptFails DEF Batch!LookAtHead
<1>7. ASSUME NEW a \in Attempts, Batch!Verify(a) PROVE BatchInv'
  <2>1. CASE Batch!Moves(a, Batch!Reported(attempt[a])) /\ object # Batch!Absent /\ Batch!Same(attempt[a])
    <3>1. attempt[a].pc = "verify" /\ UNCHANGED <<input, object>>
      BY <1>7 DEF Batch!Verify
    <3>w. PICK w : w = [attempt[a] EXCEPT !.pc = "done", !.found = object'.body]
      OBVIOUS
    <3>2. object' = object /\ object.body \in Outputs /\ object.body = attempt[a].made
      BY <3>w, <1>o, <2>1, <3>1 DEF Batch!Objects, Batch!Same
    <3>3. w \in AttemptType /\ w.pc = "done" /\ w.read = attempt[a].read /\ w.made = attempt[a].made
          /\ w.found = attempt[a].made
      BY <3>w, <1>t, <3>2 DEF AttemptType
    <3>4. Pinned(w) /\ Stored(w)' /\ Batch!Moves(a, w)
      BY <3>w, <1>t, <2>1, <3>1, <3>2, <3>3 DEF Pinned, Stored, Batch!Reported
    <3> QED
      BY <1>o, <3>1, <3>3, <3>4, AttemptMoves
  <2>2. CASE Batch!Failed(a)
    BY <1>7, <1>o, <2>2, AttemptFails DEF Batch!Verify
  <2> QED
    BY <1>7, <2>1, <2>2 DEF Batch!Verify
<1>8. ASSUME NEW a \in Attempts, Batch!Crash(a) PROVE BatchInv'
  BY <1>8, <1>o, AttemptFails DEF Batch!Crash
<1>9. CASE Batch!Others
  <2>1. BatchTypeOK'
    BY <1>9 DEF Batch!Others, BatchInv, BatchTypeOK
  <2>2. ASSUME NEW a \in Attempts PROVE Pinned(attempt[a])' /\ Stored(attempt[a])'
    BY <1>9, <1>t DEF Batch!Others, Pinned, Stored
  <2> QED
    BY <2>1, <2>2 DEF BatchInv
<1>10. CASE UNCHANGED Batch!vars
  BY <1>10 DEF Batch!vars, BatchInv, BatchTypeOK, Pinned, Stored
<1> QED
  BY <1>1, <1>2, <1>3, <1>4, <1>5, <1>6, <1>7, <1>8, <1>9, <1>10 DEF Batch!Next, Batch!Step

(* What an attempt reports is what the key held, all attempts report the one result   *)
(* that is stored as long as nobody else writes there, and with a checksum it follows *)
(* from the pinned input (batch_inference/worker.py).                                 *)
LEMMA ResultsAreStored ==
  ASSUME BatchSettings PROVE Batch!Init /\ [][Batch!Next]_(Batch!vars) => []Batch!ResultIsStored
<1>1. BatchInv => Batch!ResultIsStored
  BY DEF BatchInv, Pinned, Stored, Batch!ResultIsStored, Batch!Done
<1> QED
  BY <1>1, InitBatch, BatchStep, PTL

-----------------------------------------------------------------------------
(* Monitoring: what a dataset that is published leaves to be done.                    *)

MonitorSettings ==
  /\ LastTick \in Nat /\ Patience \in Nat /\ Again \in Nat /\ MaxDatasets \in Nat /\ MaxDatasets >= 2

DatasetRow ==
  [name : {"observed", "feedback"} \cup {u.name : u \in Uploads}, date : {"earlier"} \cup {u.date : u \in Uploads},
   fits : {TRUE} \cup {u.fits : u \in Uploads}, created : Nat, processed : BOOLEAN]
ExecutionRow ==
  [status : {"WAITING_FEEDBACK", "DISPATCHED", "FAILED"}, reason : {"", "undated", "deadline", "unfit", "project"},
   feedback : Nat, deadline : Nat, next : Nat]
Grid == Rules \X (1 .. MaxDatasets)

MonitorTypeOK ==
  /\ clock \in Nat /\ clock <= LastTick /\ output \in Nat /\ (output <= clock \/ output = LastTick + 1)
  /\ dataset \in Seq(DatasetRow) /\ Len(dataset) <= MaxDatasets
  /\ \A d \in 1 .. Len(dataset) : dataset[d].created <= clock
  /\ rule \in [Rules -> [enabled : BOOLEAN, created : Nat]]
  /\ \A r \in Rules : rule[r].created <= clock \/ rule[r].created = LastTick + 1
  /\ execution \in [Grid -> ExecutionRow \cup {Monitor!None}] /\ runs \in [Grid -> Nat]
  /\ owed \in [1 .. MaxDatasets -> SUBSET Rules]
  /\ DOMAIN worker = Dispatchers

(* What a dispatcher that has locked a row is about.                                   *)
Holding(x) ==
  /\ x.pc \in {"idle", "event", "wait"}
  /\ x.pc = "event" => \E d \in 1 .. Len(dataset) : x.item = <<d>> /\ ~dataset[d].processed
  /\ x.pc = "wait" => /\ x.item \in Grid /\ execution[x.item].status = "WAITING_FEEDBACK"
                      /\ x.now \in Nat /\ x.now <= clock

(* The rules that are owed an execution will match as long as there is none.           *)
OwedOK(d) ==
  /\ \A r \in owed[d] : Monitor!Exists(r) /\ (~dataset[d].processed => rule[r].enabled)
  /\ dataset[d].processed /\ dataset[d].name = "observed" =>
       \A r \in owed[d] : rule[r].created <= dataset[d].created => execution[<<r, d>>] # Monitor!None

ExecutionOK(e) ==
  /\ runs[e] = IF execution[e].status = "DISPATCHED" THEN 1 ELSE 0
  /\ execution[e] # Monitor!None =>
       /\ e[2] \in 1 .. Len(dataset) /\ dataset[e[2]].processed /\ dataset[e[2]].name = "observed"
       /\ rule[e[1]].created <= dataset[e[2]].created

MonitorInv ==
  /\ MonitorTypeOK
  /\ \A w \in Dispatchers : Holding(worker[w])
  /\ \A v, w \in Dispatchers : v # w /\ worker[v].pc # "idle" /\ worker[w].pc # "idle" => worker[v].item # worker[w].item
  /\ \A d \in 1 .. Len(dataset) : OwedOK(d)
  /\ \A e \in Grid : ExecutionOK(e)

(* The feedback there is for a version: MonitorGreatest finds the latest.              *)
Feedback(d) == {f \in 1 .. Len(dataset) : dataset[f].name = "feedback" /\ dataset[f].date = dataset[d].date}

LEMMA MonitorGreatest ==
  ASSUME NEW S \in SUBSET Nat, IsFiniteSet(S), S # {}
  PROVE  Monitor!Max(S) \in S
<1> DEFINE Bad == {A \in SUBSET S : A # {} /\ ~ \E x \in A : \A y \in A : x >= y}
<1>1. Bad = {}
  <2>1. SUFFICES ASSUME Bad # {} PROVE FALSE
    OBVIOUS
  <2>2. IsWellFoundedOn(StrictSubsetOrdering(S), SUBSET S)
    BY FS_FiniteSubsetsOfFinite, FS_StrictSubsetOrderingWellFounded
  <2>3. PICK A \in Bad : \A B \in Bad : <<B, A>> \notin StrictSubsetOrdering(S)
    BY <2>1, <2>2, WFMin
  <2>4. PICK g \in A : TRUE
    OBVIOUS
  <2>5. A \ {g} \notin Bad
    BY <2>3, <2>4 DEF StrictSubsetOrdering
  <2>6. CASE A \ {g} = {}
    BY <2>4, <2>6
  <2>7. CASE A \ {g} # {}
    <3>1. PICK m \in A \ {g} : \A y \in A \ {g} : m >= y
      BY <2>5, <2>7
    <3>2. g \in Nat /\ m \in Nat /\ A \subseteq Nat
      BY <2>4
    <3>3. \E x \in A : \A y \in A : x >= y
      <4>1. CASE m >= g
        BY <3>1, <3>2, <4>1
      <4>2. CASE g >= m
        BY <2>4, <3>1, <3>2, <4>2
      <4> QED
        BY <3>2, <4>1, <4>2
    <3> QED
      BY <3>3
  <2> QED
    BY <2>6, <2>7
<1>2. \E x \in S : \A y \in S : x >= y
  BY <1>1
<1> QED
  BY <1>2 DEF Monitor!Max

LEMMA LaterIs ==
  ASSUME MonitorSettings, NEW m \in Nat, NEW n \in Nat
  PROVE  Monitor!Later(m, n) \in Nat
<1>1. LastTick \in Nat /\ m + n \in Nat
  BY DEF MonitorSettings
<1>2. \E x \in {m + n, LastTick} : \A y \in {m + n, LastTick} : x <= y
  <2>1. CASE m + n <= LastTick
    BY <1>1, <2>1
  <2>2. CASE LastTick <= m + n
    BY <1>1, <2>2
  <2> QED
    BY <1>1, <2>1, <2>2
<1>3. Monitor!Min({m + n, LastTick}) \in {m + n, LastTick}
  BY <1>2 DEF Monitor!Min
<1> QED
  BY <1>1, <1>3 DEF Monitor!Later

LEMMA FeedbackIs ==
  ASSUME MonitorInv, NEW d
  PROVE  /\ Monitor!FeedbackFor(d) = IF Feedback(d) = {} THEN 0 ELSE Monitor!Max(Feedback(d))
         /\ Monitor!FeedbackFor(d) \in Nat
         /\ Monitor!FeedbackFor(d) = 0 => Feedback(d) = {}
<1>1. Monitor!FeedbackFor(d) = IF Feedback(d) = {} THEN 0 ELSE Monitor!Max(Feedback(d))
  BY DEF Monitor!FeedbackFor, Monitor!Versions, Feedback
<1>2. Len(dataset) \in Nat
  BY DEF MonitorInv, MonitorTypeOK
<1>3. IsFiniteSet(1 .. Len(dataset)) /\ Feedback(d) \subseteq 1 .. Len(dataset)
  BY <1>2, FS_Interval DEF Feedback
<1>4. IsFiniteSet(Feedback(d)) /\ Feedback(d) \in SUBSET Nat
  BY <1>2, <1>3, FS_Subset
<1>5. Feedback(d) # {} => Monitor!Max(Feedback(d)) \in 1 .. Len(dataset)
  BY <1>3, <1>4, MonitorGreatest
<1> QED
  BY <1>1, <1>2, <1>5

(* What becomes of an execution that waits.                                            *)
Judged(e, x, y) ==
  /\ y \in ExecutionRow
  /\ y.status = "DISPATCHED" => y.feedback = IF e[1] \in WantsFeedback THEN Monitor!Max(Feedback(e[2])) ELSE 0
  /\ y.status = "FAILED" =>
       \/ y.reason = "deadline" /\ Feedback(e[2]) = {} /\ clock >= y.deadline
       \/ y.reason = "undated" /\ e[1] \in WantsFeedback
       \/ y.reason \in {"unfit", "project"}

LEMMA DispatchedIs ==
  ASSUME MonitorSettings, MonitorInv, NEW e \in Grid, NEW x \in ExecutionRow, x.status = "WAITING_FEEDBACK",
         NEW t \in Nat, t <= clock
  PROVE  Judged(e, x, Monitor!Dispatched(e[1], e[2], x, t))
<1> DEFINE f == Monitor!FeedbackFor(e[2])
<1>1. /\ f = IF Feedback(e[2]) = {} THEN 0 ELSE Monitor!Max(Feedback(e[2]))
      /\ f \in Nat /\ (f = 0 => Feedback(e[2]) = {})
  BY FeedbackIs
<1>2. clock \in Nat /\ x.deadline \in Nat
  BY DEF MonitorInv, MonitorTypeOK, ExecutionRow
<1>3. Monitor!Later(t, Again) \in Nat
  BY LaterIs DEF MonitorSettings
<1>4. PICK y : y = Monitor!Dispatched(e[1], e[2], x, t)
  OBVIOUS
<1>5. \/ e[1] \in WantsFeedback /\ y = Monitor!Failed(x, "undated")
      \/ e[1] \in WantsFeedback /\ f = 0 /\ t >= x.deadline /\ y = Monitor!Failed(x, "deadline")
      \/ y = Monitor!Waiting(x, t)
      \/ y = Monitor!Failed(x, "unfit") \/ y = Monitor!Failed(x, "project")
      \/ y = Monitor!Started(x, IF e[1] \in WantsFeedback THEN f ELSE 0) /\ (e[1] \in WantsFeedback => f # 0)
  BY <1>4 DEF Monitor!Dispatched
<1>6. \A why \in {"undated", "deadline", "unfit", "project"} :
         LET z == Monitor!Failed(x, why)
         IN z \in ExecutionRow /\ z.status = "FAILED" /\ z.reason = why /\ z.deadline = x.deadline
  BY DEF Monitor!Failed, ExecutionRow
<1>7. LET z == Monitor!Waiting(x, t) IN z \in ExecutionRow /\ z.status = "WAITING_FEEDBACK"
  BY <1>3 DEF Monitor!Waiting, ExecutionRow
<1>8. \A g \in Nat : LET z == Monitor!Started(x, g) IN z \in ExecutionRow /\ z.status = "DISPATCHED" /\ z.feedback = g
  BY DEF Monitor!Started, ExecutionRow
<1>9. Judged(e, x, y)
  <2>1. CASE e[1] \in WantsFeedback /\ y = Monitor!Failed(x, "undated")
    BY <1>6, <2>1 DEF Judged
  <2>2. CASE e[1] \in WantsFeedback /\ f = 0 /\ t >= x.deadline /\ y = Monitor!Failed(x, "deadline")
    BY <1>1, <1>2, <1>6, <2>2 DEF Judged
  <2>3. CASE y = Monitor!Waiting(x, t)
    BY <1>7, <2>3 DEF Judged
  <2>4. CASE y = Monitor!Failed(x, "unfit") \/ y = Monitor!Failed(x, "project")
    BY <1>6, <2>4 DEF Judged
  <2>5. CASE y = Monitor!Started(x, IF e[1] \in WantsFeedback THEN f ELSE 0) /\ (e[1] \in WantsFeedback => f # 0)
    BY <1>1, <1>8, <2>5 DEF Judged
  <2> QED
    BY <1>5, <2>1, <2>2, <2>3, <2>4, <2>5
<1> QED
  BY <1>4, <1>9

(* A dispatcher that writes executions that wait, or that were not there, creates one  *)
(* run for each that starts, and decides by the book.                                  *)
LEMMA Written ==
  ASSUME MonitorSettings, MonitorInv, NEW S \in SUBSET Grid,
         execution' \in [Grid -> ExecutionRow \cup {Monitor!None}], runs' = Monitor!RunsOf(execution'),
         \A e \in Grid \ S : execution'[e] = execution[e],
         \A e \in S : /\ execution[e].status \notin {"DISPATCHED", "FAILED"}
                      /\ \E x : Judged(e, x, execution'[e])
  PROVE  /\ runs' \in [Grid -> Nat]
         /\ \A e \in Grid : runs'[e] = IF execution'[e].status = "DISPATCHED" THEN 1 ELSE 0
         /\ \A e \in Grid : Monitor!Decides(e)
<1>1. \A e \in Grid : runs[e] = IF execution[e].status = "DISPATCHED" THEN 1 ELSE 0
  BY DEF MonitorInv, ExecutionOK
<1>2. DOMAIN runs = Grid /\ runs' = [e \in Grid |->
        IF execution'[e].status = "DISPATCHED" /\ execution[e].status # "DISPATCHED" THEN runs[e] + 1 ELSE runs[e]]
  BY DEF MonitorInv, MonitorTypeOK, Monitor!RunsOf
<1>3. ASSUME NEW e \in Grid PROVE runs'[e] = IF execution'[e].status = "DISPATCHED" THEN 1 ELSE 0
  <2>1. CASE e \in S
    BY <1>1, <1>2, <2>1
  <2>2. CASE e \notin S
    <3>1. execution'[e] = execution[e]
      BY <2>2
    <3> QED
      BY <1>1, <1>2, <3>1
  <2> QED
    BY <2>1, <2>2
<1>4. ASSUME NEW e \in Grid PROVE Monitor!Decides(e)
  <2>1. CASE e \in S
    BY <2>1 DEF Judged, Monitor!Decides, Feedback, Monitor!Versions
  <2>2. CASE e \notin S
    BY <2>2 DEF Monitor!Decides
  <2> QED
    BY <2>1, <2>2
<1> QED
  BY <1>2, <1>3, <1>4

LEMMA InitMonitor == MonitorSettings /\ Monitor!Init => MonitorInv
<1> SUFFICES ASSUME MonitorSettings, Monitor!Init PROVE MonitorInv
  OBVIOUS
<1>1. LastTick \in Nat /\ MaxDatasets \in Nat /\ MaxDatasets >= 2 /\ Monitor!Never = LastTick + 1
  BY DEF MonitorSettings, Monitor!Never
<1>2. /\ clock = 0 /\ output = LastTick + 1
      /\ rule = [r \in Rules |-> [enabled |-> FALSE, created |-> LastTick + 1]]
      /\ execution = [e \in Grid |-> Monitor!None] /\ runs = [e \in Grid |-> 0]
      /\ worker = [w \in Dispatchers |-> Monitor!Idle]
      /\ owed = [d \in 1 .. MaxDatasets |-> {}]
  BY <1>1 DEF Monitor!Init, Grid
<1>3. PICK n : n = <<"observed", "feedback">>
  OBVIOUS
<1>4. n[1] = "observed" /\ n[2] = "feedback"
  BY <1>3
<1>5. dataset \in [1 .. 2 -> DatasetRow] /\ \A d \in 1 .. 2 : dataset[d].created = 0 /\ dataset[d].processed
  <2>1. dataset = [d \in 1 .. 2 |-> [name |-> n[d], date |-> "earlier", fits |-> TRUE, created |-> 0, processed |-> TRUE]]
    BY <1>3 DEF Monitor!Init
  <2>2. \A d \in 1 .. 2 : n[d] \in {"observed", "feedback"}
    <3>1. \A d \in 1 .. 2 : d = 1 \/ d = 2
      OBVIOUS
    <3> QED
      BY <1>4, <3>1
  <2>3. \A d \in 1 .. 2 : [name |-> n[d], date |-> "earlier", fits |-> TRUE, created |-> 0, processed |-> TRUE] \in DatasetRow
    BY <2>2 DEF DatasetRow
  <2> QED
    BY <2>1, <2>3
<1>6. dataset \in Seq(DatasetRow) /\ Len(dataset) = 2
  <2>1. dataset \in Seq(DatasetRow)
    BY <1>5, SeqDef
  <2> QED
    BY <1>5, <2>1, LenProperties
<1>7. MonitorTypeOK
  BY <1>1, <1>2, <1>5, <1>6 DEF MonitorTypeOK
<1>8. \A w \in Dispatchers : worker[w].pc = "idle"
  BY <1>2 DEF Monitor!Idle
<1>9. \A e \in Grid : ExecutionOK(e)
  BY <1>2 DEF ExecutionOK, Monitor!None
<1>10. \A d \in 1 .. Len(dataset) : OwedOK(d)
  <2> SUFFICES ASSUME NEW d \in 1 .. 2 PROVE OwedOK(d)
    BY <1>6
  <2>1. owed[d] = {}
    BY <1>1, <1>2
  <2> QED
    BY <2>1 DEF OwedOK
<1> QED
  BY <1>7, <1>8, <1>9, <1>10 DEF MonitorInv, Holding

LEMMA RowIs ==
  ASSUME MonitorInv
  PROVE  \A d \in 1 .. Len(dataset) : dataset[d] \in DatasetRow /\ dataset[d].created \in Nat
<1>1. \A d \in 1 .. Len(dataset) : dataset[d] \in DatasetRow
  BY DEF MonitorInv, MonitorTypeOK
<1>2. \A x \in DatasetRow : x.created \in Nat
  BY DEF DatasetRow
<1> QED
  BY <1>1, <1>2

LEMMA NoneIs == Monitor!None.status = "none" /\ \A x \in ExecutionRow : x.status # "none" /\ x # Monitor!None
<1>1. Monitor!None.status = "none"
  BY DEF Monitor!None
<1>2. \A x \in ExecutionRow : x.status \in {"WAITING_FEEDBACK", "DISPATCHED", "FAILED"}
  BY DEF ExecutionRow
<1> QED
  BY <1>1, <1>2

(* Who goes on alone, and takes a row that nobody has locked.                          *)
LEMMA WorkerMoves ==
  ASSUME MonitorInv, NEW w \in Dispatchers, NEW k, Monitor!Goes(w, k),
         UNCHANGED <<clock, rule, dataset, execution, runs, output, owed>>, Holding(k),
         k.pc # "idle" => \A v \in Dispatchers \ {w} : worker[v].pc # "idle" => worker[v].item # k.item
  PROVE  MonitorInv'
<1>1. DOMAIN worker' = Dispatchers /\ worker'[w] = k /\ \A v \in Dispatchers \ {w} : worker'[v] = worker[v]
  BY DEF MonitorInv, MonitorTypeOK, Monitor!Goes
<1>2. MonitorTypeOK'
  BY <1>1 DEF MonitorInv, MonitorTypeOK
<1>3. ASSUME NEW v \in Dispatchers PROVE Holding(worker[v])'
  <2>1. CASE v = w
    BY <1>1, <2>1 DEF Holding
  <2>2. CASE v # w
    BY <1>1, <2>2 DEF MonitorInv, Holding
  <2> QED
    BY <2>1, <2>2
<1>4. ASSUME NEW u \in Dispatchers, NEW v \in Dispatchers, u # v, worker'[u].pc # "idle", worker'[v].pc # "idle"
      PROVE  worker'[u].item # worker'[v].item
  <2>1. CASE u = w
    BY <1>1, <1>4, <2>1
  <2>2. CASE v = w
    BY <1>1, <1>4, <2>2
  <2>3. CASE u # w /\ v # w
    BY <1>1, <1>4, <2>3 DEF MonitorInv
  <2> QED
    BY <2>1, <2>2, <2>3
<1>5. (\A d \in 1 .. Len(dataset) : OwedOK(d))'
  BY DEF MonitorInv, OwedOK, Monitor!Exists, Monitor!None, Monitor!Never
<1>6. \A e \in Grid : ExecutionOK(e)'
  BY DEF MonitorInv, ExecutionOK, Monitor!None
<1> QED
  BY <1>2, <1>3, <1>4, <1>5, <1>6 DEF MonitorInv

LEMMA IdleHolds == Holding(Monitor!Idle) /\ Monitor!Idle.pc = "idle"
BY DEF Holding, Monitor!Idle

LEMMA TakeStep ==
  ASSUME MonitorSettings, MonitorInv, NEW w \in Dispatchers,
         Monitor!TakeEvent(w) \/ Monitor!TakeWaiting(w) \/ Monitor!Lost(w)
  PROVE  MonitorInv' /\ UNCHANGED execution
<1>1. CASE Monitor!TakeEvent(w)
  <2>1. PICK d \in Monitor!Pending : Monitor!Goes(w, [Monitor!Idle EXCEPT !.pc = "event", !.item = <<d>>])
    BY <1>1 DEF Monitor!TakeEvent, Monitor!Oldest
  <2>2. PICK k : k = [Monitor!Idle EXCEPT !.pc = "event", !.item = <<d>>]
    OBVIOUS
  <2>3. k.pc = "event" /\ k.item = <<d>>
    BY <2>2 DEF Monitor!Idle
  <2>4. d \in 1 .. Len(dataset) /\ ~dataset[d].processed /\ ~Monitor!Locked(<<d>>)
    BY <2>1 DEF Monitor!Pending, Monitor!Versions
  <2>5. \A v \in Dispatchers \ {w} : worker[v].pc # "idle" => worker[v].item # k.item
    BY <2>3, <2>4 DEF Monitor!Locked, MonitorInv, Holding
  <2>6. Holding(k)
    BY <2>3, <2>4 DEF Holding
  <2> QED
    BY <1>1, <2>1, <2>2, <2>5, <2>6, WorkerMoves DEF Monitor!TakeEvent
<1>2. CASE Monitor!TakeWaiting(w)
  <2>1. PICK e \in Monitor!Due : Monitor!Goes(w, [pc |-> "wait", item |-> e, now |-> clock])
    BY <1>2 DEF Monitor!TakeWaiting
  <2>2. PICK k : k = [pc |-> "wait", item |-> e, now |-> clock]
    OBVIOUS
  <2>3. k.pc = "wait" /\ k.item = e /\ k.now = clock
    BY <2>2
  <2>4. e \in Grid /\ execution[e].status = "WAITING_FEEDBACK" /\ ~Monitor!Locked(e)
    <3>1. e \in Rules \X (1 .. Len(dataset)) /\ execution[e].status = "WAITING_FEEDBACK" /\ ~Monitor!Locked(e)
      BY <2>1 DEF Monitor!Due, Monitor!Executions, Monitor!Versions
    <3>2. 1 .. Len(dataset) \subseteq 1 .. MaxDatasets
      BY DEF MonitorInv, MonitorTypeOK, MonitorSettings
    <3> QED
      BY <3>1, <3>2 DEF Grid
  <2>5. \A v \in Dispatchers \ {w} : worker[v].pc # "idle" => worker[v].item # k.item
    BY <2>3, <2>4 DEF Monitor!Locked, MonitorInv, Holding
  <2>6. Holding(k)
    BY <2>3, <2>4 DEF Holding, MonitorInv, MonitorTypeOK
  <2> QED
    BY <1>2, <2>1, <2>2, <2>5, <2>6, WorkerMoves DEF Monitor!TakeWaiting
<1>3. CASE Monitor!Lost(w)
  BY <1>3, IdleHolds, WorkerMoves DEF Monitor!Lost
<1> QED
  BY <1>1, <1>2, <1>3 DEF Monitor!TakeEvent, Monitor!TakeWaiting, Monitor!Lost

(* A rule that begins now sees nothing that was published before.                      *)
LEMMA CreateRuleStep ==
  ASSUME MonitorSettings, MonitorInv, NEW r \in Rules, Monitor!CreateRule(r)
  PROVE  MonitorInv'
<1>1. UNCHANGED <<clock, dataset, execution, runs, output, worker, owed>> /\ ~Monitor!Exists(r)
      /\ rule' = [rule EXCEPT ![r] = [enabled |-> TRUE, created |-> clock]]
  BY DEF Monitor!CreateRule
<1>2. /\ clock \in Nat /\ clock <= LastTick /\ LastTick \in Nat /\ Monitor!Never = LastTick + 1
      /\ \A d \in 1 .. Len(dataset) : dataset[d].created \in Nat /\ dataset[d].created <= clock
  BY RowIs DEF MonitorInv, MonitorTypeOK, MonitorSettings, Monitor!Never
<1>3. /\ rule' \in [Rules -> [enabled : BOOLEAN, created : Nat]] /\ rule'[r].created = clock
      /\ \A q \in Rules \ {r} : rule'[q] = rule[q]
  BY <1>1, <1>2 DEF MonitorInv, MonitorTypeOK
<1>4. rule[r].created = LastTick + 1
  BY <1>1, <1>2 DEF Monitor!Exists
<1>5. MonitorTypeOK'
  BY <1>1, <1>3 DEF MonitorInv, MonitorTypeOK
<1>6. \A w \in Dispatchers : Holding(worker[w])'
  BY <1>1 DEF MonitorInv, Holding
<1>7. ASSUME NEW d \in 1 .. Len(dataset) PROVE OwedOK(d)'
  <2>1. r \notin owed[d]
    BY <1>1 DEF MonitorInv, OwedOK
  <2>2. owed[d] \subseteq Rules \ {r}
    <3>1. d \in 1 .. MaxDatasets
      BY DEF MonitorInv, MonitorTypeOK, MonitorSettings
    <3> QED
      BY <2>1, <3>1 DEF MonitorInv, MonitorTypeOK
  <2> QED
    BY <1>1, <1>3, <2>2 DEF MonitorInv, OwedOK, Monitor!Exists, Monitor!None, Monitor!Never
<1>8. ASSUME NEW e \in Grid PROVE ExecutionOK(e)'
  <2>1. CASE e[1] = r
    <3>1. execution[e] = Monitor!None
      BY <1>2, <1>4, <2>1 DEF MonitorInv, ExecutionOK
    <3> QED
      BY <1>1, <3>1 DEF MonitorInv, ExecutionOK, Monitor!None
  <2>2. CASE e[1] # r
    <3>1. rule'[e[1]] = rule[e[1]]
      BY <1>3, <2>2 DEF Grid
    <3> QED
      BY <1>1, <3>1 DEF MonitorInv, ExecutionOK, Monitor!None
  <2> QED
    BY <2>1, <2>2
<1> QED
  BY <1>1, <1>5, <1>6, <1>7, <1>8 DEF MonitorInv

LEMMA SetEnabledStep ==
  ASSUME MonitorSettings, MonitorInv, NEW r \in Rules, NEW on \in BOOLEAN, Monitor!SetEnabled(r, on)
  PROVE  MonitorInv'
<1>1. UNCHANGED <<clock, dataset, execution, runs, output, worker>> /\ rule' = [rule EXCEPT ![r].enabled = on]
      /\ owed' = [d \in DOMAIN owed |->
                    IF on \/ (d \in Monitor!Versions /\ dataset[d].processed) THEN owed[d] ELSE owed[d] \ {r}]
  BY DEF Monitor!SetEnabled
<1>2. /\ rule' \in [Rules -> [enabled : BOOLEAN, created : Nat]] /\ \A q \in Rules : rule'[q].created = rule[q].created
      /\ rule'[r].enabled = on /\ \A q \in Rules \ {r} : rule'[q] = rule[q]
  BY <1>1 DEF MonitorInv, MonitorTypeOK
<1>3. owed' \in [1 .. MaxDatasets -> SUBSET Rules] /\ \A d \in 1 .. MaxDatasets : owed'[d] \subseteq owed[d]
  BY <1>1 DEF MonitorInv, MonitorTypeOK
<1>4. MonitorTypeOK'
  BY <1>1, <1>2, <1>3 DEF MonitorInv, MonitorTypeOK
<1>5. \A w \in Dispatchers : Holding(worker[w])'
  BY <1>1 DEF MonitorInv, Holding
<1>6. ASSUME NEW d \in 1 .. Len(dataset) PROVE OwedOK(d)'
  <2>1. d \in 1 .. MaxDatasets
    BY DEF MonitorInv, MonitorTypeOK, MonitorSettings
  <2>2. owed'[d] = IF on \/ dataset[d].processed THEN owed[d] ELSE owed[d] \ {r}
    BY <1>1, <2>1 DEF MonitorInv, MonitorTypeOK, Monitor!Versions
  <2>3. owed[d] \subseteq Rules /\ owed'[d] \subseteq owed[d]
    BY <1>3, <2>1 DEF MonitorInv, MonitorTypeOK
  <2>4. \A q \in owed[d] : Monitor!Exists(q)' /\ (~dataset[d].processed => rule[q].enabled)
    BY <1>2, <2>3 DEF MonitorInv, OwedOK, Monitor!Exists, Monitor!Never
  <2>5. \A q \in owed'[d] : ~dataset[d].processed => rule'[q].enabled
    BY <1>2, <2>2, <2>3, <2>4
  <2>6. dataset[d].processed /\ dataset[d].name = "observed" =>
          \A q \in owed[d] : rule[q].created <= dataset[d].created => execution[<<q, d>>] # Monitor!None
    BY DEF MonitorInv, OwedOK
  <2> QED
    BY <1>1, <1>2, <2>3, <2>4, <2>5, <2>6 DEF OwedOK, Monitor!None
<1>7. ASSUME NEW e \in Grid PROVE ExecutionOK(e)'
  BY <1>1, <1>2 DEF MonitorInv, ExecutionOK, Monitor!None, Grid
<1> QED
  BY <1>1, <1>4, <1>5, <1>6, <1>7 DEF MonitorInv

LEMMA PublishedStep ==
  ASSUME MonitorSettings, MonitorInv, NEW u \in Uploads, NEW t \in Nat, t <= clock,
         Monitor!Published(Monitor!Version(u, t)), output' \in {output, Monitor!Never},
         UNCHANGED <<clock, rule, execution, runs, worker>>
  PROVE  MonitorInv'
<1>1. PICK n, v : n = Len(dataset) /\ v = Monitor!Version(u, t)
  OBVIOUS
<1>2. /\ n < MaxDatasets /\ dataset' = Append(dataset, v)
      /\ owed' = [owed EXCEPT ![n + 1] = {r \in Rules : Monitor!Exists(r) /\ rule[r].enabled}]
  BY <1>1 DEF Monitor!Published
<1>3. v \in DatasetRow /\ v.created = t /\ v.processed = FALSE
  BY <1>1 DEF Monitor!Version, DatasetRow
<1>4. n \in Nat /\ MaxDatasets \in Nat /\ LastTick \in Nat /\ clock \in Nat /\ Monitor!Never = LastTick + 1
  BY <1>1 DEF MonitorInv, MonitorTypeOK, MonitorSettings, Monitor!Never
<1>5. /\ dataset' \in Seq(DatasetRow) /\ Len(dataset') = n + 1 /\ dataset'[n + 1] = v
      /\ \A d \in 1 .. n : dataset'[d] = dataset[d]
  BY <1>1, <1>2, <1>3 DEF MonitorInv, MonitorTypeOK
<1>6. /\ owed' \in [1 .. MaxDatasets -> SUBSET Rules] /\ \A d \in 1 .. n : owed'[d] = owed[d]
      /\ owed'[n + 1] = {r \in Rules : Monitor!Exists(r) /\ rule[r].enabled}
  BY <1>2, <1>4 DEF MonitorInv, MonitorTypeOK
<1>7. output' \in Nat /\ (output' <= clock \/ output' = LastTick + 1)
  BY <1>4 DEF MonitorInv, MonitorTypeOK
<1>8. \A d \in 1 .. n + 1 : dataset'[d].created <= clock
  BY <1>1, <1>3, <1>4, <1>5 DEF MonitorInv, MonitorTypeOK
<1>9. MonitorTypeOK'
  BY <1>2, <1>4, <1>5, <1>6, <1>7, <1>8 DEF MonitorInv, MonitorTypeOK
<1>10. ASSUME NEW w \in Dispatchers PROVE Holding(worker[w])'
  <2>1. \A d \in 1 .. n : d \in 1 .. n + 1 /\ dataset'[d] = dataset[d]
    BY <1>4, <1>5
  <2> QED
    BY <1>1, <1>5, <2>1 DEF MonitorInv, Holding
<1>11. ASSUME NEW d \in 1 .. n + 1 PROVE OwedOK(d)'
  <2>1. CASE d \in 1 .. n
    BY <1>1, <1>5, <1>6, <2>1 DEF MonitorInv, OwedOK, Monitor!Exists, Monitor!None, Monitor!Never
  <2>2. CASE d = n + 1
    BY <1>3, <1>5, <1>6, <2>2 DEF OwedOK, Monitor!Exists, Monitor!Never
  <2> QED
    BY <1>4, <2>1, <2>2
<1>12. ASSUME NEW e \in Grid PROVE ExecutionOK(e)'
  <2>1. \A d \in 1 .. n : d \in 1 .. n + 1 /\ dataset'[d] = dataset[d]
    BY <1>4, <1>5
  <2> QED
    BY <1>1, <1>5, <2>1 DEF MonitorInv, ExecutionOK, Monitor!None
<1> QED
  BY <1>5, <1>9, <1>10, <1>11, <1>12 DEF MonitorInv

LEMMA TimeStep ==
  ASSUME MonitorSettings, MonitorInv, UNCHANGED <<rule, dataset, execution, runs, worker, owed>>,
         clock' \in Nat, clock <= clock', clock' <= LastTick, output' \in {output, clock}
  PROVE  MonitorInv'
<1>1. MonitorTypeOK'
  <2>1. \A m \in Nat : m <= clock => m <= clock'
    BY DEF MonitorInv, MonitorTypeOK
  <2>2. clock \in Nat /\ output \in Nat /\ LastTick \in Nat
    BY DEF MonitorInv, MonitorTypeOK, MonitorSettings
  <2>3. \A d \in 1 .. Len(dataset) : dataset[d].created \in Nat
    BY RowIs
  <2> QED
    BY <2>1, <2>2, <2>3 DEF MonitorInv, MonitorTypeOK
<1>2. ASSUME NEW w \in Dispatchers PROVE Holding(worker[w])'
  <2>1. Holding(worker[w]) /\ clock \in Nat
    BY DEF MonitorInv, MonitorTypeOK
  <2> QED
    BY <2>1 DEF Holding
<1>3. (\A d \in 1 .. Len(dataset) : OwedOK(d))'
  BY DEF MonitorInv, OwedOK, Monitor!Exists, Monitor!None, Monitor!Never
<1>4. \A e \in Grid : ExecutionOK(e)'
  BY DEF MonitorInv, ExecutionOK, Monitor!None
<1> QED
  BY <1>1, <1>2, <1>3, <1>4 DEF MonitorInv

(* An event that is handled leaves one execution for each rule that is owed one.       *)
LEMMA EventStep ==
  ASSUME MonitorSettings, MonitorInv, NEW w \in Dispatchers, Monitor!HandleEvent(w)
  PROVE  MonitorInv' /\ \A e \in Grid : Monitor!Decides(e)
<1>1. PICK d \in 1 .. Len(dataset) : worker[w].item = <<d>> /\ ~dataset[d].processed
  BY DEF Monitor!HandleEvent, MonitorInv, Holding
<1>2. worker[w].item[1] = d
  BY <1>1
<1> DEFINE S == {e \in Grid : e[2] = d /\ e[1] \in Monitor!Matching(d)}
           Fresh(e) == Monitor!Dispatched(e[1], d, Monitor!New(e[1], clock), clock)
<1>3. /\ UNCHANGED <<clock, rule, output, owed>>
      /\ execution' = [e \in DOMAIN execution |-> IF e[2] = d /\ e[1] \in Monitor!Matching(d) THEN Fresh(e) ELSE execution[e]]
      /\ runs' = Monitor!RunsOf(execution')
      /\ dataset' = [dataset EXCEPT ![d].processed = TRUE]
      /\ Monitor!Goes(w, Monitor!Idle)
  BY <1>2 DEF Monitor!HandleEvent
<1>4. DOMAIN execution = Grid /\ clock \in Nat /\ clock <= LastTick /\ LastTick \in Nat /\ Monitor!Never = LastTick + 1
  BY DEF MonitorInv, MonitorTypeOK, MonitorSettings, Monitor!Never
<1>5. \A e \in S : execution[e] = Monitor!None
  <2> SUFFICES ASSUME NEW e \in S PROVE execution[e] = Monitor!None
    OBVIOUS
  <2>1. e = <<e[1], d>> /\ execution[<<e[1], d>>] = Monitor!None
    BY DEF Monitor!Matching, Grid
  <2> QED
    BY <2>1
<1>6. ASSUME NEW e \in S PROVE Judged(e, 0, Fresh(e))
  <2>1. PICK x : x = Monitor!New(e[1], clock)
    OBVIOUS
  <2>2. Monitor!Later(clock, Patience) \in Nat
    BY <1>4, LaterIs DEF MonitorSettings
  <2>3. x \in ExecutionRow /\ x.status = "WAITING_FEEDBACK"
    BY <1>4, <2>1, <2>2 DEF Monitor!New, ExecutionRow
  <2>4. Judged(e, x, Monitor!Dispatched(e[1], e[2], x, clock))
    BY <1>4, <2>3, DispatchedIs
  <2> QED
    BY <2>1, <2>4 DEF Judged
<1>7. /\ \A e \in S : execution'[e] = Fresh(e) /\ execution'[e] \in ExecutionRow
      /\ \A e \in Grid \ S : execution'[e] = execution[e]
      /\ execution' \in [Grid -> ExecutionRow \cup {Monitor!None}]
  <2>1. \A e \in S : execution'[e] = Fresh(e)
    BY <1>3, <1>4
  <2>2. \A e \in S : Fresh(e) \in ExecutionRow
    BY <1>6 DEF Judged
  <2>3. \A e \in Grid \ S : execution'[e] = execution[e]
    BY <1>3, <1>4
  <2>4. DOMAIN execution' = Grid /\ execution' = [e \in Grid |-> execution'[e]]
    BY <1>3, <1>4
  <2>5. \A e \in Grid : execution'[e] \in ExecutionRow \cup {Monitor!None}
    BY <2>1, <2>2, <2>3 DEF MonitorInv, MonitorTypeOK
  <2> QED
    BY <2>1, <2>2, <2>3, <2>4, <2>5
<1>8. /\ runs' \in [Grid -> Nat]
      /\ \A e \in Grid : runs'[e] = IF execution'[e].status = "DISPATCHED" THEN 1 ELSE 0
      /\ \A e \in Grid : Monitor!Decides(e)
  <2>1. \A e \in S : execution[e].status \notin {"DISPATCHED", "FAILED"}
    BY <1>5 DEF Monitor!None
  <2>2. \A e \in S : \E x : Judged(e, x, execution'[e])
    BY <1>6, <1>7
  <2>3. S \in SUBSET Grid
    OBVIOUS
  <2> HIDE DEF S
  <2> QED
    BY <1>3, <1>7, <2>1, <2>2, <2>3, Written
<1>9. /\ dataset' \in Seq(DatasetRow) /\ Len(dataset') = Len(dataset) /\ dataset'[d].processed = TRUE
      /\ \A c \in 1 .. Len(dataset) : dataset'[c].created = dataset[c].created /\ dataset'[c].name = dataset[c].name
      /\ \A c \in 1 .. Len(dataset) : c # d => dataset'[c] = dataset[c]
  <2>1. PICK x : x = [dataset[d] EXCEPT !.processed = TRUE]
    OBVIOUS
  <2>2. x \in DatasetRow /\ x.created = dataset[d].created /\ x.name = dataset[d].name /\ x.processed = TRUE
    <3>1. dataset[d] \in DatasetRow
      BY RowIs
    <3> QED
      BY <2>1, <3>1 DEF DatasetRow
  <2>3. dataset' = [dataset EXCEPT ![d] = x] /\ dataset \in Seq(DatasetRow)
    BY <1>3, <2>1 DEF MonitorInv, MonitorTypeOK
  <2> QED
    BY <2>2, <2>3
<1>10. DOMAIN worker' = Dispatchers /\ worker'[w].pc = "idle" /\ \A v \in Dispatchers \ {w} : worker'[v] = worker[v]
  BY <1>3 DEF MonitorInv, MonitorTypeOK, Monitor!Goes, Monitor!Idle
<1>11. MonitorTypeOK'
  <2>1. \A c \in 1 .. Len(dataset') : dataset'[c].created <= clock
    BY <1>9 DEF MonitorInv, MonitorTypeOK
  <2> QED
    BY <1>3, <1>7, <1>8, <1>9, <1>10, <2>1 DEF MonitorInv, MonitorTypeOK
<1>12. ASSUME NEW v \in Dispatchers PROVE Holding(worker[v])'
  <2>1. CASE v = w
    BY <1>10, <2>1 DEF Holding
  <2>2. CASE v # w
    <3>1. PICK k : k = worker[v]
      OBVIOUS
    <3>2. Holding(k) /\ worker'[v] = k
      BY <1>10, <2>2, <3>1 DEF MonitorInv
    <3>3. CASE k.pc = "event"
      <4>1. PICK c \in 1 .. Len(dataset) : k.item = <<c>> /\ ~dataset[c].processed
        BY <3>2, <3>3 DEF Holding
      <4>2. k.item # worker[w].item
        BY <2>2, <3>1, <3>3 DEF MonitorInv, Monitor!HandleEvent
      <4>3. c # d
        BY <1>1, <4>1, <4>2
      <4>4. c \in 1 .. Len(dataset') /\ ~dataset'[c].processed
        BY <1>9, <4>1, <4>3
      <4> QED
        BY <3>2, <3>3, <4>1, <4>4 DEF Holding
    <3>4. CASE k.pc = "wait"
      <4>1. k.item \in Grid /\ execution[k.item].status = "WAITING_FEEDBACK" /\ k.now \in Nat /\ k.now <= clock
        BY <3>2, <3>4 DEF Holding
      <4>2. k.item \notin S
        BY <1>5, <4>1 DEF Monitor!None
      <4>3. execution'[k.item] = execution[k.item]
        BY <1>7, <4>1, <4>2
      <4> QED
        BY <1>3, <3>2, <3>4, <4>1, <4>3 DEF Holding
    <3> QED
      BY <3>2, <3>3, <3>4 DEF Holding
  <2> QED
    BY <2>1, <2>2
<1>13. \A u, v \in Dispatchers : u # v /\ worker'[u].pc # "idle" /\ worker'[v].pc # "idle" => worker'[u].item # worker'[v].item
  BY <1>10 DEF MonitorInv
<1>14. ASSUME NEW c \in 1 .. Len(dataset) PROVE OwedOK(c)'
  <2>0. c \in 1 .. MaxDatasets /\ owed[c] \subseteq Rules
    BY DEF MonitorInv, MonitorTypeOK, MonitorSettings
  <2>1. \A r \in Rules : execution[<<r, c>>] # Monitor!None => execution'[<<r, c>>] # Monitor!None
    <3> SUFFICES ASSUME NEW r \in Rules, execution[<<r, c>>] # Monitor!None PROVE execution'[<<r, c>>] # Monitor!None
      OBVIOUS
    <3>1. <<r, c>> \in Grid \ S
      BY <1>5, <2>0 DEF Grid
    <3> QED
      BY <1>7, <3>1
  <2>2. OwedOK(c)
    BY DEF MonitorInv
  <2>3. CASE c # d
    BY <1>3, <1>9, <2>0, <2>1, <2>2, <2>3 DEF OwedOK, Monitor!Exists, Monitor!None, Monitor!Never
  <2>4. CASE c = d
    <3>1. ASSUME NEW r \in owed[d], rule[r].created <= dataset[d].created, dataset[d].name = "observed"
          PROVE  execution'[<<r, d>>] # Monitor!None
      <4>1. r \in Rules /\ Monitor!Exists(r) /\ rule[r].enabled
        BY <1>1, <2>0, <2>2, <2>4, <3>1 DEF OwedOK
      <4>2. CASE execution[<<r, d>>] # Monitor!None
        BY <2>1, <2>4, <4>1, <4>2
      <4>3. CASE execution[<<r, d>>] = Monitor!None
        <5>1. <<r, d>> \in S
          BY <2>0, <2>4, <3>1, <4>1, <4>3 DEF Monitor!Matching, Monitor!Matches, Grid
        <5>2. execution'[<<r, d>>] \in ExecutionRow
          BY <1>7, <5>1
        <5> QED
          BY <5>2, NoneIs
      <4> QED
        BY <4>2, <4>3
    <3>2. UNCHANGED <<rule, owed>> /\ dataset'[d].created = dataset[d].created /\ dataset'[d].name = dataset[d].name
          /\ dataset'[d].processed
      BY <1>3, <1>9
    <3>3. \A r \in owed[d] : Monitor!Exists(r)'
      BY <2>2, <2>4, <3>2 DEF OwedOK, Monitor!Exists, Monitor!Never
    <3>4. OwedOK(d)'
      BY <3>1, <3>2, <3>3 DEF OwedOK, Monitor!None
    <3> QED
      BY <2>4, <3>4
  <2> QED
    BY <2>3, <2>4
<1>15. ASSUME NEW e \in Grid PROVE ExecutionOK(e)'
  <2>1. CASE e \in S
    <3>1. e[2] = d /\ Monitor!Matches(e[1], d)
      BY <2>1 DEF Monitor!Matching
    <3> QED
      BY <1>3, <1>8, <1>9, <3>1 DEF ExecutionOK, Monitor!Matches
  <2>2. CASE e \notin S
    <3>1. execution'[e] = execution[e]
      BY <1>7, <2>2
    <3>2. ExecutionOK(e)
      BY DEF MonitorInv
    <3> QED
      BY <1>3, <1>8, <1>9, <3>1, <3>2 DEF ExecutionOK, Monitor!None
  <2> QED
    BY <2>1, <2>2
<1>16. MonitorInv'
  BY <1>9, <1>11, <1>12, <1>13, <1>14, <1>15 DEF MonitorInv
<1> QED
  BY <1>8, <1>16

LEMMA WaitingStep ==
  ASSUME MonitorSettings, MonitorInv, NEW w \in Dispatchers, Monitor!HandleWaiting(w)
  PROVE  MonitorInv' /\ \A e \in Grid : Monitor!Decides(e)
<1>1. PICK e, t : e = worker[w].item /\ t = worker[w].now
  OBVIOUS
<1>2. e \in Grid /\ execution[e].status = "WAITING_FEEDBACK" /\ t \in Nat /\ t <= clock
  BY <1>1 DEF Monitor!HandleWaiting, MonitorInv, Holding
<1>3. PICK x : x = execution[e]
  OBVIOUS
<1>4. x \in ExecutionRow /\ x.status = "WAITING_FEEDBACK"
  BY <1>2, <1>3 DEF MonitorInv, MonitorTypeOK, Monitor!None
<1>5. [x EXCEPT !.status = "WAITING_FEEDBACK"] = x
  BY <1>4 DEF ExecutionRow
<1>6. PICK y : y = Monitor!Dispatched(e[1], e[2], x, t)
  OBVIOUS
<1>7. /\ UNCHANGED <<clock, rule, dataset, output, owed>> /\ execution' = [execution EXCEPT ![e] = y]
      /\ runs' = Monitor!RunsOf(execution') /\ Monitor!Goes(w, Monitor!Idle)
  BY <1>1, <1>3, <1>5, <1>6 DEF Monitor!HandleWaiting
<1>8. Judged(e, x, y) /\ y \in ExecutionRow
  BY <1>2, <1>4, <1>6, DispatchedIs DEF Judged
<1>9. /\ execution' \in [Grid -> ExecutionRow \cup {Monitor!None}] /\ execution'[e] = y
      /\ \A g \in Grid : g # e => execution'[g] = execution[g]
  BY <1>2, <1>7, <1>8 DEF MonitorInv, MonitorTypeOK
<1>10. /\ runs' \in [Grid -> Nat]
       /\ \A g \in Grid : runs'[g] = IF execution'[g].status = "DISPATCHED" THEN 1 ELSE 0
       /\ \A g \in Grid : Monitor!Decides(g)
  <2>1. PICK S : S = {e}
    OBVIOUS
  <2>2. /\ S \in SUBSET Grid /\ \A g \in Grid \ S : execution'[g] = execution[g]
        /\ \A g \in S : execution[g].status \notin {"DISPATCHED", "FAILED"} /\ \E z : Judged(g, z, execution'[g])
    BY <1>2, <1>8, <1>9, <2>1
  <2> QED
    BY <1>7, <1>9, <2>2, Written
<1>11. DOMAIN worker' = Dispatchers /\ worker'[w].pc = "idle" /\ \A v \in Dispatchers \ {w} : worker'[v] = worker[v]
  BY <1>7 DEF MonitorInv, MonitorTypeOK, Monitor!Goes, Monitor!Idle
<1>12. MonitorTypeOK'
  BY <1>7, <1>9, <1>10, <1>11 DEF MonitorInv, MonitorTypeOK
<1>13. ASSUME NEW v \in Dispatchers PROVE Holding(worker[v])'
  <2>1. CASE v = w
    BY <1>11, <2>1 DEF Holding
  <2>2. CASE v # w
    <3>1. worker[v].pc = "wait" => worker[v].item # e
      BY <1>1, <2>2 DEF MonitorInv, Monitor!HandleWaiting
    <3> QED
      BY <1>7, <1>9, <1>11, <2>2, <3>1 DEF MonitorInv, Holding
  <2> QED
    BY <2>1, <2>2
<1>14. \A u, v \in Dispatchers : u # v /\ worker'[u].pc # "idle" /\ worker'[v].pc # "idle" => worker'[u].item # worker'[v].item
  BY <1>11 DEF MonitorInv
<1>15. y # Monitor!None /\ execution[e] # Monitor!None
  BY <1>2, <1>8, NoneIs
<1>16. ASSUME NEW d \in 1 .. Len(dataset) PROVE OwedOK(d)'
  <2>1. d \in 1 .. MaxDatasets /\ owed[d] \subseteq Rules
    BY DEF MonitorInv, MonitorTypeOK, MonitorSettings
  <2>2. \A r \in owed[d] : execution[<<r, d>>] # Monitor!None => execution'[<<r, d>>] # Monitor!None
    BY <1>9, <1>15, <2>1 DEF Grid
  <2> QED
    BY <1>7, <2>2 DEF MonitorInv, OwedOK, Monitor!Exists, Monitor!None, Monitor!Never
<1>17. ASSUME NEW g \in Grid PROVE ExecutionOK(g)'
  <2>1. execution'[g] # Monitor!None => execution[g] # Monitor!None
    BY <1>9, <1>15
  <2> QED
    BY <1>7, <1>10, <2>1 DEF MonitorInv, ExecutionOK, Monitor!None
<1>18. MonitorInv'
  BY <1>7, <1>12, <1>13, <1>14, <1>16, <1>17 DEF MonitorInv
<1> QED
  BY <1>10, <1>18

LEMMA SameDecides ==
  ASSUME UNCHANGED execution, NEW e
  PROVE  Monitor!Decides(e)
BY DEF Monitor!Decides

LEMMA MonitorStep ==
  ASSUME MonitorSettings, MonitorInv, [Monitor!Next]_(Monitor!vars)
  PROVE  MonitorInv' /\ \A e \in Grid : Monitor!Decides(e)
<1>1. ASSUME NEW r \in Rules, Monitor!CreateRule(r) PROVE MonitorInv' /\ UNCHANGED execution
  BY <1>1, CreateRuleStep DEF Monitor!CreateRule
<1>2. ASSUME NEW r \in Rules, NEW on \in BOOLEAN, Monitor!SetEnabled(r, on) PROVE MonitorInv' /\ UNCHANGED execution
  BY <1>2, SetEnabledStep DEF Monitor!SetEnabled
<1>3. clock \in Nat /\ output \in Nat /\ LastTick \in Nat /\ Monitor!Never = LastTick + 1 /\ clock <= LastTick
      /\ (output <= clock \/ output = LastTick + 1)
  BY DEF MonitorInv, MonitorTypeOK, MonitorSettings, Monitor!Never
<1>4. CASE Monitor!Publish
  <2>1. PICK u \in Uploads : Monitor!Published(Monitor!Version(u, clock))
    BY <1>4 DEF Monitor!Publish
  <2> QED
    BY <1>3, <1>4, <2>1, PublishedStep, SameDecides DEF Monitor!Publish
<1>5. CASE Monitor!PublishOutput
  <2>1. PICK u \in Uploads : Monitor!Published(Monitor!Version(u, output))
    BY <1>5 DEF Monitor!PublishOutput
  <2>2. output <= clock
    BY <1>3, <1>5 DEF Monitor!PublishOutput
  <2> QED
    BY <1>3, <1>5, <2>1, <2>2, PublishedStep, SameDecides DEF Monitor!PublishOutput
<1>6. CASE Monitor!ReadClock \/ Monitor!Unready \/ Monitor!Tick \/ UNCHANGED Monitor!vars
  <2>1. /\ UNCHANGED <<rule, dataset, execution, runs, worker, owed>> /\ output' \in {output, clock}
        /\ clock' \in {clock, clock + 1} /\ clock' <= LastTick
    BY <1>3, <1>6 DEF Monitor!ReadClock, Monitor!Unready, Monitor!Tick, Monitor!vars
  <2>2. clock' \in Nat /\ clock <= clock'
    BY <1>3, <2>1
  <2> QED
    BY <2>1, <2>2, TimeStep, SameDecides
<1>7. CASE \E w \in Dispatchers : Monitor!Pass(w) \/ Monitor!Lost(w)
  BY <1>7, TakeStep, EventStep, WaitingStep, SameDecides DEF Monitor!Pass
<1>8. Monitor!Publish \/ Monitor!PublishOutput \/ Monitor!ReadClock \/ Monitor!Unready \/ Monitor!Tick \/ UNCHANGED Monitor!vars
        => UNCHANGED execution
  BY DEF Monitor!Publish, Monitor!PublishOutput, Monitor!ReadClock, Monitor!Unready, Monitor!Tick, Monitor!vars
<1> QED
  BY <1>1, <1>2, <1>4, <1>5, <1>6, <1>7, <1>8, SameDecides DEF Monitor!Next

LEMMA DecidedByTheBook ==
  ASSUME MonitorSettings
  PROVE  Monitor!Init /\ [][Monitor!Next]_(Monitor!vars) => DecisionsByTheBook
<1>1. MonitorInv => Monitor!IntentsAreKept /\ DOMAIN execution = Grid
  <2> SUFFICES ASSUME MonitorInv PROVE Monitor!IntentsAreKept /\ DOMAIN execution = Grid
    OBVIOUS
  <2>1. DOMAIN execution = Grid /\ Len(dataset) <= MaxDatasets /\ Len(dataset) \in Nat
    BY DEF MonitorInv, MonitorTypeOK
  <2>2. \A e \in Rules \X (1 .. Len(dataset)) : e \in Grid
    BY <2>1 DEF MonitorSettings, Grid
  <2> QED
    BY <2>1, <2>2 DEF MonitorInv, OwedOK, ExecutionOK, Monitor!IntentsAreKept, Monitor!Executions, Monitor!Versions
<1>2. MonitorInv /\ [Monitor!Next]_(Monitor!vars)
        => MonitorInv' /\ [Monitor!IntentsAreKept' /\ \A e \in DOMAIN execution : Monitor!Decides(e)]_monitorVars
  <2> SUFFICES ASSUME MonitorInv, [Monitor!Next]_(Monitor!vars)
               PROVE  MonitorInv' /\ Monitor!IntentsAreKept' /\ \A e \in DOMAIN execution : Monitor!Decides(e)
    OBVIOUS
  <2>1. MonitorInv' => Monitor!IntentsAreKept'
    <3> SUFFICES ASSUME MonitorInv' PROVE Monitor!IntentsAreKept'
      OBVIOUS
    <3>1. Len(dataset') <= MaxDatasets /\ Len(dataset') \in Nat
      BY DEF MonitorInv, MonitorTypeOK
    <3>2. \A e \in Rules \X (1 .. Len(dataset')) : e \in Grid
      BY <3>1 DEF MonitorSettings, Grid
    <3> QED
      BY <3>1, <3>2 DEF MonitorInv, OwedOK, ExecutionOK, Monitor!IntentsAreKept, Monitor!Executions, Monitor!Versions
  <2> QED
    BY <1>1, <2>1, MonitorStep
<1> QED
  BY <1>2, InitMonitor, PTL DEF DecisionsByTheBook

-----------------------------------------------------------------------------
(* The platform: what it does to a part, that part does by itself.                    *)

LEMMA ToLeadership == PlatformInit /\ [][PlatformNext]_platform => Init /\ [][Next]_vars
<1>1. PlatformInit => Init
  BY DEF PlatformInit
<1>2. [PlatformNext]_platform => [Next]_vars
  BY DEF PlatformNext, platform, control, data, Watching, Loading
<1> QED
  BY <1>1, <1>2, PTL

LEMMA ToMonitor == PlatformInit /\ [][PlatformNext]_platform => Monitor!Init /\ [][Monitor!Next]_(Monitor!vars)
<1>1. PlatformInit => Monitor!Init
  BY DEF PlatformInit
<1>2. [PlatformNext]_platform => [Monitor!Next]_(Monitor!vars)
  BY DEF PlatformNext, platform, control, monitorVars, Leading, Watching, Loading, Monitor!vars
<1> QED
  BY <1>1, <1>2, PTL

LEMMA ToMembers == PlatformInit /\ [][PlatformNext]_platform => Access!Init /\ [][Access!Next]_(Access!vars)
<1>1. PlatformInit => Access!Init
  BY DEF PlatformInit
<1>2. [PlatformNext]_platform => [Access!Next]_(Access!vars)
  BY DEF PlatformNext, platform, control, data, accessVars, Leading, Watching, Loading, Access!vars
<1> QED
  BY <1>1, <1>2, PTL

LEMMA ToSecrets == PlatformInit /\ [][PlatformNext]_platform => Vault!Init /\ [][Vault!Next]_(Vault!vars)
<1>1. PlatformInit => Vault!Init
  BY DEF PlatformInit
<1>2. [PlatformNext]_platform => [Vault!Next]_(Vault!vars)
  BY DEF PlatformNext, platform, control, data, vaultVars, Leading, Watching, Loading, Vault!vars
<1> QED
  BY <1>1, <1>2, PTL

LEMMA ToKeys == PlatformInit /\ [][PlatformNext]_platform => Keys!Init /\ [][Keys!Next]_(Keys!vars)
<1>1. PlatformInit => Keys!Init
  BY DEF PlatformInit
<1>2. [PlatformNext]_platform => [Keys!Next]_(Keys!vars)
  BY DEF PlatformNext, platform, control, data, keysVars, Leading, Watching, Loading, Keys!vars
<1> QED
  BY <1>1, <1>2, PTL

LEMMA ToLogs == PlatformInit /\ [][PlatformNext]_platform => Logs!Init /\ [][Logs!Next]_(Logs!vars)
<1>1. PlatformInit => Logs!Init
  BY DEF PlatformInit
<1>2. [PlatformNext]_platform => [Logs!Next]_(Logs!vars)
  BY DEF PlatformNext, platform, control, data, logsVars, Leading, Watching, Loading, Logs!vars
<1> QED
  BY <1>1, <1>2, PTL

LEMMA ToLoader == PlatformInit /\ [][PlatformNext]_platform => Loader!Init /\ [][Loader!Next]_(Loader!vars)
<1>1. PlatformInit => Loader!Init
  BY DEF PlatformInit
<1>2. [PlatformNext]_platform => [Loader!Next]_(Loader!vars)
  BY DEF PlatformNext, platform, control, data, loaderVars, Leading, Watching, Loading, Loader!vars
<1> QED
  BY <1>1, <1>2, PTL

LEMMA ToBatch == PlatformInit /\ [][PlatformNext]_platform => Batch!Init /\ [][Batch!Next]_(Batch!vars)
<1>1. PlatformInit => Batch!Init
  BY DEF PlatformInit
<1>2. [PlatformNext]_platform => [Batch!Next]_(Batch!vars)
  BY DEF PlatformNext, platform, control, data, batchVars, Leading, Watching, Loading, Batch!vars
<1> QED
  BY <1>1, <1>2, PTL

(* "Fail-stop on renewal loss": whatever fails, no process works as long as Limit     *)
(* after the last renewal that Kubernetes confirmed to it (leadership.py:120).        *)
THEOREM StaleLeaderStopsAlways == PlatformSpec => []StaleLeaderStops
  BY ToLeadership, StaleLeaderAlwaysStops, PTL DEF PlatformSpec

(* The Lease coordinates a takeover: as long as a leader renewed it, by what it knows, *)
(* less than Duration - 2 * CallLimit ago, it is nobody else's, and no other process   *)
(* leads that could say the same (leadership.py:73-82).                                *)
THEOREM LeadershipIsKeptAlways == PlatformSpec => []LeadershipIsKept
  BY ToLeadership, LeaseIsAlwaysKept, PTL DEF PlatformSpec

(* Every reference that was committed resolves, whatever rotations, deletions and      *)
(* registrations overlap, unless its secret was deleted by force since                 *)
(* (secrets.py:161-180).                                                               *)
THEOREM ReferencesHoldAlways == PlatformSpec => []ReferencesHold
  BY PlatformAssumption, ToSecrets, ReferencesAlwaysHold, PTL DEF PlatformSpec, ReferencesHold

(* A server that is let start finds exactly the files that were listed and a run that  *)
(* fails by itself leaves nothing (services/storage-initializer-go/main.go); what an   *)
(* attempt at a batch reports is the one result that is stored and follows from the    *)
(* pinned input (batch_inference/worker.py).                                           *)
THEOREM DataIsAlwaysWhole == PlatformSpec => []DataIsWhole
<1>1. BatchSettings
  BY PlatformAssumption DEF BatchSettings
<1> QED
  BY <1>1, ToLoader, ToBatch, ModelsAreWhole, ResultsAreStored, PTL DEF PlatformSpec, DataIsWhole

(* A project keeps an administrator, whatever requests overlap (members.py:71); a      *)
(* token is judged by keys that are hardly older than the provider's (identity.go:210); *)
(* and a log that is sent is that of the pod its ticket names (server.go).             *)
THEOREM AccessIsAlwaysCurrent == PlatformSpec => []AccessIsCurrent
<1>1. KeysSettings /\ LogsSettings
  BY PlatformAssumption DEF KeysSettings, LogsSettings
<1> QED
  BY <1>1, PlatformAssumption, ToMembers, ToKeys, ToLogs, SomebodyAlwaysManages, KeysStayCurrent, LogsStayTheirs, PTL
     DEF PlatformSpec, AccessIsCurrent

(* Whichever dispatchers overlap, fail or die: an event that was handled has left one  *)
(* execution for each rule that was owed one, an execution one run if it started, and  *)
(* it is decided once, with the latest feedback of its date, and is given up only      *)
(* after its deadline and while there is none (monitoring_automation.py).              *)
THEOREM DecisionsAreByTheBook == PlatformSpec => DecisionsByTheBook
<1>1. MonitorSettings
  BY PlatformAssumption DEF MonitorSettings
<1> QED
  BY <1>1, ToMonitor, DecidedByTheBook, PTL DEF PlatformSpec

=============================================================================
