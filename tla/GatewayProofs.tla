--------------------------- MODULE GatewayProofs ---------------------------
(***************************************************************************)
(* Theorems about the two halves of a gateway, Admission and KeyCache, for   *)
(* any requests, buckets, capacities, sizes, slots, faults, TTL and timeout. *)
(*                                                                         *)
(* Admission: a bucket's level and what it has given since a time t together *)
(* never exceed a full bucket and the refill since t (Within). KeyCache: an  *)
(* entry carries a time at which, or LoadTimeout before which, its value was *)
(* still so (Holds); a read under way began after its value was not yet old  *)
(* (Flies); so what a request goes by is never older than the window.       *)
(***************************************************************************)
EXTENDS MCGateway, FiniteSetTheorems, FunctionTheorems, WellFoundedInduction, TLAPS

-----------------------------------------------------------------------------
(* Greatest and smallest. There is no induction over finite sets to be had    *)
(* (it takes an operator), so that a greatest element is found by a smallest  *)
(* counterexample.                                                         *)

(* A finite set of integers has a greatest element. *)
LEMMA Greatest ==
  ASSUME NEW S \in SUBSET Int, IsFiniteSet(S), S # {}
  PROVE  Max(S) \in S /\ \A y \in S : Max(S) >= y
<1> DEFINE Bad == {A \in SUBSET S : A # {} /\ ~ \E x \in A : \A y \in A : x >= y}
<1>1. Bad = {}
  <2>1. SUFFICES ASSUME Bad # {} PROVE FALSE
    OBVIOUS
  <2>2. IsWellFoundedOn(StrictSubsetOrdering(S), SUBSET S)
    BY FS_FiniteSubsetsOfFinite, FS_StrictSubsetOrderingWellFounded
  <2>3. PICK A \in Bad : \A B \in Bad : <<B, A>> \notin StrictSubsetOrdering(S)
    BY <2>1, <2>2, WFMin
  <2>4. PICK a \in A : TRUE
    OBVIOUS
  <2>5. A \ {a} \notin Bad
    BY <2>3, <2>4 DEF StrictSubsetOrdering
  <2>6. CASE A \ {a} = {}
    BY <2>4, <2>6
  <2>7. CASE A \ {a} # {}
    <3>1. PICK m \in A \ {a} : \A y \in A \ {a} : m >= y
      BY <2>5, <2>7
    <3>2. a \in Int /\ m \in Int /\ A \subseteq Int
      BY <2>4
    <3>3. \E x \in A : \A y \in A : x >= y
      <4>1. CASE m >= a
        BY <3>1, <3>2, <4>1
      <4>2. CASE a >= m
        BY <2>4, <3>1, <3>2, <4>2
      <4> QED
        BY <3>2, <4>1, <4>2
    <3> QED
      BY <3>3
  <2> QED
    BY <2>6, <2>7
<1>2. \E x \in S : \A y \in S : x >= y
  BY <1>1
<1> QED
  BY <1>2 DEF Max

(* The greater and the smaller of two integers. *)
LEMMA MaxTwo == \A a, b \in Int : Max({a, b}) = IF a >= b THEN a ELSE b
<1> SUFFICES ASSUME NEW a \in Int, NEW b \in Int PROVE Max({a, b}) = IF a >= b THEN a ELSE b
  OBVIOUS
<1>1. \E x \in {a, b} : \A y \in {a, b} : x >= y
  OBVIOUS
<1>2. Max({a, b}) \in {a, b} /\ \A y \in {a, b} : Max({a, b}) >= y
  BY <1>1 DEF Max
<1> QED
  BY <1>2

LEMMA MinTwo == \A a, b \in Int : Min({a, b}) = IF a <= b THEN a ELSE b
<1> SUFFICES ASSUME NEW a \in Int, NEW b \in Int PROVE Min({a, b}) = IF a <= b THEN a ELSE b
  OBVIOUS
<1>1. \E x \in {a, b} : \A y \in {a, b} : x <= y
  OBVIOUS
<1>2. Min({a, b}) \in {a, b} /\ \A y \in {a, b} : Min({a, b}) <= y
  BY <1>1 DEF Min
<1> QED
  BY <1>2

(* What a request is, and what it has cost so far. *)
Pcs == {"new", "queued", "limiter", "orphan", "forward", "stream", "settle"} \cup Ended
CallType == [pc : Pcs, llm : BOOLEAN, reserved : Nat \ {0}, asked : Int, measured : Nat,
             whole : BOOLEAN, paid : Int, units : Int, lost : BOOLEAN, retry : Int]

(* What UsageIsPaid calls used. *)
Used(c) == IF c.llm /\ c.whole THEN c.measured
           ELSE IF c.llm THEN Max({c.reserved, c.measured}) ELSE 1

Paid(c) ==
  /\ ~c.llm => c.reserved = 1
  /\ c.pc \in {"new", "queued", "limiter", "orphan"} => c.paid = 0 /\ ~c.lost
  /\ c.pc \in {"forward", "stream", "settle"} => c.paid = c.reserved /\ ~c.lost
  /\ c.pc = "done" /\ ~c.lost => c.paid = Used(c) /\ (c.llm => c.units = Used(c))
  /\ c.pc = "done" /\ c.lost => c.paid \in {Used(c), c.reserved} /\ c.units >= c.paid
  /\ c.pc \in {"refused", "failed", "left"} /\ ~c.lost => c.paid = 0

(* The types, and every request has paid for what it did. *)
CallsInv == /\ clock \in 0 .. MaxTime /\ faults \in 0 .. MaxFaults
            /\ stamped \in [Buckets -> 0 .. MaxTime] /\ \A b \in Buckets : stamped[b] <= clock
            /\ level \in [Buckets -> Int]
            /\ spent \in [Buckets -> [0 .. MaxTime -> Int]]
            /\ call \in [Requests -> CallType]
            /\ \A r \in Requests : Paid(call[r])

(* A bucket refilled up to now, and no fuller than full. *)
LEMMA Refills ==
  ASSUME CallsInv, NEW b \in Buckets
  PROVE  LET R == level[b] + (clock - stamped[b]) * Capacity[b] IN
         /\ R \in Int /\ Full(b) \in Int /\ Refilled(b, clock) = (IF Full(b) <= R THEN Full(b) ELSE R)
         /\ Refilled(b, clock) \in Int
<1>1. stamped[b] \in Int /\ clock \in Int /\ stamped[b] <= clock /\ Capacity[b] \in Int /\ level[b] \in Int /\ Minute \in Int
  BY AdmissionAssumption DEF CallsInv
<1>2. Max({0, clock - stamped[b]}) = clock - stamped[b]
  BY <1>1, MaxTwo
<1>3. Full(b) \in Int
  BY <1>1 DEF Full
<1>4. level[b] + (clock - stamped[b]) * Capacity[b] \in Int
  BY <1>1
<1> QED
  BY <1>2, <1>3, <1>4, MinTwo DEF Refilled

(* A statement leaves buckets that are buckets. *)
LEMMA ChangedType ==
  ASSUME CallsInv, NEW r \in Requests, NEW n \in Int, Changed(r, n)
  PROVE  /\ level' \in [Buckets -> Int] /\ stamped' \in [Buckets -> 0 .. MaxTime]
         /\ spent' \in [Buckets -> [0 .. MaxTime -> Int]]
         /\ \A b \in Buckets : stamped'[b] <= clock
<1>1. clock \in 0 .. MaxTime /\ MaxTime \in Nat /\ Minute \in Nat /\ Clock(r) = clock
  BY AdmissionAssumption DEF CallsInv, Clock
<1>2. level' \in [Buckets -> Int]
  <2>1. ASSUME NEW b \in Buckets PROVE Min({Full(b), Refilled(b, clock) + n * Minute}) \in Int
    <3>1. Full(b) \in Int /\ Refilled(b, clock) + n * Minute \in Int
      BY <1>1, Refills
    <3> QED
      BY <3>1, MinTwo
  <2> QED
    BY <1>1, <2>1 DEF Changed, CallsInv
<1>3. stamped' \in [Buckets -> 0 .. MaxTime] /\ \A b \in Buckets : stamped'[b] <= clock
  BY <1>1 DEF Changed, CallsInv
<1>4. spent' \in [Buckets -> [0 .. MaxTime -> Int]]
  <2>1. ASSUME NEW b \in Buckets, NEW t \in 0 .. MaxTime
        PROVE  (IF b \in Uses[r] /\ t <= clock THEN spent[b][t] - n ELSE spent[b][t]) \in Int
    <3>1. spent[b][t] \in Int
      BY DEF CallsInv
    <3> QED
      BY <3>1
  <2> QED
    BY <2>1 DEF Changed
<1> QED
  BY <1>2, <1>3, <1>4

(* A refused caller is told a wait that is long enough for every bucket. *)
LEMMA RetryIs ==
  ASSUME CallsInv, NEW r \in Requests
  PROVE  /\ Retry(r) \in Int /\ Retry(r) >= 1 /\ \A b \in Uses[r] : Retry(r) >= Wait(r, b) /\ Wait(r, b) \in Int
         /\ \A b \in Uses[r] : Wait(r, b) * Capacity[b] >= call[r].reserved * Minute - Refilled(b, clock)
<1>1. Uses[r] \subseteq Buckets /\ IsFiniteSet(Uses[r])
  BY AdmissionAssumption, FS_Subset
<1>2. ASSUME NEW b \in Uses[r]
      PROVE  Wait(r, b) \in Int /\ Wait(r, b) * Capacity[b] >= call[r].reserved * Minute - Refilled(b, clock)
  <2>1. PICK m \in Int : m = call[r].reserved * Minute - Refilled(b, clock)
    <3>1. call[r].reserved \in Int /\ Minute \in Int
      BY AdmissionAssumption DEF CallsInv, CallType
    <3>2. Refilled(b, clock) \in Int
      BY <1>1, Refills
    <3> QED
      BY <3>1, <3>2
  <2>2. PICK d \in Nat \ {0} : d = Capacity[b]
    BY <1>1, AdmissionAssumption
  <2>3. Wait(r, b) = (m + d - 1) \div d
    BY <2>1, <2>2 DEF Wait, Over, Clock
  <2>4. (m + d - 1) \div d \in Int /\ ((m + d - 1) \div d) * d >= m
    <3>1. PICK k \in Int : k = m + d - 1
      OBVIOUS
    <3>2. k \div d \in Int /\ k % d \in 0 .. d - 1 /\ k = (d * (k \div d)) + (k % d)
      OBVIOUS
    <3>3. PICK q \in Int, e \in 0 .. d - 1 : q = k \div d /\ k = d * q + e
      BY <3>2
    <3>4. q * d = d * q /\ q * d \in Int
      OBVIOUS
    <3>5. q * d >= m
      BY <3>1, <3>3, <3>4
    <3> QED
      BY <3>1, <3>2, <3>3, <3>5
  <2> QED
    BY <2>1, <2>2, <2>3, <2>4
<1>3. IsFiniteSet({1} \cup {Wait(r, b) : b \in Uses[r]})
  <2> DEFINE T == {Wait(r, b) : b \in Uses[r]}
             F == [b \in Uses[r] |-> Wait(r, b)]
  <2>1. F \in [Uses[r] -> T] /\ \A t \in T : \E b \in Uses[r] : F[b] = t
    OBVIOUS
  <2>2. IsFiniteSet(T)
    BY <1>1, <2>1, FS_Surjection, Fun_IsSurj
  <2> QED
    BY <2>2, FS_Singleton, FS_Union
<1>4. {1} \cup {Wait(r, b) : b \in Uses[r]} \subseteq Int
  BY <1>2
<1>5. /\ Retry(r) \in {1} \cup {Wait(r, b) : b \in Uses[r]}
      /\ \A y \in {1} \cup {Wait(r, b) : b \in Uses[r]} : Retry(r) >= y
  BY <1>3, <1>4, Greatest DEF Retry
<1> QED
  BY <1>2, <1>4, <1>5

-----------------------------------------------------------------------------
(* What a request has paid. *)

(* A request that goes on is still a request that has paid for what it did. *)
LEMMA MovesTo ==
  ASSUME CallsInv, NEW r \in Requests, NEW c \in CallType, Paid(c), Goes(r, c)
  PROVE  call' \in [Requests -> CallType] /\ (\A q \in Requests : Paid(call'[q])) /\ call'[r] = c
BY DEF CallsInv, Goes

(* What a request owes is what it used. *)
LEMMA OwedIs ==
  ASSUME NEW c \in CallType, Paid(c)
  PROVE  Owed(c) = Used(c) /\ Owed(c) \in Nat
<1>1. c.reserved \in Nat /\ c.measured \in Nat
  BY DEF CallType
<1>2. Max({c.reserved, c.measured}) \in Nat
  BY <1>1, MaxTwo
<1> QED
  BY <1>1, <1>2 DEF Owed, Used, Paid, CallType

(* A step that touches nothing. *)
LEMMA Rest == ASSUME CallsInv, UNCHANGED <<clock, limits, call, faults>> PROVE CallsInv'
BY DEF CallsInv, limits

(* A step of one request, with or without its statement. *)
LEMMA OwnStep ==
  ASSUME CallsInv, NEW r \in Requests, NEW c \in CallType, Paid(c), Goes(r, c),
         UNCHANGED clock, UNCHANGED faults \/ Fault,
         UNCHANGED limits \/ \E n \in Int : Changed(r, n)
  PROVE  CallsInv'
<1>1. call' \in [Requests -> CallType] /\ \A q \in Requests : Paid(call'[q])
  BY MovesTo
<1>2. faults' \in 0 .. MaxFaults
  BY AdmissionAssumption DEF CallsInv, Fault
<1>3. /\ level' \in [Buckets -> Int] /\ stamped' \in [Buckets -> 0 .. MaxTime]
      /\ spent' \in [Buckets -> [0 .. MaxTime -> Int]]
      /\ \A b \in Buckets : stamped'[b] <= clock
  <2>1. CASE UNCHANGED limits
    BY <2>1 DEF CallsInv, limits
  <2>2. ASSUME NEW n \in Int, Changed(r, n)
        PROVE  /\ level' \in [Buckets -> Int] /\ stamped' \in [Buckets -> 0 .. MaxTime]
               /\ spent' \in [Buckets -> [0 .. MaxTime -> Int]]
               /\ \A b \in Buckets : stamped'[b] <= clock
    BY <2>2, ChangedType
  <2> QED
    BY <2>1, <2>2
<1> QED
  BY <1>1, <1>2, <1>3 DEF CallsInv

(* One lemma for each way a request goes on. *)
LEMMA ArriveStep == ASSUME CallsInv, NEW r \in Requests, Arrive(r) PROVE CallsInv'
<1>1. PICK llm \in BOOLEAN, n \in Sizes :
        /\ llm \/ n = 1
        /\ Goes(r, [call[r] EXCEPT !.pc = "queued", !.llm = llm, !.reserved = n])
  BY DEF Arrive
<1>2. PICK c : c = [call[r] EXCEPT !.pc = "queued", !.llm = llm, !.reserved = n]
  OBVIOUS
<1>3. n \in Nat \ {0} /\ call[r] \in CallType /\ Paid(call[r]) /\ call[r].pc = "new"
  BY AdmissionAssumption DEF CallsInv, Arrive
<1>4. c \in CallType
  BY <1>2, <1>3 DEF CallType, Pcs
<1>5. Paid(c)
  BY <1>1, <1>2, <1>3 DEF CallType, Paid
<1> QED
  BY <1>1, <1>2, <1>4, <1>5, OwnStep DEF Arrive

LEMMA GoStep ==
  ASSUME CallsInv, NEW r \in Requests,
         Enter(r) \/ Leave(r) \/ PyCancel(r) \/ Headers(r) \/ ForwardFails(r) \/ Dies(r)
  PROVE  CallsInv'
<1>0. call[r] \in CallType /\ Paid(call[r]) /\ clock \in Int
  BY DEF CallsInv
<1>1. CASE Enter(r)
  <2>1. PICK c : c = [call[r] EXCEPT !.pc = "limiter", !.asked = clock]
    OBVIOUS
  <2>2. c \in CallType /\ Paid(c)
    BY <1>0, <1>1, <2>1 DEF Enter, CallType, Paid, Pcs, Ended
  <2> QED
    BY <1>1, <2>1, <2>2, OwnStep DEF Enter
<1>2. ASSUME NEW s \in {"left", "orphan", "stream", "settle", "dead"},
             Goes(r, [call[r] EXCEPT !.pc = s]),
             \/ s = "left" /\ Leave(r)
             \/ s = "orphan" /\ PyCancel(r)
             \/ s = "stream" /\ Headers(r)
             \/ s = "settle" /\ ForwardFails(r)
             \/ s = "dead" /\ Dies(r)
      PROVE  CallsInv'
  <2>1. PICK c : c = [call[r] EXCEPT !.pc = s]
    OBVIOUS
  <2>2. c \in CallType /\ Paid(c)
    BY <1>0, <1>2, <2>1 DEF Leave, PyCancel, Headers, ForwardFails, CallType, Paid, Pcs, Ended
  <2> QED
    BY <1>2, <2>1, <2>2, OwnStep DEF Leave, PyCancel, Headers, ForwardFails, Dies
<1> QED
  BY <1>1, <1>2 DEF Leave, PyCancel, Headers, ForwardFails, Dies

LEMMA EnoughIs ==
  ASSUME CallsInv, NEW r \in Requests
  PROVE  call[r].reserved \in Int /\ - call[r].reserved \in Int /\ 0 \in Int
BY DEF CallsInv, CallType

LEMMA TakeStep ==
  ASSUME CallsInv, NEW r \in Requests, Take(r) \/ TakeFails(r) \/ PyOrphanTakes(r)
  PROVE  CallsInv'
<1>0. call[r] \in CallType /\ Paid(call[r]) /\ call[r].reserved \in Int /\ - call[r].reserved \in Int /\ call[r].paid = 0
      /\ ~call[r].lost /\ call[r].paid + call[r].reserved \in Int
  BY EnoughIs DEF CallsInv, CallType, Paid, Take, TakeFails, PyOrphanTakes
<1>1. CASE Take(r) /\ Enough(r)
  <2>1. PICK c : c = [call[r] EXCEPT !.pc = "forward", !.paid = @ + call[r].reserved]
    OBVIOUS
  <2>2. c \in CallType /\ Paid(c)
    <3>1. PICK x \in Int : x = call[r].reserved
      BY <1>0
    <3>4. call[r].paid + call[r].reserved = x
      BY <1>0, <3>1
    <3>2. c = [call[r] EXCEPT !.pc = "forward", !.paid = x]
      BY <2>1, <3>4
    <3>3. c \in CallType /\ c.pc = "forward" /\ c.paid = x /\ c.reserved = x /\ ~c.lost /\ c.llm = call[r].llm
      BY <1>0, <3>1, <3>2 DEF CallType, Pcs
    <3> QED
      BY <1>0, <3>1, <3>3 DEF Paid
  <2>3. Changed(r, - call[r].reserved) /\ Goes(r, c) /\ UNCHANGED <<clock, faults>>
    BY <1>1, <2>1 DEF Take
  <2> QED
    BY <1>0, <2>2, <2>3, OwnStep
<1>2. CASE Take(r) /\ ~Enough(r)
  <2>1. PICK c : c = [call[r] EXCEPT !.pc = "refused", !.retry = Retry(r)]
    OBVIOUS
  <2>2. c \in CallType /\ Paid(c)
    <3>1. PICK t \in Int : t = Retry(r)
      BY RetryIs
    <3>2. c = [call[r] EXCEPT !.pc = "refused", !.retry = t]
      BY <2>1, <3>1
    <3> QED
      BY <1>0, <3>2 DEF CallType, Paid, Pcs, Ended
  <2>3. Changed(r, 0) /\ Goes(r, c) /\ UNCHANGED <<clock, faults>>
    BY <1>2, <2>1 DEF Take
  <2> QED
    BY <1>0, <2>2, <2>3, OwnStep
<1>3. CASE TakeFails(r)
  <2>1. CASE UNCHANGED limits /\ Goes(r, [call[r] EXCEPT !.pc = "failed"])
    <3>1. PICK c : c = [call[r] EXCEPT !.pc = "failed"]
      OBVIOUS
    <3>2. c \in CallType /\ Paid(c)
      BY <1>0, <3>1 DEF CallType, Paid, Pcs, Ended
    <3> QED
      BY <1>3, <2>1, <3>1, <3>2, OwnStep DEF TakeFails
  <2>2. CASE Changed(r, - call[r].reserved)
             /\ Goes(r, [call[r] EXCEPT !.pc = "failed", !.paid = @ + call[r].reserved, !.lost = TRUE])
    <3>1. PICK c : c = [call[r] EXCEPT !.pc = "failed", !.paid = @ + call[r].reserved, !.lost = TRUE]
      OBVIOUS
    <3>2. c \in CallType /\ Paid(c)
      BY <1>0, <3>1 DEF CallType, Paid, Pcs, Ended
    <3> QED
      BY <1>0, <1>3, <2>2, <3>1, <3>2, OwnStep DEF TakeFails
  <2> QED
    BY <1>3, <2>1, <2>2 DEF TakeFails
<1>4. CASE PyOrphanTakes(r)
  <2>1. PICK n \in Int : n = IF Enough(r) THEN call[r].reserved ELSE 0
    BY <1>0
  <2>2. PICK c : c = [call[r] EXCEPT !.pc = "left", !.paid = @ + n, !.lost = TRUE]
    OBVIOUS
  <2>3. c \in CallType /\ Paid(c)
    <3>1. PICK x \in Int : x = call[r].paid + n
      BY <1>0
    <3>2. c = [call[r] EXCEPT !.pc = "left", !.paid = x, !.lost = TRUE]
      BY <2>2, <3>1
    <3> QED
      BY <1>0, <3>2 DEF CallType, Paid, Pcs, Ended
  <2>4. Changed(r, - n) /\ Goes(r, c) /\ UNCHANGED <<clock, faults>>
    BY <1>4, <2>1, <2>2 DEF PyOrphanTakes
  <2> QED
    BY <2>3, <2>4, OwnStep
<1> QED
  BY <1>1, <1>2, <1>3, <1>4

LEMMA StreamStep == ASSUME CallsInv, NEW r \in Requests, StreamEnds(r) PROVE CallsInv'
<1>1. PICK whole \in BOOLEAN, n \in 0 .. MaxUnits :
        Goes(r, [call[r] EXCEPT !.pc = "settle", !.whole = whole, !.measured = IF call[r].llm THEN n ELSE 0])
  BY DEF StreamEnds
<1>2. PICK c : c = [call[r] EXCEPT !.pc = "settle", !.whole = whole, !.measured = IF call[r].llm THEN n ELSE 0]
  OBVIOUS
<1>3. c \in CallType /\ Paid(c)
  <2>1. PICK m \in Nat : m = IF call[r].llm THEN n ELSE 0
    BY AdmissionAssumption
  <2>2. c = [call[r] EXCEPT !.pc = "settle", !.whole = whole, !.measured = m]
    BY <1>2, <2>1
  <2>3. call[r] \in CallType /\ Paid(call[r]) /\ call[r].pc = "stream"
    BY DEF CallsInv, StreamEnds
  <2> QED
    BY <2>2, <2>3 DEF CallType, Paid, Pcs
<1> QED
  BY <1>1, <1>2, <1>3, OwnStep DEF StreamEnds

LEMMA SettleStep ==
  ASSUME CallsInv, NEW r \in Requests, Settle(r) \/ SettleFails(r)
  PROVE  CallsInv'
<1>1. PICK c \in CallType : c = call[r] /\ Paid(c) /\ c.pc = "settle"
  BY DEF CallsInv, Settle, SettleFails
<1>2. c.paid = c.reserved /\ ~c.lost /\ Owed(c) = Used(c) /\ Owed(c) \in Nat
  BY <1>1, OwedIs DEF Paid
<1>3. PICK o \in Nat : o = Owed(c)
  BY <1>2
<1>4. c.reserved \in Nat /\ c.reserved - o \in Int /\ c.paid + o - c.reserved = o
  BY <1>2 DEF CallType
<1>5. ~c.llm => o = 1
  BY <1>2, <1>3 DEF Used
<1>6. PICK u \in Int : u = IF c.llm THEN o ELSE IF c.whole THEN 1 ELSE 0
  OBVIOUS
<1>7. Settled(c) = [c EXCEPT !.pc = "done", !.paid = o, !.units = u]
  BY <1>3, <1>4, <1>6 DEF Settled, CallType
<1>8. CASE Settle(r)
  <2>1. PICK d : d = Settled(c)
    OBVIOUS
  <2>4. d = [c EXCEPT !.pc = "done", !.paid = o, !.units = u] /\ o \in Int /\ u \in Int /\ c \in CallType
    BY <1>7, <2>1
  <2>5. d \in CallType
    BY <2>4 DEF CallType, Pcs, Ended
  <2>0. d.pc = "done" /\ d.paid = o /\ d.units = u /\ ~d.lost /\ d.llm = c.llm /\ d.whole = c.whole
        /\ d.measured = c.measured /\ d.reserved = c.reserved
    BY <1>2, <2>4 DEF CallType
  <2>2. d \in CallType /\ d.pc = "done" /\ d.paid = o /\ d.units = u /\ ~d.lost /\ Used(d) = o
    BY <1>2, <1>3, <2>0, <2>5 DEF Used
  <2>3. d.llm = c.llm /\ d.reserved = c.reserved
    BY <2>0
  <2>6. Paid(d)
    BY <1>1, <1>6, <2>2, <2>3 DEF Paid
  <2> QED
    BY <1>1, <1>3, <1>4, <1>8, <2>1, <2>2, <2>6, OwnStep DEF Settle
<1>9. CASE SettleFails(r)
  <2>1. PICK x \in Int : x = Max({c.reserved, o}) /\ x >= c.reserved /\ x >= o
    BY <1>4, MaxTwo
  <2>2. CASE UNCHANGED limits /\ Goes(r, [c EXCEPT !.pc = "done", !.lost = TRUE, !.units = x])
    <3>1. PICK d : d = [c EXCEPT !.pc = "done", !.lost = TRUE, !.units = x]
      OBVIOUS
    <3>2. d \in CallType /\ d.pc = "done" /\ d.paid = c.reserved /\ d.units = x /\ d.lost /\ d.llm = c.llm /\ d.reserved = c.reserved
      BY <1>2, <3>1 DEF CallType, Pcs, Ended
    <3>3. Paid(d)
      BY <1>1, <2>1, <3>2 DEF Paid
    <3> QED
      BY <1>9, <2>2, <3>1, <3>2, <3>3, OwnStep DEF SettleFails
  <2>3. CASE Changed(r, c.reserved - o) /\ Goes(r, [Settled(c) EXCEPT !.lost = TRUE, !.units = x])
    <3>1. PICK d : d = [Settled(c) EXCEPT !.lost = TRUE, !.units = x]
      OBVIOUS
    <3>6. d = [c EXCEPT !.pc = "done", !.paid = o, !.lost = TRUE, !.units = x]
      BY <1>7, <3>1 DEF CallType
    <3>2. d = [c EXCEPT !.pc = "done", !.paid = o, !.lost = TRUE, !.units = x]
          /\ o \in Int /\ x \in Int /\ c \in CallType
      BY <3>6
    <3>5. d \in CallType
      BY <3>2 DEF CallType, Pcs, Ended
    <3>0. d.pc = "done" /\ d.paid = o /\ d.units = x /\ d.lost /\ d.llm = c.llm
          /\ d.whole = c.whole /\ d.measured = c.measured /\ d.reserved = c.reserved
      BY <3>2 DEF CallType
    <3>3. d \in CallType /\ d.pc = "done" /\ d.paid = o /\ d.units = x /\ d.lost /\ d.llm = c.llm /\ d.reserved = c.reserved /\ Used(d) = Used(c)
      BY <3>0, <3>5 DEF Used
    <3>4. Paid(d)
      BY <1>1, <1>2, <1>3, <2>1, <3>3 DEF Paid
    <3> QED
      BY <1>4, <1>9, <2>3, <3>1, <3>3, <3>4, OwnStep DEF SettleFails
  <2> QED
    BY <1>1, <1>3, <1>9, <2>1, <2>2, <2>3 DEF SettleFails
<1> QED
  BY <1>8, <1>9

(* No step makes a request pay anything else. *)
LEMMA CallsStep == ASSUME CallsInv, [Next]_vars PROVE CallsInv'
<1>1. CASE Tick
  <2>1. clock' \in 0 .. MaxTime /\ clock <= clock'
    BY <1>1, AdmissionAssumption DEF Tick, CallsInv
  <2>2. \A b \in Buckets : stamped[b] <= clock'
    BY <2>1, AdmissionAssumption DEF CallsInv
  <2> QED
    BY <1>1, <2>1, <2>2 DEF Tick, CallsInv, limits
<1>2. CASE UNCHANGED vars
  BY <1>2, Rest DEF vars
<1> QED
  BY <1>1, <1>2, ArriveStep, GoStep, TakeStep, StreamStep, SettleStep DEF Next, CallStep

LEMMA CallsInit == ASSUME Init PROVE CallsInv
<1>1. New \in CallType /\ Paid(New)
  BY DEF New, CallType, Paid, Pcs, Ended
<1>2. 0 \in 0 .. MaxTime /\ 0 \in 0 .. MaxFaults
  BY AdmissionAssumption
<1>3. level \in [Buckets -> Int]
  <2>1. \A b \in Buckets : Full(b) \in Int
    BY AdmissionAssumption DEF Full
  <2> QED
    BY <2>1 DEF Init
<1> QED
  BY <1>1, <1>2, <1>3 DEF Init, CallsInv

LEMMA PaidIsPaid == CallsInv => UsageIsPaid
BY DEF CallsInv, UsageIsPaid, Paid, Used

-----------------------------------------------------------------------------
(* What a bucket has given. *)

(* What bucket b has, and what it gave since t, is what it held at most then and the refill since. *)
Within(b) ==
  /\ \A t \in 0 .. MaxTime : t > stamped[b] => spent[b][t] = 0
  /\ \A t \in 0 .. MaxTime : t <= stamped[b] =>
       level[b] + spent[b][t] * Minute <= Full(b) + (stamped[b] - t) * Capacity[b]

(* The arithmetic of a statement at time k, on a bucket last written at s, seen since t. *)
LEMMA Sums ==
  ASSUME NEW L \in Int, NEW s \in Int, NEW k \in Int, NEW C \in Int, NEW M \in Int,
         NEW F \in Int,
         NEW x \in Int, NEW n \in Int, NEW t \in Int, NEW R \in Int, NEW V \in Int,
         C >= 0, t <= k, s <= k, V <= R + n * M, R <= F, R <= L + (k - s) * C,
         t > s => x = 0, t <= s => L + x * M <= F + (s - t) * C
  PROVE  V + (x - n) * M <= F + (k - t) * C
<1>1. (x - n) * M = x * M - n * M
  OBVIOUS
<1>2. (k - s) * C + (s - t) * C = (k - t) * C
  OBVIOUS
<1>3. x * M \in Int /\ n * M \in Int /\ (k - s) * C \in Int /\ (s - t) * C \in Int /\ (k - t) * C \in Int
  OBVIOUS
<1>4. CASE t <= s
  BY <1>1, <1>2, <1>3, <1>4
<1>5. CASE t > s
  <2>1. x * M = 0
    BY <1>5
  <2>2. (k - t) * C >= 0
    <3>1. k - t \in Nat /\ C \in Nat
      OBVIOUS
    <3>2. \A a, c \in Nat : a * c >= 0
      OBVIOUS
    <3> QED
      BY <3>1, <3>2
  <2> QED
    BY <1>1, <1>3, <2>1, <2>2
<1> QED
  BY <1>4, <1>5

(* A statement gives no more than the bucket held and what has refilled since. *)
LEMMA Charges ==
  ASSUME CallsInv, \A b \in Buckets : Within(b), NEW r \in Requests, NEW n \in Int,
         Changed(r, n)
  PROVE  \A b \in Buckets : Within(b)'
<1> SUFFICES ASSUME NEW b \in Buckets PROVE Within(b)'
  OBVIOUS
<1>1. Clock(r) = clock /\ clock \in 0 .. MaxTime /\ MaxTime \in Nat
  BY AdmissionAssumption DEF Clock, CallsInv
<1>2. CASE b \notin Uses[r]
  <2>1. level'[b] = level[b] /\ stamped'[b] = stamped[b] /\ \A t \in 0 .. MaxTime : spent'[b][t] = spent[b][t]
    BY <1>2 DEF Changed, CallsInv
  <2> QED
    BY <2>1 DEF Within, Full
<1>3. CASE b \in Uses[r]
  <2>1. /\ level'[b] = Min({Full(b), Refilled(b, clock) + n * Minute}) /\ stamped'[b] = clock
        /\ \A t \in 0 .. MaxTime : spent'[b][t] = IF t <= clock THEN spent[b][t] - n ELSE spent[b][t]
    BY <1>1, <1>3 DEF Changed
  <2>2. /\ stamped[b] \in Int /\ stamped[b] <= clock /\ clock \in Int /\ Capacity[b] \in Int /\ Capacity[b] >= 0
        /\ level[b] \in Int /\ Minute \in Int
    BY AdmissionAssumption DEF CallsInv
  <2>3. /\ Full(b) \in Int /\ Refilled(b, clock) \in Int /\ Refilled(b, clock) <= Full(b)
        /\ Refilled(b, clock) <= level[b] + (clock - stamped[b]) * Capacity[b]
    BY Refills
  <2>4. level'[b] \in Int /\ level'[b] <= Refilled(b, clock) + n * Minute
    <3>1. Refilled(b, clock) + n * Minute \in Int
      BY <2>2, <2>3
    <3> QED
      BY <2>1, <2>3, <3>1, MinTwo
  <2>5. ASSUME NEW t \in 0 .. MaxTime, t > clock PROVE spent'[b][t] = 0
    BY <2>1, <2>2, <2>5 DEF Within
  <2>6. ASSUME NEW t \in 0 .. MaxTime, t <= clock
        PROVE  level'[b] + spent'[b][t] * Minute <= Full(b) + (clock - t) * Capacity[b]
    <3>4. spent[b][t] \in Int
      BY DEF CallsInv
    <3>5. spent'[b][t] = spent[b][t] - n /\ t \in Int
      BY <2>1, <2>6
    <3>1. spent[b][t] \in Int /\ spent'[b][t] = spent[b][t] - n /\ t \in Int
      BY <3>4, <3>5
    <3>2. /\ t > stamped[b] => spent[b][t] = 0
          /\ t <= stamped[b] => level[b] + spent[b][t] * Minute <= Full(b) + (stamped[b] - t) * Capacity[b]
      BY DEF Within
    <3>3. level'[b] + (spent[b][t] - n) * Minute <= Full(b) + (clock - t) * Capacity[b]
      BY <2>2, <2>3, <2>4, <2>6, <3>1, <3>2, Sums
    <3> QED
      BY <3>1, <3>3
  <2> QED
    BY <2>1, <2>5, <2>6 DEF Within, Full
<1> QED
  BY <1>2, <1>3

(* Who changes the buckets. *)
LEMMA OnlyStatements ==
  ASSUME CallsInv, [Next]_vars
  PROVE  UNCHANGED limits \/ \E r \in Requests, n \in Int : Changed(r, n)
<1>1. ASSUME NEW r \in Requests, Take(r) \/ TakeFails(r) \/ PyOrphanTakes(r)
      PROVE  UNCHANGED limits \/ \E n \in Int : Changed(r, n)
  <2>1. call[r].reserved \in Int /\ 0 \in Int
    BY EnoughIs
  <2>2. PICK n \in Int : UNCHANGED limits \/ Changed(r, - n) \/ Changed(r, 0)
    BY <1>1, <2>1 DEF Take, TakeFails, PyOrphanTakes
  <2>3. - n \in Int
    OBVIOUS
  <2> QED
    BY <2>2, <2>3
<1>2. ASSUME NEW r \in Requests, Settle(r) \/ SettleFails(r)
      PROVE  UNCHANGED limits \/ \E n \in Int : Changed(r, n)
  <2>1. call[r] \in CallType /\ Paid(call[r])
    BY DEF CallsInv
  <2>2. call[r].reserved - Owed(call[r]) \in Int
    <3>1. Owed(call[r]) \in Nat /\ call[r].reserved \in Int
      BY <2>1, OwedIs DEF CallType
    <3> QED
      BY <3>1
  <2>3. UNCHANGED limits \/ Changed(r, call[r].reserved - Owed(call[r]))
    BY <1>2 DEF Settle, SettleFails
  <2> QED
    BY <2>2, <2>3
<1>3. CASE UNCHANGED vars
  BY <1>3 DEF vars
<1>4. CASE Tick
  BY <1>4 DEF Tick
<1>5. ASSUME NEW r \in Requests,
             Arrive(r) \/ Enter(r) \/ Leave(r) \/ PyCancel(r) \/ Headers(r) \/ ForwardFails(r) \/ StreamEnds(r) \/ Dies(r)
      PROVE  UNCHANGED limits
  BY <1>5 DEF Arrive, Enter, Leave, PyCancel, Headers, ForwardFails, StreamEnds, Dies
<1> QED
  BY <1>1, <1>2, <1>3, <1>4, <1>5 DEF Next, CallStep

(* The inductive invariant of Admission. *)
LimitsInv == CallsInv /\ \A b \in Buckets : Within(b)

(* So no step gives more. *)
LEMMA LimitsStep == ASSUME LimitsInv, [Next]_vars PROVE LimitsInv'
<1>1. CallsInv'
  BY CallsStep DEF LimitsInv
<1>2. CASE UNCHANGED limits
  <2>1. \A b \in Buckets : Within(b)'
    BY <1>2 DEF LimitsInv, limits, Within, Full
  <2> QED
    BY <1>1, <2>1 DEF LimitsInv
<1>3. ASSUME NEW r \in Requests, NEW n \in Int,
             Changed(r, n) PROVE \A b \in Buckets : Within(b)'
  BY <1>3, Charges DEF LimitsInv
<1> QED
  BY <1>1, <1>2, <1>3, OnlyStatements DEF LimitsInv

LEMMA LimitsInit == ASSUME Init PROVE LimitsInv
<1>1. ASSUME NEW b \in Buckets PROVE Within(b)
  <2>1. stamped[b] = 0 /\ level[b] = Full(b) /\ \A t \in 0 .. MaxTime : spent[b][t] = 0
    BY DEF Init
  <2>2. Full(b) \in Int /\ Capacity[b] \in Int /\ Minute \in Int
    BY AdmissionAssumption DEF Full
  <2>3. \A t \in 0 .. MaxTime : t <= 0 => t = 0
    OBVIOUS
  <2>4. 0 * Minute = 0 /\ (0 - 0) * Capacity[b] = 0
    BY <2>2
  <2> QED
    BY <2>1, <2>2, <2>3, <2>4 DEF Within
<1> QED
  BY <1>1, CallsInit DEF LimitsInv

(* What LimitsAreKept says of a request r, in one step. *)
Kept(r) ==
  /\ call[r].pc = "limiter" /\ call'[r].pc = "forward"
     => \A b \in Uses[r], from \in 0 .. clock :
          spent'[b][from] * Minute <= Full(b) + (clock - from) * Capacity[b]
  /\ call[r].pc = "limiter" /\ call'[r].pc = "refused"
     => \A b \in Uses[r] :
          level'[b] + call'[r].retry * Capacity[b] >= call[r].reserved * Minute

(* Only the statement itself admits or refuses. *)
LEMMA Decides ==
  ASSUME CallsInv, NEW r \in Requests, [Next]_vars, call[r].pc = "limiter",
         call'[r].pc \in {"forward", "refused"}
  PROVE  Take(r)
<1>1. ASSUME NEW q \in Requests, q # r, NEW c, Goes(q, c) PROVE FALSE
  BY <1>1 DEF CallsInv, Goes
<1>2. ASSUME UNCHANGED call PROVE FALSE
  BY <1>2
<1>3. PICK q \in Requests : Arrive(q) \/ CallStep(q) \/ Dies(q)
  BY <1>2 DEF Next, Tick, vars
<1>4. \E c : Goes(q, c)
  BY <1>3 DEF Arrive, CallStep, Dies, Enter, Leave, Take, TakeFails, PyCancel,
     PyOrphanTakes, Headers, ForwardFails,
              StreamEnds, Settle, SettleFails
<1>5. q = r
  BY <1>1, <1>4
<1>6. call[r] \in CallType
  BY DEF CallsInv
<1>8. ASSUME NEW c, Goes(r, c) PROVE call'[r] = c
  BY <1>8 DEF Goes, CallsInv
<1>9. ASSUME TakeFails(r) \/ PyCancel(r) \/ Dies(r)
      PROVE  \E c : Goes(r, c) /\ c.pc \in {"failed", "orphan", "dead"}
  <2>1. CASE TakeFails(r)
    <3>1. PICK c : Goes(r, c) /\ \/ c = [call[r] EXCEPT !.pc = "failed"]
                                  \/ c = [call[r] EXCEPT !.pc = "failed", !.paid = @ + call[r].reserved, !.lost = TRUE]
      BY <2>1 DEF TakeFails
    <3>2. c.pc = "failed"
      BY <1>6, <3>1 DEF CallType
    <3> QED
      BY <3>1, <3>2
  <2>2. CASE PyCancel(r)
    BY <1>6, <2>2 DEF PyCancel, CallType
  <2>3. CASE Dies(r)
    BY <1>6, <2>3 DEF Dies, CallType
  <2> QED
    BY <1>9, <2>1, <2>2, <2>3
<1>7. ~TakeFails(r) /\ ~PyCancel(r) /\ ~Dies(r)
  BY <1>8, <1>9
<1> QED
  BY <1>3, <1>5, <1>7 DEF Arrive, CallStep, Enter, Leave, PyOrphanTakes, Headers,
     ForwardFails, StreamEnds, Settle, SettleFails

(* A statement that admits had enough in every bucket, and one that refuses
   names a wait after which each of them has. *)
LEMMA TakeIsKept ==
  ASSUME LimitsInv, LimitsInv', NEW r \in Requests, Take(r)
  PROVE  Kept(r)
<1>4. /\ CallsInv /\ Clock(r) = clock /\ MaxTime \in Nat /\ Uses[r] \subseteq Buckets /\ Minute \in Int
  BY AdmissionAssumption DEF LimitsInv, Clock
<1>5. clock \in 0 .. MaxTime /\ call[r] \in CallType
  BY <1>4 DEF CallsInv
<1>1. /\ CallsInv /\ Clock(r) = clock /\ clock \in 0 .. MaxTime /\ MaxTime \in Nat /\ Uses[r] \subseteq Buckets
      /\ call[r] \in CallType /\ Minute \in Int /\ call[r].reserved \in Nat
  BY <1>4, <1>5 DEF CallType
<1>2. CASE Enough(r)
  <2>1. Changed(r, - call[r].reserved) /\ call'[r].pc = "forward"
    BY <1>1, <1>2 DEF Take, Goes, CallsInv, CallType
  <2>2. ASSUME NEW b \in Uses[r], NEW from \in 0 .. clock
        PROVE  spent'[b][from] * Minute <= Full(b) + (clock - from) * Capacity[b]
    <3>1. b \in Buckets /\ from \in 0 .. MaxTime /\ from <= clock
      BY <1>1
    <3>2. stamped'[b] = clock /\ level'[b] = Min({Full(b), Refilled(b, clock) + (- call[r].reserved) * Minute})
      BY <1>1, <2>1, <3>1 DEF Changed
    <3>3. Refilled(b, clock) >= call[r].reserved * Minute /\ Refilled(b, clock) \in Int /\ Full(b) \in Int
          /\ Full(b) >= 0
      <4>1. Full(b) >= 0
        <5>1. \A a, c \in Nat : a * c >= 0
          OBVIOUS
        <5> QED
          BY <3>1, <5>1, AdmissionAssumption DEF Full
      <4> QED
        BY <1>1, <1>2, <3>1, <4>1, Refills DEF Enough
    <3>4. level'[b] >= 0 /\ level'[b] \in Int
      <4>1. (- call[r].reserved) * Minute = - (call[r].reserved * Minute) /\ call[r].reserved * Minute \in Int
        BY <1>1
      <4>2. Refilled(b, clock) + (- call[r].reserved) * Minute \in Int
            /\ Refilled(b, clock) + (- call[r].reserved) * Minute >= 0
        BY <3>3, <4>1
      <4> QED
        BY <3>2, <3>3, <4>2, MinTwo
    <3>5. level'[b] + spent'[b][from] * Minute <= Full(b) + (clock - from) * Capacity[b]
      <4>1. Within(b)'
        BY <3>1 DEF LimitsInv
      <4>2. level'[b] + spent'[b][from] * Minute <= Full(b) + (stamped'[b] - from) * Capacity[b]
        BY <3>1, <3>2, <4>1 DEF Within, Full
      <4> QED
        BY <3>2, <4>2
    <3>6. spent'[b][from] \in Int
      BY <3>1 DEF LimitsInv, CallsInv
    <3>7. spent'[b][from] * Minute \in Int /\ (clock - from) * Capacity[b] \in Int
      BY <1>1, <3>1, <3>6, AdmissionAssumption
    <3> QED
      BY <3>3, <3>4, <3>5, <3>7
  <2> QED
    BY <2>1, <2>2 DEF Kept
<1>3. CASE ~Enough(r)
  <2>1. Changed(r, 0) /\ call'[r].pc = "refused" /\ call'[r].retry = Retry(r)
    BY <1>1, <1>3 DEF Take, Goes, CallsInv, CallType
  <2>2. ASSUME NEW b \in Uses[r]
        PROVE  level'[b] + call'[r].retry * Capacity[b] >= call[r].reserved * Minute
    <3>1. b \in Buckets /\ Capacity[b] \in Nat
      BY <1>1, AdmissionAssumption
    <3>2. level'[b] = Min({Full(b), Refilled(b, clock) + 0 * Minute})
      BY <1>1, <2>1, <3>1 DEF Changed
    <3>3. Refilled(b, clock) <= Full(b) /\ Refilled(b, clock) \in Int /\ Full(b) \in Int
      BY <1>1, <3>1, Refills
    <3>4. 0 * Minute = 0
      BY <1>1
    <3>5. level'[b] = Refilled(b, clock)
      BY <3>2, <3>3, <3>4, MinTwo
    <3>6. PICK R \in Int, W \in Int, x \in Int, y \in Int, v \in Int :
            /\ R = Retry(r) /\ W = Wait(r, b) /\ x = W * Capacity[b] /\ y = R * Capacity[b]
            /\ v = call[r].reserved * Minute
            /\ R >= W /\ x >= v - Refilled(b, clock)
      BY <1>1, <3>1, RetryIs
    <3>7. y >= x
      <4>1. R - W \in Nat /\ (R - W) * Capacity[b] = R * Capacity[b] - W * Capacity[b]
        BY <3>1, <3>6
      <4>2. \A a, c \in Nat : a * c >= 0
        OBVIOUS
      <4>3. (R - W) * Capacity[b] >= 0
        BY <3>1, <4>1, <4>2
      <4> QED
        BY <3>6, <4>1, <4>3
    <3>8. Refilled(b, clock) + y >= v
      BY <3>3, <3>6, <3>7
    <3> QED
      BY <2>1, <3>5, <3>6, <3>8
  <2> QED
    BY <2>1, <2>2 DEF Kept
<1> QED
  BY <1>2, <1>3

LEMMA StepIsKept ==
  ASSUME LimitsInv, LimitsInv', [Next]_vars, NEW r \in Requests
  PROVE  Kept(r)
<1>1. CASE call[r].pc = "limiter" /\ call'[r].pc \in {"forward", "refused"}
  BY <1>1, Decides, TakeIsKept DEF LimitsInv
<1> QED
  BY <1>1 DEF Kept

-----------------------------------------------------------------------------
(* What a cached answer is worth. *)

(* The types of KeyCache. *)
Time    == 0 .. LastTick
Readings == Cache!Values \cup {"none", "error"}
Reader  == [pc : {"idle", "lookup", "wait", "load", "loaded", "answered", "authorize", "admitted", "refused"},
            need : Cache!Rows, value : Readings, since : Time,
            seen : [Cache!Rows -> [value : Cache!Values \cup {"none"}, at : Time]]]
Entry   == [value : Cache!Values, at : Time]
Flight  == [value : Cache!Values \cup {"begin", "query"}, at : Time]

CacheType ==
  /\ now \in Time /\ shared \in BOOLEAN
  /\ row \in [Cache!Rows -> Cache!Values]
  /\ born \in [Cache!Rows -> 0 .. LastTick + 1] /\ died \in [Cache!Rows -> 0 .. LastTick + 1]
  /\ entry \in [Cache!Rows -> {Cache!None} \cup Entry]
  /\ flight \in [Cache!Rows -> {Cache!None} \cup Flight]
  /\ request \in [Readers -> Reader]

(* The row and when it was created and revoked. *)
RowOK(e) ==
  /\ row[e] = "absent" => born[e] = LastTick + 1 /\ died[e] = LastTick + 1
  /\ row[e] = "live" => born[e] <= now /\ died[e] = LastTick + 1
  /\ row[e] = "gone" => born[e] <= now /\ died[e] <= now

(* How far an entry's time may be from the time its value was read. *)
Lag == IF shared THEN 0 ELSE LoadTimeout

Holds(e, w) == w.at <= now /\ Cache!Was(e, w.value, w.at - Lag, now)

EntryOK(e) == entry[e] # Cache!None => Holds(e, entry[e])

Flies(e, w) ==
  /\ shared /\ w.at <= now /\ now - w.at <= LoadTimeout
  /\ w.value \in Cache!Values => Cache!Was(e, w.value, w.at, now)

FlightOK(e) == flight[e] # Cache!None => Flies(e, flight[e])

(* What a request goes by is no older than the window. *)
Recent(q) ==
  /\ q.pc \in {"load", "loaded"} => ~shared /\ q.since <= now /\ now - q.since <= LoadTimeout
  /\ q.pc = "loaded" => q.value \in Cache!Values /\ Cache!Was(q.need, q.value, q.since, now)
  /\ q.pc = "answered" /\ q.value \in Cache!Values => Cache!Was(q.need, q.value, now - Cache!Window, now)
  /\ \A e \in Cache!Rows : q.seen[e].value # "none" =>
       q.seen[e].at <= now /\ Cache!Was(e, q.seen[e].value, q.seen[e].at - Cache!Window, q.seen[e].at)

(* The inductive invariant of KeyCache. *)
CacheInv ==
  /\ CacheType
  /\ \A e \in Cache!Rows : RowOK(e) /\ EntryOK(e) /\ FlightOK(e)
  /\ \A r \in Readers : Recent(request[r])

(* How wide the window is in either gateway. *)
LEMMA WindowIs ==
  ASSUME shared \in BOOLEAN
  PROVE  /\ Cache!Window \in Nat /\ Lag \in Nat /\ LoadTimeout \in Nat /\ TTL \in Nat /\ TTL >= 1 /\ LastTick \in Nat
         /\ shared => Cache!Window >= TTL - 1 /\ Cache!Window >= LoadTimeout
         /\ ~shared => Cache!Window = TTL - 1 + LoadTimeout
<1>1. TTL - 1 \in Nat /\ LoadTimeout \in Nat /\ TTL \in Nat /\ TTL >= 1 /\ LastTick \in Nat
  BY GatewayAssumption
<1>2. Cache!Max({TTL - 1, LoadTimeout}) = Max({TTL - 1, LoadTimeout})
  BY DEF Cache!Max, Max
<1>3. Max({TTL - 1, LoadTimeout}) = IF TTL - 1 >= LoadTimeout THEN TTL - 1 ELSE LoadTimeout
  BY <1>1, MaxTwo
<1>4. CASE shared
  BY <1>1, <1>2, <1>3, <1>4 DEF Cache!Window, Lag
<1>5. CASE ~shared
  BY <1>1, <1>5 DEF Cache!Window, Lag
<1> QED
  BY <1>4, <1>5

(* A wider window. *)
LEMMA WasWider ==
  ASSUME CacheType, NEW e \in Cache!Rows, NEW v \in Cache!Values, NEW a \in Int,
         NEW b \in Int, NEW c \in Int, NEW d \in Int,
         c <= a, b <= d, Cache!Was(e, v, a, b)
  PROVE  Cache!Was(e, v, c, d)
<1>1. born[e] \in Int /\ died[e] \in Int
  BY WindowIs DEF CacheType
<1>2. v \in {"absent", "live", "gone"}
  BY DEF Cache!Values
<1> QED
  BY <1>1, <1>2 DEF Cache!Was

(* What the row is now. *)
LEMMA WasNow ==
  ASSUME CacheInv, NEW e \in Cache!Rows, NEW a \in Int, a <= now
  PROVE  Cache!Was(e, row[e], a, now)
<1>1. row[e] \in {"absent", "live", "gone"} /\ now \in 0 .. LastTick /\ LastTick \in Nat /\ RowOK(e)
  BY WindowIs DEF CacheInv, CacheType, Cache!Values, Time
<1>2. born[e] \in Int /\ died[e] \in Int
  BY WindowIs DEF CacheInv, CacheType
<1> QED
  BY <1>1, <1>2 DEF Cache!Was, RowOK

(* What was so stays so. *)
LEMMA WasStays ==
  ASSUME CacheInv, NEW x \in Cache!Rows, Cache!Create(x) \/ Cache!Revoke(x),
         NEW e \in Cache!Rows, NEW v \in Cache!Values, NEW a \in Int, NEW b \in Int,
         a <= now, b <= now, Cache!Was(e, v, a, b)
  PROVE  Cache!Was(e, v, a, b)'
<1>1. RowOK(e) /\ born[e] \in 0 .. LastTick + 1 /\ died[e] \in 0 .. LastTick + 1 /\ now \in 0 .. LastTick /\ LastTick \in Nat
  BY WindowIs DEF CacheInv, CacheType, Time
<1>2. v \in {"absent", "live", "gone"}
  BY DEF Cache!Values
<1>3. CASE Cache!Create(x)
  <2>1. /\ row[x] = "absent" /\ born' = [born EXCEPT ![x] = now] /\ died' = died
    BY <1>3 DEF Cache!Create
  <2>2. CASE e = x
    <3>1. born'[e] = now /\ died'[e] = died[e] /\ born[e] = LastTick + 1 /\ died[e] = LastTick + 1
      BY <1>1, <2>1, <2>2 DEF CacheInv, CacheType, RowOK
    <3> QED
      BY <1>1, <1>2, <3>1 DEF Cache!Was
  <2>3. CASE e # x
    <3>1. born'[e] = born[e] /\ died'[e] = died[e]
      BY <2>1, <2>3 DEF CacheInv, CacheType
    <3> QED
      BY <3>1 DEF Cache!Was
  <2> QED
    BY <2>2, <2>3
<1>4. CASE Cache!Revoke(x)
  <2>1. /\ row[x] = "live" /\ died' = [died EXCEPT ![x] = now] /\ born' = born
    BY <1>4 DEF Cache!Revoke
  <2>2. CASE e = x
    <3>1. died'[e] = now /\ born'[e] = born[e] /\ died[e] = LastTick + 1
      BY <1>1, <2>1, <2>2 DEF CacheInv, CacheType, RowOK
    <3> QED
      BY <1>1, <1>2, <3>1 DEF Cache!Was
  <2>3. CASE e # x
    <3>1. born'[e] = born[e] /\ died'[e] = died[e]
      BY <2>1, <2>3 DEF CacheInv, CacheType
    <3> QED
      BY <3>1 DEF Cache!Was
  <2> QED
    BY <2>2, <2>3
<1> QED
  BY <1>3, <1>4

(* What a hit answers. *)
LEMMA HitIs ==
  ASSUME CacheInv, NEW e \in Cache!Rows, Cache!Fresh(e)
  PROVE  entry[e].value \in Cache!Values /\ Cache!Was(e, entry[e].value, now - Cache!Window, now)
<1>1. entry[e] \in Entry /\ now - entry[e].at < TTL /\ EntryOK(e) /\ entry[e] # Cache!None /\ CacheType
  BY DEF CacheInv, CacheType, Cache!Fresh
<1>2. entry[e].value \in Cache!Values /\ entry[e].at \in Int /\ now \in Int
  BY <1>1, WindowIs DEF Entry, Time, CacheType
<1>3. now - Cache!Window <= entry[e].at - Lag /\ now - Cache!Window \in Int /\ entry[e].at - Lag \in Int
  BY <1>1, <1>2, WindowIs DEF CacheType, Lag
<1> QED
  BY <1>1, <1>2, <1>3, WasWider DEF EntryOK, Holds

(* A step that takes no time, of rows that do not change. *)
LEMMA SameTime ==
  ASSUME UNCHANGED <<now, row, born, died, shared>>
  PROVE  /\ \A e, v, a, b : Cache!Was(e, v, a, b)' <=> Cache!Was(e, v, a, b)
         /\ Cache!Window' = Cache!Window
         /\ \A q : Recent(q) => Recent(q)'
         /\ \A e, w : Holds(e, w) => Holds(e, w)'
         /\ \A e : entry'[e] = entry[e] /\ EntryOK(e) => EntryOK(e)'
         /\ \A e, w : Flies(e, w) => Flies(e, w)'
         /\ \A e : flight'[e] = flight[e] /\ FlightOK(e) => FlightOK(e)'
         /\ \A e : RowOK(e) => RowOK(e)'
<1>1. \A e, v, a, b : Cache!Was(e, v, a, b)' <=> Cache!Was(e, v, a, b)
  BY DEF Cache!Was
<1>2. Cache!Window' = Cache!Window /\ Lag' = Lag
  BY DEF Cache!Window, Lag
<1>3. \A q : Recent(q) => Recent(q)'
  BY <1>1, <1>2 DEF Recent
<1>7. \A e, w : Holds(e, w) => Holds(e, w)'
  BY <1>1, <1>2 DEF Holds
<1>4. \A e : entry'[e] = entry[e] /\ EntryOK(e) => EntryOK(e)'
  BY <1>7 DEF EntryOK
<1>8. \A e, w : Flies(e, w) => Flies(e, w)'
  BY <1>1 DEF Flies
<1>5. \A e : flight'[e] = flight[e] /\ FlightOK(e) => FlightOK(e)'
  BY <1>8 DEF FlightOK
<1>6. \A e : RowOK(e) => RowOK(e)'
  BY DEF RowOK
<1> QED
  BY <1>1, <1>2, <1>3, <1>4, <1>5, <1>6, <1>7, <1>8

-----------------------------------------------------------------------------
(* Requests. *)

(* Steps of one request. *)
LEMMA GoesTo ==
  ASSUME CacheInv, UNCHANGED <<now, row, born, died, shared>>, NEW r \in Readers,
         NEW q \in Reader, Recent(q), Cache!Goes(r, q)
  PROVE  request' \in [Readers -> Reader] /\ \A s \in Readers : Recent(request[s])'
<1>1. request' = [request EXCEPT ![r] = q]
  BY DEF Cache!Goes
<1>2. request' \in [Readers -> Reader]
  BY <1>1 DEF CacheInv, CacheType
<1>3. ASSUME NEW s \in Readers PROVE Recent(request[s])'
  <2>1. PICK x : x = request'[s]
    OBVIOUS
  <2>2. Recent(x)
    BY <1>1, <2>1 DEF CacheInv, CacheType
  <2>3. Recent(x)'
    BY <2>2, SameTime
  <2> QED
    BY <2>1, <2>3 DEF Recent
<1> QED
  BY <1>2, <1>3

LEMMA RequestStep ==
  ASSUME CacheInv, UNCHANGED <<now, row, born, died, shared, entry, flight>>,
         request' \in [Readers -> Reader], \A s \in Readers : Recent(request[s])'
  PROVE  CacheInv'
<1>1. CacheType'
  BY DEF CacheInv, CacheType
<1>2. \A e \in Cache!Rows : (RowOK(e) /\ EntryOK(e) /\ FlightOK(e))'
  BY SameTime DEF CacheInv
<1> QED
  BY <1>1, <1>2 DEF CacheInv

LEMMA OneStep ==
  ASSUME CacheInv, UNCHANGED <<now, row, born, died, shared, entry, flight>>,
         NEW r \in Readers, NEW q \in Reader, Recent(q), Cache!Goes(r, q)
  PROVE  CacheInv'
BY GoesTo, RequestStep

(* A request of which only the place changes, to one where nothing is asked of it. *)
LEMMA Elsewhere ==
  ASSUME CacheInv, NEW r \in Readers,
         NEW pc \in {"idle", "lookup", "wait", "authorize", "admitted", "refused"}
  PROVE  [request[r] EXCEPT !.pc = pc] \in Reader /\ Recent([request[r] EXCEPT !.pc = pc])
<1>1. request[r] \in Reader /\ Recent(request[r])
  BY DEF CacheInv, CacheType
<1>2. PICK q : q = [request[r] EXCEPT !.pc = pc]
  OBVIOUS
<1>3. q \in Reader /\ q.pc = pc /\ q.seen = request[r].seen
  BY <1>1, <1>2 DEF Reader
<1>4. Recent(q)
  BY <1>1, <1>3 DEF Recent
<1> QED
  BY <1>2, <1>3, <1>4

(* A lookup answered with what the row was within the window. *)
LEMMA AnswerIs ==
  ASSUME CacheInv, NEW r \in Readers, NEW v \in Readings,
         v \in Cache!Values => Cache!Was(request[r].need, v, now - Cache!Window, now)
  PROVE  Cache!Answered(request[r], v) \in Reader /\ Recent(Cache!Answered(request[r], v))
<1>1. request[r] \in Reader /\ Recent(request[r])
  BY DEF CacheInv, CacheType
<1>2. PICK q : q = Cache!Answered(request[r], v)
  OBVIOUS
<1>3. q \in Reader /\ q.pc = "answered" /\ q.seen = request[r].seen /\ q.value = v /\ q.need = request[r].need
  BY <1>1, <1>2 DEF Reader, Cache!Answered
<1>4. Recent(q)
  BY <1>1, <1>3 DEF Recent
<1> QED
  BY <1>2, <1>3, <1>4

(* What a read that ends tells everybody who waits for it. *)
LEMMA Delivers ==
  ASSUME CacheInv, NEW e \in Cache!Rows, NEW v \in Readings,
         v \in Cache!Values => Cache!Was(e, v, now - Cache!Window, now),
         Cache!Deliver(e, v), UNCHANGED <<now, row, born, died, shared>>
  PROVE  /\ request' \in [Readers -> Reader] /\ \A s \in Readers : Recent(request[s])'
         /\ flight' \in [Cache!Rows -> {Cache!None} \cup Flight] /\ \A x \in Cache!Rows : FlightOK(x)'
<1>1. ASSUME NEW s \in Readers
      PROVE  /\ (IF request[s].pc = "wait" /\ request[s].need = e THEN Cache!Answered(request[s], v) ELSE request[s]) \in Reader
             /\ Recent(IF request[s].pc = "wait" /\ request[s].need = e THEN Cache!Answered(request[s], v) ELSE request[s])
  <2>1. CASE request[s].pc = "wait" /\ request[s].need = e
    BY <2>1, AnswerIs
  <2>2. CASE ~(request[s].pc = "wait" /\ request[s].need = e)
    BY <2>2 DEF CacheInv, CacheType
  <2> QED
    BY <2>1, <2>2
<1>2. request' \in [Readers -> Reader]
  BY <1>1 DEF Cache!Deliver
<1>3. ASSUME NEW s \in Readers PROVE Recent(request[s])'
  <2>1. PICK x : x = request'[s]
    OBVIOUS
  <2>2. Recent(x)
    BY <1>1, <2>1 DEF Cache!Deliver
  <2>3. Recent(x)'
    BY <2>2, SameTime
  <2> QED
    BY <2>1, <2>3 DEF Recent
<1>4. flight' = [flight EXCEPT ![e] = Cache!None]
  BY DEF Cache!Deliver
<1>5. flight' \in [Cache!Rows -> {Cache!None} \cup Flight]
  BY <1>4 DEF CacheInv, CacheType
<1>6. ASSUME NEW x \in Cache!Rows PROVE FlightOK(x)'
  <2>1. CASE x = e
    BY <1>4, <2>1 DEF CacheInv, CacheType, FlightOK
  <2>2. CASE x # e
    <3>1. flight'[x] = flight[x] /\ FlightOK(x)
      BY <1>4, <2>2 DEF CacheInv, CacheType
    <3> QED
      BY <3>1, SameTime
  <2> QED
    BY <2>1, <2>2
<1> QED
  BY <1>2, <1>3, <1>5, <1>6

(* One lemma for each step of a request, a read and a row. *)
LEMMA Readers1 ==
  ASSUME CacheInv, NEW r \in Readers,
         Cache!Arrive(r) \/ Cache!Leave(r) \/ Cache!Authorize(r) \/ Cache!Hit(r) \/ Cache!PyFails(r)
  PROVE  CacheInv'
<1>1. CASE Cache!Arrive(r) \/ Cache!Leave(r) \/ Cache!Authorize(r)
  <2>1. PICK pc \in {"lookup", "refused", "admitted"} : Cache!Goes(r, [request[r] EXCEPT !.pc = pc])
    BY <1>1 DEF Cache!Arrive, Cache!Leave, Cache!Authorize
  <2>2. PICK q : q = [request[r] EXCEPT !.pc = pc]
    OBVIOUS
  <2>3. q \in Reader /\ Recent(q) /\ Cache!Goes(r, q)
    BY <2>1, <2>2, Elsewhere
  <2>4. UNCHANGED <<now, row, born, died, shared, entry, flight>>
    BY <1>1 DEF Cache!Arrive, Cache!Leave, Cache!Authorize, Cache!cache
  <2> QED
    BY <2>3, <2>4, OneStep
<1>2. CASE Cache!Hit(r)
  <2>1. request[r].need \in Cache!Rows
    BY DEF CacheInv, CacheType, Reader
  <2>2. PICK v : v = entry[request[r].need].value
    OBVIOUS
  <2>3. v \in Cache!Values /\ Cache!Was(request[r].need, v, now - Cache!Window, now) /\ v \in Readings
    BY <1>2, <2>1, <2>2, HitIs DEF Cache!Hit, Readings
  <2>4. PICK q : q = Cache!Answered(request[r], v)
    OBVIOUS
  <2>5. q \in Reader /\ Recent(q) /\ Cache!Goes(r, q)
    BY <1>2, <2>2, <2>3, <2>4, AnswerIs DEF Cache!Hit
  <2>6. UNCHANGED <<now, row, born, died, shared, entry, flight>>
    BY <1>2 DEF Cache!Hit, Cache!cache
  <2> QED
    BY <2>5, <2>6, OneStep
<1>3. CASE Cache!PyFails(r)
  <2>1. "error" \in Readings /\ "error" \notin Cache!Values
    BY DEF Readings, Cache!Values
  <2>2. PICK q : q = Cache!Answered(request[r], "error")
    OBVIOUS
  <2>3. q \in Reader /\ Recent(q) /\ Cache!Goes(r, q)
    BY <1>3, <2>1, <2>2, AnswerIs DEF Cache!PyFails
  <2>4. UNCHANGED <<now, row, born, died, shared, entry, flight>>
    BY <1>3 DEF Cache!PyFails, Cache!cache
  <2> QED
    BY <2>3, <2>4, OneStep
<1> QED
  BY <1>1, <1>2, <1>3

LEMMA PyReads ==
  ASSUME CacheInv, NEW r \in Readers, Cache!PyLoad(r) \/ Cache!PyQuery(r)
  PROVE  CacheInv'
<1>0. request[r] \in Reader /\ Recent(request[r]) /\ now \in Time /\ now \in Nat /\ LoadTimeout \in Nat
  BY WindowIs DEF CacheInv, CacheType, Time
<1>1. CASE Cache!PyLoad(r)
  <2>1. PICK q : q = [request[r] EXCEPT !.pc = "load", !.since = now]
    OBVIOUS
  <2>2. q \in Reader /\ q.pc = "load" /\ q.since = now /\ q.seen = request[r].seen
    BY <1>0, <2>1 DEF Reader
  <2>3. Recent(q)
    BY <1>0, <1>1, <2>2 DEF Recent, Cache!PyLoad
  <2> QED
    BY <1>1, <2>1, <2>2, <2>3, OneStep DEF Cache!PyLoad, Cache!cache
<1>2. CASE Cache!PyQuery(r)
  <2>1. PICK q : q = [request[r] EXCEPT !.pc = "loaded", !.value = row[request[r].need]]
    OBVIOUS
  <2>2. request[r].need \in Cache!Rows /\ row[request[r].need] \in Cache!Values /\ request[r].since \in Int
        /\ request[r].since <= now
    BY <1>0, <1>2 DEF Reader, CacheInv, CacheType, Recent, Cache!PyQuery, Time
  <2>3. q \in Reader /\ q.pc = "loaded" /\ q.since = request[r].since /\ q.seen = request[r].seen
        /\ q.need = request[r].need /\ q.value = row[request[r].need]
    BY <1>0, <2>1, <2>2 DEF Reader, Readings
  <2>4. Cache!Was(q.need, q.value, q.since, now)
    BY <2>2, <2>3, WasNow
  <2>5. Recent(q)
    BY <1>0, <1>2, <2>2, <2>3, <2>4 DEF Recent, Cache!PyQuery
  <2> QED
    BY <1>2, <2>1, <2>3, <2>5, OneStep DEF Cache!PyQuery, Cache!cache
<1> QED
  BY <1>1, <1>2

LEMMA PyStores == ASSUME CacheInv, NEW r \in Readers, Cache!PyStore(r) PROVE CacheInv'
<1>0. request[r] \in Reader /\ Recent(request[r]) /\ now \in Time /\ now \in Int /\ LoadTimeout \in Nat /\ CacheType
  BY WindowIs DEF CacheInv, CacheType, Time
<1>1. PICK e \in Cache!Rows, v \in Cache!Values : e = request[r].need /\ v = request[r].value
  BY <1>0 DEF Reader, Recent, Cache!PyStore
<1>2. ~shared /\ request[r].since <= now /\ now - request[r].since <= LoadTimeout /\ request[r].since \in Int
      /\ Cache!Was(e, v, request[r].since, now)
  BY <1>0, <1>1 DEF Reader, Recent, Cache!PyStore, Time
<1>3. Cache!Was(e, v, now - LoadTimeout, now) /\ Cache!Was(e, v, now - Cache!Window, now)
  <2>1. now - Cache!Window <= request[r].since /\ now - LoadTimeout <= request[r].since
        /\ now - Cache!Window \in Int /\ now - LoadTimeout \in Int
    BY <1>0, <1>2, WindowIs DEF CacheType
  <2> QED
    BY <1>0, <1>2, <2>1, WasWider
<1>4. PICK q : q = Cache!Answered(request[r], v)
  OBVIOUS
<1>5. q \in Reader /\ Recent(q) /\ Cache!Goes(r, q)
  <2>1. v \in Readings
    BY DEF Readings
  <2> QED
    BY <1>1, <1>3, <1>4, <2>1, AnswerIs DEF Cache!PyStore
<1>6. UNCHANGED <<now, row, born, died, shared, flight>>
  BY DEF Cache!PyStore
<1>7. PICK w : w = [value |-> v, at |-> now]
  OBVIOUS
<1>8. entry' = [entry EXCEPT ![e] = w] /\ w \in Entry /\ w.value = v /\ w.at = now
  BY <1>0, <1>1, <1>7 DEF Cache!PyStore, Entry
<1>9. entry' \in [Cache!Rows -> {Cache!None} \cup Entry]
  BY <1>0, <1>8 DEF CacheType
<1>10. ASSUME NEW x \in Cache!Rows PROVE EntryOK(x)'
  <2>1. CASE x = e
    <3>1. entry'[x] = w
      BY <1>0, <1>8, <2>1 DEF CacheType
    <3>2. Holds(x, w)
      BY <1>0, <1>2, <1>3, <1>8, <2>1 DEF Holds, Lag
    <3>3. Holds(x, w)'
      BY <1>6, <3>2, SameTime
    <3> QED
      BY <3>1, <3>3 DEF EntryOK
  <2>2. CASE x # e
    <3>1. entry'[x] = entry[x] /\ EntryOK(x)
      BY <1>0, <1>8, <2>2 DEF CacheType, CacheInv
    <3> QED
      BY <1>6, <3>1, SameTime
  <2> QED
    BY <2>1, <2>2
<1>11. request' \in [Readers -> Reader] /\ \A s \in Readers : Recent(request[s])'
  BY <1>5, <1>6, GoesTo
<1>12. CacheType'
  BY <1>0, <1>6, <1>9, <1>11 DEF CacheType
<1>13. \A x \in Cache!Rows : (RowOK(x) /\ FlightOK(x))'
  BY <1>6, SameTime DEF CacheInv
<1> QED
  BY <1>10, <1>11, <1>12, <1>13 DEF CacheInv

LEMMA JudgeStep == ASSUME CacheInv, NEW r \in Readers, Cache!Judge(r) PROVE CacheInv'
<1>0. request[r] \in Reader /\ Recent(request[r]) /\ now \in Time /\ now \in Int /\ CacheType
  BY WindowIs DEF CacheInv, CacheType, Time
<1>1. PICK n \in Cache!Rows, v \in Readings : n = request[r].need /\ v = request[r].value
  BY <1>0 DEF Reader
<1>2. PICK old : old = request[r].seen
  OBVIOUS
<1>3. PICK new : new = IF v \in Cache!Values THEN [old EXCEPT ![n] = [value |-> v, at |-> now]] ELSE old
  OBVIOUS
<1>4. PICK pc \in {"refused", "lookup", "authorize"} :
        pc = IF ~Cache!Usable(request[r]) THEN "refused" ELSE IF n = "key" THEN "lookup" ELSE "authorize"
  OBVIOUS
<1>5. PICK q : q = [request[r] EXCEPT !.seen = new, !.pc = pc, !.need = "route"]
  OBVIOUS
<1>6. Cache!Goes(r, q)
  BY <1>1, <1>2, <1>3, <1>4, <1>5 DEF Cache!Judge
<1>7. /\ old \in [Cache!Rows -> [value : Cache!Values \cup {"none"}, at : Time]]
      /\ \A e \in Cache!Rows : old[e].value # "none" =>
           old[e].at <= now /\ Cache!Was(e, old[e].value, old[e].at - Cache!Window, old[e].at)
  BY <1>0, <1>2 DEF Reader, Recent
<1>8. /\ new \in [Cache!Rows -> [value : Cache!Values \cup {"none"}, at : Time]]
      /\ \A e \in Cache!Rows : new[e].value # "none" =>
           new[e].at <= now /\ Cache!Was(e, new[e].value, new[e].at - Cache!Window, new[e].at)
  <2>1. CASE v \in Cache!Values
    <3>1. PICK w : w = [value |-> v, at |-> now]
      OBVIOUS
    <3>2. w \in [value : Cache!Values \cup {"none"}, at : Time] /\ w.value = v /\ w.at = now
      BY <1>0, <2>1, <3>1
    <3>3. new = [old EXCEPT ![n] = w]
      BY <1>3, <2>1, <3>1
    <3>4. Cache!Was(n, v, now - Cache!Window, now)
      BY <1>0, <1>1, <2>1 DEF Recent, Cache!Judge
    <3>5. ASSUME NEW e \in Cache!Rows, new[e].value # "none"
          PROVE  new[e].at <= now /\ Cache!Was(e, new[e].value, new[e].at - Cache!Window, new[e].at)
      <4>1. CASE e = n
        <5>1. new[e] = w
          BY <1>7, <3>3, <4>1
        <5> QED
          BY <1>0, <3>2, <3>4, <4>1, <5>1
      <4>2. CASE e # n
        <5>1. new[e] = old[e]
          BY <1>7, <3>3, <4>2
        <5> QED
          BY <1>7, <3>5, <5>1
      <4> QED
        BY <4>1, <4>2
    <3>6. new \in [Cache!Rows -> [value : Cache!Values \cup {"none"}, at : Time]]
      BY <1>7, <3>2, <3>3
    <3> QED
      BY <3>5, <3>6
  <2>2. CASE v \notin Cache!Values
    BY <1>3, <1>7, <2>2
  <2> QED
    BY <2>1, <2>2
<1>9. q \in Reader /\ q.pc = pc /\ q.seen = new
  BY <1>0, <1>4, <1>5, <1>8 DEF Reader, Cache!Rows
<1>10. Recent(q)
  BY <1>4, <1>8, <1>9 DEF Recent
<1> QED
  BY <1>6, <1>9, <1>10, OneStep DEF Cache!Judge, Cache!cache

(* The parts together. *)
LEMMA PartsStep ==
  ASSUME CacheInv, UNCHANGED <<now, row, born, died, shared>>,
         entry' \in [Cache!Rows -> {Cache!None} \cup Entry], \A x \in Cache!Rows : EntryOK(x)',
         flight' \in [Cache!Rows -> {Cache!None} \cup Flight], \A x \in Cache!Rows : FlightOK(x)',
         request' \in [Readers -> Reader], \A s \in Readers : Recent(request[s])'
  PROVE  CacheInv'
<1>1. CacheType'
  BY DEF CacheInv, CacheType
<1>2. \A x \in Cache!Rows : RowOK(x)'
  BY SameTime DEF CacheInv
<1> QED
  BY <1>1, <1>2 DEF CacheInv

(* A new read, or one that goes on; a new entry, or none. *)
LEMMA NewFlight ==
  ASSUME CacheInv, UNCHANGED <<now, row, born, died, shared>>, NEW e \in Cache!Rows,
         NEW w \in Flight, Flies(e, w),
         flight' = [flight EXCEPT ![e] = w]
  PROVE  flight' \in [Cache!Rows -> {Cache!None} \cup Flight] /\ \A x \in Cache!Rows : FlightOK(x)'
<1>1. flight' \in [Cache!Rows -> {Cache!None} \cup Flight]
  BY DEF CacheInv, CacheType
<1>2. ASSUME NEW x \in Cache!Rows PROVE FlightOK(x)'
  <2>1. CASE x = e
    <3>1. flight'[x] = w
      BY <2>1 DEF CacheInv, CacheType
    <3>2. Flies(x, w)'
      BY <2>1, SameTime
    <3> QED
      BY <3>1, <3>2 DEF FlightOK
  <2>2. CASE x # e
    <3>1. flight'[x] = flight[x] /\ FlightOK(x)
      BY <2>2 DEF CacheInv, CacheType
    <3> QED
      BY <3>1, SameTime
  <2> QED
    BY <2>1, <2>2
<1> QED
  BY <1>1, <1>2

LEMMA NewEntry ==
  ASSUME CacheInv, UNCHANGED <<now, row, born, died, shared>>, NEW e \in Cache!Rows,
         NEW w \in {Cache!None} \cup Entry, w # Cache!None => Holds(e, w),
         entry' = [entry EXCEPT ![e] = w]
  PROVE  entry' \in [Cache!Rows -> {Cache!None} \cup Entry] /\ \A x \in Cache!Rows : EntryOK(x)'
<1>1. entry' \in [Cache!Rows -> {Cache!None} \cup Entry]
  BY DEF CacheInv, CacheType
<1>2. ASSUME NEW x \in Cache!Rows PROVE EntryOK(x)'
  <2>1. CASE x = e
    <3>1. entry'[x] = w
      BY <2>1 DEF CacheInv, CacheType
    <3>2. w # Cache!None => Holds(x, w)'
      BY <2>1, SameTime
    <3> QED
      BY <3>1, <3>2 DEF EntryOK
  <2>2. CASE x # e
    <3>1. entry'[x] = entry[x] /\ EntryOK(x)
      BY <2>2 DEF CacheInv, CacheType
    <3> QED
      BY <3>1, SameTime
  <2> QED
    BY <2>1, <2>2
<1> QED
  BY <1>1, <1>2

(* What stays stays right. *)
LEMMA Stay ==
  ASSUME CacheInv, UNCHANGED <<now, row, born, died, shared>>
  PROVE  /\ entry' = entry => /\ entry' \in [Cache!Rows -> {Cache!None} \cup Entry]
                              /\ \A x \in Cache!Rows : EntryOK(x)'
         /\ flight' = flight => /\ flight' \in [Cache!Rows -> {Cache!None} \cup Flight]
                                /\ \A x \in Cache!Rows : FlightOK(x)'
         /\ request' = request => /\ request' \in [Readers -> Reader]
                                  /\ \A s \in Readers : Recent(request[s])'
<1>1. ASSUME request' = request, NEW s \in Readers PROVE Recent(request[s])'
  <2>1. PICK x : x = request[s]
    OBVIOUS
  <2>2. Recent(x)'
    BY <2>1, SameTime DEF CacheInv
  <2> QED
    BY <1>1, <2>1, <2>2 DEF Recent
<1>2. entry' = entry => \A x \in Cache!Rows : EntryOK(x)'
  BY SameTime DEF CacheInv
<1>3. flight' = flight => \A x \in Cache!Rows : FlightOK(x)'
  BY SameTime DEF CacheInv
<1> QED
  BY <1>1, <1>2, <1>3 DEF CacheInv, CacheType

(* The steps of the shared reads. *)
LEMMA JoinStep == ASSUME CacheInv, NEW r \in Readers, Cache!Join(r) PROVE CacheInv'
<1>1. UNCHANGED <<now, row, born, died, shared, entry>> /\ shared /\ now \in Time /\ now \in Nat /\ LoadTimeout \in Nat
  BY WindowIs DEF Cache!Join, CacheInv, CacheType, Time
<1>2. PICK e \in Cache!Rows : e = request[r].need
  BY DEF CacheInv, CacheType, Reader
<1>3. flight' \in [Cache!Rows -> {Cache!None} \cup Flight] /\ \A x \in Cache!Rows : FlightOK(x)'
  <2>1. CASE flight' = flight
    BY <1>1, <2>1, Stay
  <2>2. CASE flight' # flight
    <3>1. PICK w : w = [value |-> "begin", at |-> now]
      OBVIOUS
    <3>2. w \in Flight /\ w.value = "begin" /\ w.at = now /\ "begin" \notin Cache!Values
      BY <1>1, <3>1 DEF Flight, Cache!Values
    <3>3. Flies(e, w)
      BY <1>1, <3>2 DEF Flies
    <3>4. flight' = [flight EXCEPT ![e] = w]
      BY <1>2, <2>2, <3>1 DEF Cache!Join
    <3> QED
      BY <1>1, <3>2, <3>3, <3>4, NewFlight
  <2> QED
    BY <2>1, <2>2
<1>4. PICK q : q = [request[r] EXCEPT !.pc = "wait"]
  OBVIOUS
<1>5. q \in Reader /\ Recent(q) /\ Cache!Goes(r, q)
  BY <1>4, Elsewhere DEF Cache!Join
<1>6. request' \in [Readers -> Reader] /\ \A s \in Readers : Recent(request[s])'
  BY <1>1, <1>5, GoesTo
<1> QED
  BY <1>1, <1>3, <1>6, Stay, PartsStep

LEMMA FlightIs ==
  ASSUME CacheInv, NEW e \in Cache!Rows,
         flight[e].value \in {"begin", "query"} \cup Cache!Values
  PROVE  /\ flight[e] \in Flight /\ Flies(e, flight[e]) /\ shared
         /\ flight[e].at \in Int /\ now \in Int /\ now \in Time /\ LoadTimeout \in Nat
<1>1. Cache!None.value = "none" /\ Cache!Values = {"absent", "live", "gone"}
  BY DEF Cache!None, Cache!Values
<1>2. flight[e] # Cache!None
  BY <1>1
<1>3. flight[e] \in Flight /\ Flies(e, flight[e]) /\ now \in Time
  BY <1>2 DEF CacheInv, CacheType, FlightOK
<1> QED
  BY <1>3, WindowIs DEF Flies, Flight, Time, CacheInv, CacheType

LEMMA BeginStep == ASSUME CacheInv, NEW e \in Cache!Rows, Cache!Begin(e) PROVE CacheInv'
<1>0. UNCHANGED <<now, row, born, died, shared, entry>>
  BY DEF Cache!Begin
<1>1. CASE Cache!Fresh(e)
  <2>1. PICK v : v = entry[e].value
    OBVIOUS
  <2>2. v \in Cache!Values /\ v \in Readings /\ Cache!Was(e, v, now - Cache!Window, now)
    BY <1>1, <2>1, HitIs DEF Readings
  <2>3. Cache!Deliver(e, v)
    BY <1>1, <2>1 DEF Cache!Begin
  <2> QED
    BY <1>0, <2>2, <2>3, Delivers, Stay, PartsStep
<1>2. CASE ~Cache!Fresh(e)
  <2>1. PICK w : w = [value |-> "query", at |-> now]
    OBVIOUS
  <2>2. flight' = [flight EXCEPT ![e] = w] /\ request' = request
    BY <1>2, <2>1 DEF Cache!Begin
  <2>3. shared /\ now \in Time /\ now \in Int /\ LoadTimeout \in Nat
    BY FlightIs DEF Cache!Begin
  <2>4. w \in Flight /\ w.value = "query" /\ w.at = now /\ "query" \notin Cache!Values
    BY <2>1, <2>3 DEF Flight, Cache!Values
  <2>5. Flies(e, w)
    BY <2>3, <2>4 DEF Flies
  <2> QED
    BY <1>0, <2>2, <2>4, <2>5, NewFlight, Stay, PartsStep
<1> QED
  BY <1>1, <1>2

LEMMA QueryStep == ASSUME CacheInv, NEW e \in Cache!Rows, Cache!Query(e) PROVE CacheInv'
<1>0. UNCHANGED <<now, row, born, died, shared, entry, request>>
  BY DEF Cache!Query
<1>1. /\ flight[e] \in Flight /\ Flies(e, flight[e]) /\ shared
      /\ flight[e].at \in Int /\ now \in Int /\ row[e] \in Cache!Values
  BY FlightIs DEF Cache!Query, CacheInv, CacheType
<1>2. PICK w : w = [flight[e] EXCEPT !.value = row[e]]
  OBVIOUS
<1>3. w \in Flight /\ w.value = row[e] /\ w.at = flight[e].at
  BY <1>1, <1>2 DEF Flight
<1>4. flight' = [flight EXCEPT ![e] = w]
  BY <1>1, <1>2 DEF Cache!Query
<1>5. Cache!Was(e, row[e], flight[e].at, now)
  BY <1>1, WasNow DEF Flies
<1>6. Flies(e, w)
  BY <1>1, <1>3, <1>5 DEF Flies
<1> QED
  BY <1>0, <1>3, <1>4, <1>6, NewFlight, Stay, PartsStep

LEMMA StoreStep == ASSUME CacheInv, NEW e \in Cache!Rows, Cache!Store(e) PROVE CacheInv'
<1>0. UNCHANGED <<now, row, born, died, shared>>
  BY DEF Cache!Store
<1>1. PICK f : f = flight[e]
  OBVIOUS
<1>2. f.value \in Cache!Values /\ Cache!Deliver(e, f.value) /\ entry' = [entry EXCEPT ![e] = [value |-> f.value, at |-> f.at]]
  BY <1>1 DEF Cache!Store, Cache!Stamp
<1>3. f \in Flight /\ Flies(e, f) /\ shared /\ f.at \in Int /\ now \in Int /\ LoadTimeout \in Nat
  BY <1>1, <1>2, FlightIs
<1>4. PICK v \in Cache!Values : v = f.value
  BY <1>2
<1>5. PICK w : w = [value |-> v, at |-> f.at]
  OBVIOUS
<1>6. w \in Entry /\ w.value = v /\ w.at = f.at
  BY <1>3, <1>4, <1>5 DEF Flight, Entry
<1>7. Cache!Was(e, v, f.at, now) /\ f.at <= now /\ now - f.at <= LoadTimeout
  BY <1>3, <1>4 DEF Flies
<1>8. Holds(e, w)
  <2>1. Lag = 0 /\ f.at - Lag = f.at
    BY <1>3 DEF Lag
  <2> QED
    BY <1>6, <1>7, <2>1 DEF Holds
<1>9. Cache!Was(e, v, now - Cache!Window, now)
  <2>1. now - Cache!Window \in Int /\ now - Cache!Window <= f.at /\ CacheType
    BY <1>3, <1>7, WindowIs DEF CacheInv, CacheType
  <2> QED
    BY <1>3, <1>7, <2>1, WasWider
<1>10. entry' = [entry EXCEPT ![e] = w] /\ w \in {Cache!None} \cup Entry /\ v \in Readings /\ Cache!Deliver(e, v)
  BY <1>2, <1>4, <1>5, <1>6 DEF Readings
<1>11. entry' \in [Cache!Rows -> {Cache!None} \cup Entry] /\ \A x \in Cache!Rows : EntryOK(x)'
  BY <1>0, <1>8, <1>10, NewEntry
<1> QED
  BY <1>0, <1>9, <1>10, <1>11, Delivers, PartsStep

LEMMA LoadFailsStep ==
  ASSUME CacheInv, NEW e \in Cache!Rows, Cache!LoadFails(e)
  PROVE  CacheInv'
<1>1. UNCHANGED <<now, row, born, died, shared, entry>> /\ Cache!Deliver(e, "error")
  BY DEF Cache!LoadFails
<1>2. "error" \in Readings /\ "error" \notin Cache!Values
  BY DEF Readings, Cache!Values
<1> QED
  BY <1>1, <1>2, Delivers, Stay, PartsStep

LEMMA EvictStep == ASSUME CacheInv, NEW e \in Cache!Rows, Cache!Evict(e) PROVE CacheInv'
<1>1. UNCHANGED <<now, row, born, died, shared, flight, request>> /\ entry' = [entry EXCEPT ![e] = Cache!None]
  BY DEF Cache!Evict
<1> QED
  BY <1>1, NewEntry, Stay, PartsStep

(* A row is created or revoked: what was read of it before was so before. *)
LEMMA RowMoves ==
  ASSUME CacheInv, NEW x \in Cache!Rows, Cache!Create(x) \/ Cache!Revoke(x)
  PROVE  CacheInv'
<1>0. UNCHANGED <<now, shared, entry, flight, request>> /\ now \in Time /\ now \in Int /\ CacheType
      /\ Lag \in Nat /\ Cache!Window \in Nat /\ LoadTimeout \in Nat /\ LastTick \in Nat /\ now <= LastTick
  BY WindowIs DEF Cache!Create, Cache!Revoke, Cache!cache, CacheInv, CacheType, Time
<1>1. Lag' = Lag /\ Cache!Window' = Cache!Window
  BY <1>0 DEF Lag, Cache!Window
<1>2. ASSUME NEW e \in Cache!Rows PROVE RowOK(e)'
  <2>1. RowOK(e) /\ row[e] \in {"absent", "live", "gone"} /\ row \in [Cache!Rows -> Cache!Values]
        /\ born \in [Cache!Rows -> 0 .. LastTick + 1] /\ died \in [Cache!Rows -> 0 .. LastTick + 1]
    BY DEF CacheInv, CacheType, Cache!Values
  <2>2. CASE Cache!Create(x)
    BY <1>0, <2>1, <2>2 DEF Cache!Create, RowOK
  <2>3. CASE Cache!Revoke(x)
    BY <1>0, <2>1, <2>3 DEF Cache!Revoke, RowOK
  <2> QED
    BY <2>2, <2>3
<1>3. ASSUME NEW e \in Cache!Rows PROVE EntryOK(e)'
  <2>1. CASE entry[e] = Cache!None
    BY <1>0, <2>1 DEF EntryOK
  <2>2. CASE entry[e] # Cache!None
    <3>1. PICK w \in Entry : w = entry[e] /\ Holds(e, w)
      BY <1>0, <2>2 DEF CacheInv, CacheType, EntryOK
    <3>2. PICK v \in Cache!Values, t \in Int, a \in Int, b \in Int : v = w.value /\ t = w.at /\ a = t - Lag /\ b = now
      BY <1>0, <3>1 DEF Entry, Time
    <3>3. Cache!Was(e, v, a, b) /\ a <= now /\ b <= now /\ t <= now
      BY <1>0, <3>1, <3>2 DEF Holds
    <3>4. Cache!Was(e, v, a, b)'
      BY <3>3, WasStays
    <3>5. Holds(e, w)'
      BY <1>0, <1>1, <3>2, <3>3, <3>4 DEF Holds
    <3> QED
      BY <1>0, <3>1, <3>5 DEF EntryOK
  <2> QED
    BY <2>1, <2>2
<1>4. ASSUME NEW e \in Cache!Rows PROVE FlightOK(e)'
  <2>1. CASE flight[e] = Cache!None
    BY <1>0, <2>1 DEF FlightOK
  <2>2. CASE flight[e] # Cache!None
    <3>1. PICK w \in Flight : w = flight[e] /\ Flies(e, w)
      BY <1>0, <2>2 DEF CacheInv, CacheType, FlightOK
    <3>2. PICK a \in Int, b \in Int : a = w.at /\ b = now
      BY <1>0, <3>1 DEF Flight, Time
    <3>3. w.value \in Cache!Values => Cache!Was(e, w.value, a, b)'
      <4>1. SUFFICES ASSUME w.value \in Cache!Values PROVE Cache!Was(e, w.value, a, b)'
        OBVIOUS
      <4>2. PICK v \in Cache!Values : v = w.value
        BY <4>1
      <4>3. Cache!Was(e, v, a, b) /\ a <= now /\ b <= now
        BY <1>0, <3>1, <3>2, <4>2 DEF Flies
      <4>4. Cache!Was(e, v, a, b)'
        BY <4>3, WasStays
      <4> QED
        BY <4>2, <4>4
    <3>4. Flies(e, w)'
      BY <1>0, <3>1, <3>2, <3>3 DEF Flies
    <3> QED
      BY <1>0, <3>1, <3>4 DEF FlightOK
  <2> QED
    BY <2>1, <2>2
<1>5. ASSUME NEW r \in Readers PROVE Recent(request[r])'
  <2>1. PICK q \in Reader : q = request[r] /\ Recent(q)
    BY DEF CacheInv, CacheType
  <2>2. PICK n \in Cache!Rows, s \in Int, b \in Int, c \in Int :
          n = q.need /\ s = q.since /\ b = now /\ c = now - Cache!Window
    BY <1>0, <2>1 DEF Reader, Time
  <2>3. ASSUME NEW v \in Cache!Values, NEW a \in Int, a <= b, Cache!Was(n, v, a, b)
        PROVE  Cache!Was(n, v, a, b)'
    BY <1>0, <2>2, <2>3, WasStays
  <2>4. q.pc = "loaded" => q.value \in Cache!Values /\ s <= b /\ Cache!Was(n, q.value, s, b)
    BY <2>1, <2>2 DEF Recent
  <2>5. q.pc = "loaded" => Cache!Was(n, q.value, s, b)'
    BY <2>3, <2>4
  <2>6. q.pc = "answered" /\ q.value \in Cache!Values => Cache!Was(n, q.value, c, b)'
    <3>1. q.pc = "answered" /\ q.value \in Cache!Values => Cache!Was(n, q.value, c, b)
      BY <2>1, <2>2 DEF Recent
    <3>2. c <= b
      BY <1>0, <2>2
    <3> QED
      BY <2>3, <3>1, <3>2
  <2>7. ASSUME NEW e \in Cache!Rows, q.seen[e].value # "none"
        PROVE  q.seen[e].at <= now /\ Cache!Was(e, q.seen[e].value, q.seen[e].at - Cache!Window, q.seen[e].at)'
    <3>1. PICK v \in Cache!Values, t \in Int, a \in Int :
            v = q.seen[e].value /\ t = q.seen[e].at /\ a = t - Cache!Window
      BY <1>0, <2>1, <2>7 DEF Reader, Time
    <3>2. Cache!Was(e, v, a, t) /\ t <= now /\ a <= now
      BY <1>0, <2>1, <2>7, <3>1 DEF Recent
    <3>3. Cache!Was(e, v, a, t)'
      BY <3>2, WasStays
    <3> QED
      BY <1>1, <3>1, <3>2, <3>3
  <2>8. Recent(q)'
    BY <1>0, <1>1, <2>1, <2>2, <2>5, <2>4, <2>6, <2>7 DEF Recent
  <2> QED
    BY <1>0, <2>1, <2>8
<1>6. CacheType'
  <2>1. \A v \in {"live", "gone"} : v \in Cache!Values
    BY DEF Cache!Values
  <2>2. now \in 0 .. LastTick + 1
    BY <1>0 DEF Time
  <2>3. row' \in [Cache!Rows -> Cache!Values]
    BY <2>1 DEF Cache!Create, Cache!Revoke, CacheInv, CacheType
  <2>4. born' \in [Cache!Rows -> 0 .. LastTick + 1] /\ died' \in [Cache!Rows -> 0 .. LastTick + 1]
    BY <2>2 DEF Cache!Create, Cache!Revoke, CacheInv, CacheType
  <2> QED
    BY <1>0, <2>3, <2>4 DEF CacheType
<1> QED
  BY <1>0, <1>2, <1>3, <1>4, <1>5, <1>6 DEF CacheInv

(* Time passes only while reads are under way, and none outlasts its timeout. *)
LEMMA TickStep == ASSUME CacheInv, Cache!Tick PROVE CacheInv'
<1>0. UNCHANGED <<row, born, died, shared, entry, flight, request>> /\ now' = now + 1 /\ now < LastTick
      /\ now \in Nat /\ LastTick \in Nat /\ LoadTimeout \in Nat /\ Cache!Window \in Nat /\ Lag \in Nat /\ CacheType
  BY WindowIs DEF Cache!Tick, Cache!cache, CacheInv, CacheType, Time
<1>1. Lag' = Lag /\ Cache!Window' = Cache!Window
  BY <1>0 DEF Lag, Cache!Window
<1>2. ASSUME NEW e \in Cache!Rows, NEW v \in Cache!Values, NEW a \in Int, NEW b \in Int,
             NEW d \in Int,
             b <= d, Cache!Was(e, v, a, b)
      PROVE  Cache!Was(e, v, a, d)'
  <2>1. Cache!Was(e, v, a, d)
    BY <1>0, <1>2, WasWider
  <2> QED
    BY <1>0, <2>1 DEF Cache!Was
<1>3. PICK n \in Int, m \in Int : n = now /\ m = now + 1 /\ n <= m
  BY <1>0
<1>4. now' = m
  BY <1>0, <1>3
<1>5. ASSUME NEW e \in Cache!Rows PROVE RowOK(e)'
  <2>1. RowOK(e) /\ born[e] \in Int /\ died[e] \in Int
    BY WindowIs DEF CacheInv, CacheType
  <2> QED
    BY <1>0, <2>1 DEF RowOK
<1>6. ASSUME NEW e \in Cache!Rows PROVE EntryOK(e)'
  <2>1. CASE entry[e] = Cache!None
    BY <1>0, <2>1 DEF EntryOK
  <2>2. CASE entry[e] # Cache!None
    <3>1. PICK w \in Entry : w = entry[e] /\ Holds(e, w)
      BY <1>0, <2>2 DEF CacheInv, CacheType, EntryOK
    <3>2. PICK v \in Cache!Values, t \in Int, a \in Int : v = w.value /\ t = w.at /\ a = t - Lag
      <4>1. w.value \in Cache!Values /\ w.at \in Int
        BY <3>1 DEF Entry, Time
      <4> QED
        BY <1>0, <4>1
    <3>3. Cache!Was(e, v, a, n) /\ t <= n
      BY <1>3, <3>1, <3>2 DEF Holds
    <3>4. Cache!Was(e, v, a, m)'
      BY <1>2, <1>3, <3>3
    <3>5. Holds(e, w)'
      BY <1>1, <1>3, <1>4, <3>2, <3>3, <3>4 DEF Holds
    <3> QED
      BY <1>0, <3>1, <3>5 DEF EntryOK
  <2> QED
    BY <2>1, <2>2
<1>7. ASSUME NEW e \in Cache!Rows PROVE FlightOK(e)'
  <2>1. CASE flight[e] = Cache!None
    BY <1>0, <2>1 DEF FlightOK
  <2>2. CASE flight[e] # Cache!None
    <3>1. PICK w \in Flight : w = flight[e] /\ Flies(e, w)
      BY <1>0, <2>2 DEF CacheInv, CacheType, FlightOK
    <3>2. PICK a \in Int : a = w.at
      BY <3>1 DEF Flight, Time
    <3>3. n - a < LoadTimeout /\ a <= n /\ shared
      BY <1>3, <2>2, <3>1, <3>2 DEF Cache!Tick, Flies
    <3>4. w.value \in Cache!Values => Cache!Was(e, w.value, a, m)'
      <4>1. SUFFICES ASSUME w.value \in Cache!Values PROVE Cache!Was(e, w.value, a, m)'
        OBVIOUS
      <4>2. PICK v \in Cache!Values : v = w.value
        BY <4>1
      <4>3. Cache!Was(e, v, a, n)
        BY <1>3, <3>1, <3>2, <4>2 DEF Flies
      <4>4. Cache!Was(e, v, a, m)'
        BY <1>2, <1>3, <4>3
      <4> QED
        BY <4>2, <4>4
    <3>5. a <= m /\ m - a <= LoadTimeout
      BY <1>0, <1>3, <3>3
    <3>6. Flies(e, w)'
      BY <1>0, <1>4, <3>2, <3>3, <3>4, <3>5 DEF Flies
    <3> QED
      BY <1>0, <3>1, <3>6 DEF FlightOK
  <2> QED
    BY <2>1, <2>2
<1>8. ASSUME NEW r \in Readers PROVE Recent(request[r])'
  <2>1. PICK q \in Reader : q = request[r] /\ Recent(q)
    BY DEF CacheInv, CacheType
  <2>2. q.pc # "answered" /\ (q.pc \in {"load", "loaded"} => now - q.since < LoadTimeout)
    BY <2>1 DEF Cache!Tick
  <2>3. PICK h \in Cache!Rows, s \in Int : h = q.need /\ s = q.since
    BY <2>1 DEF Reader, Time
  <2>4. q.pc \in {"load", "loaded"} => ~shared /\ s <= m /\ m - s <= LoadTimeout
    <3>1. q.pc \in {"load", "loaded"} => ~shared /\ s <= n /\ n - s < LoadTimeout
      BY <1>3, <2>1, <2>2, <2>3 DEF Recent
    <3> QED
      BY <1>0, <1>3, <3>1
  <2>5. q.pc = "loaded" => q.value \in Cache!Values /\ Cache!Was(h, q.value, s, m)'
    <3>1. q.pc = "loaded" => q.value \in Cache!Values /\ Cache!Was(h, q.value, s, n)
      BY <1>3, <2>1, <2>3 DEF Recent
    <3> QED
      BY <1>2, <1>3, <3>1
  <2>6. ASSUME NEW e \in Cache!Rows, q.seen[e].value # "none"
        PROVE  q.seen[e].at <= m /\ Cache!Was(e, q.seen[e].value, q.seen[e].at - Cache!Window, q.seen[e].at)'
    <3>1. PICK t \in Int, a \in Int : t = q.seen[e].at /\ a = t - Cache!Window
      BY <1>0, <2>1 DEF Reader, Time
    <3>2. Cache!Was(e, q.seen[e].value, a, t) /\ t <= n
      BY <1>3, <2>1, <2>6, <3>1 DEF Recent
    <3>3. Cache!Was(e, q.seen[e].value, a, t)'
      BY <1>0, <3>2 DEF Cache!Was
    <3> QED
      BY <1>1, <1>3, <3>1, <3>2, <3>3
  <2>7. Recent(q)'
    BY <1>0, <1>1, <1>4, <2>2, <2>3, <2>4, <2>5, <2>6 DEF Recent
  <2> QED
    BY <1>0, <2>1, <2>7
<1>9. CacheType'
  <2>1. now' \in Time
    BY <1>0 DEF Time
  <2> QED
    BY <1>0, <2>1 DEF CacheType
<1> QED
  BY <1>5, <1>6, <1>7, <1>8, <1>9 DEF CacheInv

(* No step makes an answer older than the window. *)
LEMMA CacheStep == ASSUME CacheInv, [Cache!Next]_Cache!vars PROVE CacheInv'
<1>1. ASSUME NEW e \in Cache!Rows,
             Cache!Create(e) \/ Cache!Revoke(e) \/ Cache!Evict(e) \/ Cache!FlightStep(e)
      PROVE  CacheInv'
  BY <1>1, RowMoves, EvictStep, BeginStep, QueryStep, StoreStep,
     LoadFailsStep DEF Cache!FlightStep
<1>2. ASSUME NEW r \in Readers,
             Cache!Arrive(r) \/ Cache!RequestStep(r) \/ Cache!Leave(r)
      PROVE  CacheInv'
  BY <1>2, Readers1, PyReads, PyStores, JudgeStep, JoinStep DEF Cache!RequestStep
<1>3. CASE Cache!Tick
  BY <1>3, TickStep
<1>4. CASE UNCHANGED Cache!vars
  BY <1>4, Stay, PartsStep DEF Cache!vars, Cache!cache
<1> QED
  BY <1>1, <1>2, <1>3, <1>4 DEF Cache!Next

LEMMA CacheInit == ASSUME Cache!Init PROVE CacheInv
<1>0. LastTick \in Nat /\ 0 \in Time /\ 0 \in 0 .. LastTick + 1 /\ LastTick + 1 \in 0 .. LastTick + 1 /\ Cache!Never = LastTick + 1
  BY GatewayAssumption DEF Time, Cache!Never
<1>1. /\ now = 0 /\ shared \in BOOLEAN /\ row \in [Cache!Rows -> {"absent", "live"}]
      /\ born = [e \in Cache!Rows |-> IF row[e] = "live" THEN 0 ELSE LastTick + 1]
      /\ died = [e \in Cache!Rows |-> LastTick + 1]
      /\ entry = [e \in Cache!Rows |-> Cache!None] /\ flight = [e \in Cache!Rows |-> Cache!None]
  BY <1>0 DEF Cache!Init
<1>2. PICK none : none = [e \in Cache!Rows |-> [value |-> "none", at |-> 0]]
  OBVIOUS
<1>3. none \in [Cache!Rows -> [value : Cache!Values \cup {"none"}, at : Time]] /\ \A e \in Cache!Rows : none[e].value = "none"
  BY <1>0, <1>2
<1>4. PICK q : q = [pc |-> "idle", need |-> "key", value |-> "none", since |-> 0, seen |-> none]
  OBVIOUS
<1>5. q \in Reader /\ q.pc = "idle" /\ q.seen = none
  BY <1>0, <1>3, <1>4 DEF Reader, Readings, Cache!Rows
<1>6. Recent(q)
  BY <1>3, <1>5 DEF Recent
<1>7. request = [r \in Readers |-> q]
  BY <1>2, <1>4 DEF Cache!Init
<1>8. \A r \in Readers : Recent(request[r])
  BY <1>6, <1>7
<1>9. \A e \in Cache!Rows : RowOK(e)
  BY <1>0, <1>1 DEF RowOK
<1>10. \A e \in Cache!Rows : EntryOK(e) /\ FlightOK(e)
  BY <1>1 DEF EntryOK, FlightOK
<1>11. CacheType
  <2>1. row \in [Cache!Rows -> Cache!Values]
    BY <1>1 DEF Cache!Values
  <2>2. request \in [Readers -> Reader]
    BY <1>5, <1>7
  <2> QED
    BY <1>0, <1>1, <2>1, <2>2 DEF CacheType
<1> QED
  BY <1>8, <1>9, <1>10, <1>11 DEF CacheInv

(* What a request was decided on was so within the window before. *)
LEMMA WhatIsSeen == CacheInv => AnswersAreRecent
<1> SUFFICES ASSUME CacheInv, NEW r \in Readers, NEW e \in Cache!Rows, request[r].seen[e].value # "none"
             PROVE  Cache!Was(e, request[r].seen[e].value,
                              request[r].seen[e].at - Cache!Min({request[r].seen[e].at, Cache!Window}),
                              request[r].seen[e].at)
  BY DEF AnswersAreRecent, Cache!AnswersAreRecent
<1>1. PICK v \in Cache!Values, t \in Nat : v = request[r].seen[e].value /\ t = request[r].seen[e].at
  BY WindowIs DEF CacheInv, CacheType, Reader, Time
<1>2. PICK w \in Nat : w = Cache!Window
  BY WindowIs DEF CacheInv, CacheType
<1>3. Cache!Was(e, v, t - w, t)
  BY <1>1, <1>2 DEF CacheInv, Recent
<1>4. Cache!Min({t, w}) = IF t <= w THEN t ELSE w
  <2>1. Cache!Min({t, w}) = Min({t, w})
    BY DEF Cache!Min, Min
  <2> QED
    BY <1>1, <1>2, <2>1, MinTwo
<1>5. born[e] \in Nat /\ died[e] \in Nat /\ v \in {"absent", "live", "gone"}
  BY WindowIs DEF CacheInv, CacheType, Cache!Values
<1>6. Cache!Was(e, v, t - Cache!Min({t, w}), t)
  <2>1. CASE t <= w
    <3>1. t - Cache!Min({t, w}) = 0
      BY <1>1, <1>4, <2>1
    <3>2. Cache!Was(e, v, 0, t)
      BY <1>1, <1>3, <1>5 DEF Cache!Was
    <3> QED
      BY <3>1, <3>2
  <2>2. CASE ~(t <= w)
    BY <1>3, <1>4, <2>2
  <2> QED
    BY <2>1, <2>2
<1> QED
  BY <1>1, <1>2, <1>6

-----------------------------------------------------------------------------
(* The two invariants. *)
GatewayInv == LimitsInv /\ CacheInv

(* The two halves share nothing, so that each keeps its part. *)
LEMMA GatewayStarts == GatewayInit => GatewayInv
BY LimitsInit, CacheInit DEF GatewayInit, GatewayInv

LEMMA GatewayStep ==
  ASSUME GatewayInv, [GatewayNext]_<<vars, cacheVars, half>>
  PROVE  GatewayInv'
<1>1. [Next]_vars /\ [Cache!Next]_Cache!vars
  BY DEF GatewayNext, cacheVars, Cache!vars, Cache!cache
<1>2. LimitsInv' /\ CacheInv'
  BY <1>1, LimitsStep, CacheStep DEF GatewayInv
<1> QED
  BY <1>2 DEF GatewayInv

(* A request that ended has cost its caller what it used, or what was reserved
   when that is not known, once: for any buckets and requests, wherever the
   limiter fails, the client leaves or the process dies. *)
THEOREM UsageIsAlwaysPaid == GatewaySpec => []UsageIsPaid
<1>1. GatewayInv => UsageIsPaid
  BY PaidIsPaid DEF GatewayInv, LimitsInv
<1>2. GatewayInv /\ [GatewayNext]_<<vars, cacheVars, half>> => GatewayInv'
  BY GatewayStep
<1> QED
  BY <1>1, <1>2, GatewayStarts, PTL DEF GatewaySpec

(* A request is decided on a key and an endpoint that were so within the window
   before, for any TTL and timeout, in the gateway that shares reads and in the
   one that does not. *)
THEOREM AnswersAreAlwaysRecent == GatewaySpec => []AnswersAreRecent
<1>1. GatewayInv => AnswersAreRecent
  BY WhatIsSeen DEF GatewayInv
<1>2. GatewayInv /\ [GatewayNext]_<<vars, cacheVars, half>> => GatewayInv'
  BY GatewayStep
<1> QED
  BY <1>1, <1>2, GatewayStarts, PTL DEF GatewaySpec

(* An admission never takes more, from any time on, than a full bucket and what
   has refilled since; a refusal names a wait that is long enough. *)
THEOREM LimitsAreAlwaysKept == GatewaySpec => LimitsAreKept
<1> DEFINE Keeps == \A r \in Requests :
       /\ call[r].pc = "limiter" /\ call'[r].pc = "forward"
          => \A b \in Uses[r], from \in 0 .. clock :
               spent'[b][from] * Minute <= Full(b) + (clock - from) * Capacity[b]
       /\ call[r].pc = "limiter" /\ call'[r].pc = "refused"
          => \A b \in Uses[r] :
               level'[b] + call'[r].retry * Capacity[b] >= call[r].reserved * Minute
<1>1. ASSUME GatewayInv, GatewayInv',
             [GatewayNext]_<<vars, cacheVars, half>> PROVE Keeps
  <2>1. [Next]_vars /\ LimitsInv /\ LimitsInv'
    BY <1>1 DEF GatewayNext, GatewayInv
  <2> QED
    BY <2>1, StepIsKept DEF Kept
<1>2. GatewayInv /\ GatewayInv' /\ [GatewayNext]_<<vars, cacheVars, half>> => [Keeps]_vars
  BY <1>1
<1>3. GatewayInv /\ [GatewayNext]_<<vars, cacheVars, half>> => GatewayInv'
  BY GatewayStep
<1> HIDE DEF Keeps
<1>4. GatewaySpec => [][Keeps]_vars
  BY <1>2, <1>3, GatewayStarts, PTL DEF GatewaySpec
<1> QED
  BY <1>4 DEF Keeps, LimitsAreKept

=============================================================================
