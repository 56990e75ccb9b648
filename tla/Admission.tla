------------------------------ MODULE Admission ------------------------------
(* What a gateway does with a request it has authorized: reserve, limit,        *)
(* forward, stream and settle. services/gateway-go/gateway.go (ServeHTTP),      *)
(* store.go (operate), limiter.sql, and invoke, _counted and _limit of          *)
(* controlplane/application/gateway.py with adapters/gateway/sql_limits.py.     *)
(*                                                                          *)
(* A request names two buckets, its endpoint's and its caller's. The rows are   *)
(* in the database and shared by all gateway processes: one statement locks     *)
(* them, reads the clock, refills, decides and writes. A chat request reserves  *)
(* tokens before the model is called and settles what was used afterwards.      *)
EXTENDS Integers, FiniteSetsExt

CONSTANTS
  Requests,
  Buckets,
  Uses,       \* the buckets of each request
  Capacity,   \* units a minute, per bucket
  Minute,     \* ticks in a minute
  Sizes,      \* reservations a request may need
  MaxUnits,   \* units a model may report
  Slots,      \* limiter statements a process has under way at most
  MaxTime, MaxFaults

VARIABLES
  clock,
  level,      \* per bucket: tokens, in parts of 1 / Minute
  stamped,    \* per bucket: updated_at
  call,       \* the requests
  faults,
  spent       \* history: net units taken from each bucket since each time

limits == <<level, stamped, spent>>
vars   == <<clock, limits, call, faults>>

ASSUME AdmissionAssumption ==
  /\ Minute \in Nat \ {0} /\ Slots \in Nat \ {0}
  /\ IsFiniteSet(Buckets) /\ Capacity \in [Buckets -> Nat \ {0}]
  /\ Uses \in [Requests -> (SUBSET Buckets) \ {{}}]
  /\ Sizes \subseteq Nat \ {0} /\ 1 \in Sizes
  /\ MaxUnits \in Nat /\ MaxTime \in Nat /\ MaxFaults \in Nat

Full(b) == Capacity[b] * Minute

(* Reservations never exceed the smallest bucket of the request.              *)
Reservable(r, n) == \A b \in Uses[r] : n <= Capacity[b]

Ended == {"done", "refused", "left", "failed", "dead"}

New ==
  [pc |-> "new", llm |-> FALSE, reserved |-> 1, asked |-> 0, measured |-> 0,
   whole |-> FALSE,   \* the stream was complete, and reported its usage (chat) or no
                      \* error of the server (others)
   paid |-> 0,        \* history: what the buckets were charged, net
   units |-> 0,       \* what the metrics record
   lost |-> FALSE,    \* an answer of the limiter was lost, or nobody waited for it
   retry |-> 0]

Init ==
  /\ clock = 0
  /\ level = [b \in Buckets |-> Full(b)] /\ stamped = [b \in Buckets |-> 0]
  /\ spent = [b \in Buckets |-> [t \in 0 .. MaxTime |-> 0]]
  /\ call = [r \in Requests |-> New]
  /\ faults = 0

-----------------------------------------------------------------------------
(* The statement.                                                          *)

Goes(r, c) == call' = [call EXCEPT ![r] = c]
Fault      == faults < MaxFaults /\ faults' = faults + 1

(* Mutant: the clock is read before the locks are had. *)
Clock_BeforeLocks(r) == call[r].asked
(* The rows are locked first, so that time spent waiting counts as refill once. *)
Clock(r) == clock

Refilled(b, t) == Min({Full(b), level[b] + Max({0, t - stamped[b]}) * Capacity[b]})

(* All buckets of r change by n tokens, or are only refilled when n is 0.      *)
Changed(r, n) ==
  /\ level' = [b \in Buckets |-> IF b \in Uses[r] THEN Min({Full(b), Refilled(b, Clock(r)) + n * Minute})
                                 ELSE level[b]]
  /\ stamped' = [b \in Buckets |-> IF b \in Uses[r] THEN Clock(r) ELSE stamped[b]]
  /\ spent' = [b \in Buckets |-> [t \in 0 .. MaxTime |->
                 IF b \in Uses[r] /\ t <= clock THEN spent[b][t] - n ELSE spent[b][t]]]

(* Mutant: one bucket that has enough is enough. *)
Enough_AnyBucket(r) == \E b \in Uses[r] : Refilled(b, Clock(r)) >= call[r].reserved * Minute
Enough(r) == \A b \in Uses[r] : Refilled(b, Clock(r)) >= call[r].reserved * Minute

(* Rounded up.                                                             *)
Over(n, d) == (n + d - 1) \div d

Wait(r, b)  == Over(call[r].reserved * Minute - Refilled(b, Clock(r)), Capacity[b])
(* Mutant: the wait for any one of the buckets. *)
Retry_Soonest(r) ==
  Max({1, Min({Wait(r, b) : b \in {c \in Uses[r] : Wait(r, c) > 0}})})
Retry(r) == Max({1} \cup {Wait(r, b) : b \in Uses[r]})

-----------------------------------------------------------------------------
(* The way of a request.                                                    *)

Arrive(r) ==
  /\ call[r].pc = "new"
  /\ \E llm \in BOOLEAN, n \in Sizes :
       /\ IF llm THEN Reservable(r, n) ELSE n = 1
       /\ Goes(r, [call[r] EXCEPT !.pc = "queued", !.llm = llm, !.reserved = n])
  /\ UNCHANGED <<clock, limits, faults>>

(* Mutant: a statement that fails keeps its slot. *)
InLimiter_KeptOnError == {r \in Requests : call[r].pc \in {"limiter", "orphan", "failed"}}
InLimiter == {r \in Requests : call[r].pc \in {"limiter", "orphan"}}

Enter(r) ==
  /\ call[r].pc = "queued" /\ Cardinality(InLimiter) < Slots
  /\ Goes(r, [call[r] EXCEPT !.pc = "limiter", !.asked = clock])
  /\ UNCHANGED <<clock, limits, faults>>

(* The client leaves the queue. *)
Leave(r) ==
  /\ call[r].pc = "queued"
  /\ Goes(r, [call[r] EXCEPT !.pc = "left"])
  /\ UNCHANGED <<clock, limits, faults>>

Take(r) ==
  /\ call[r].pc = "limiter"
  /\ IF Enough(r)
     THEN /\ Changed(r, - call[r].reserved)
          /\ Goes(r, [call[r] EXCEPT !.pc = "forward", !.paid = @ + call[r].reserved])
     ELSE /\ Changed(r, 0)
          /\ Goes(r, [call[r] EXCEPT !.pc = "refused", !.retry = Retry(r)])
  /\ UNCHANGED <<clock, faults>>

(* It fails, before the commit or after it; then nobody knows of the units.    *)
TakeFails(r) ==
  /\ call[r].pc = "limiter" /\ Fault
  /\ \/ UNCHANGED limits /\ Goes(r, [call[r] EXCEPT !.pc = "failed"])
     \/ Enough(r) /\ Changed(r, - call[r].reserved)
        /\ Goes(r, [call[r] EXCEPT !.pc = "failed", !.paid = @ + call[r].reserved, !.lost = TRUE])
  /\ UNCHANGED clock

(* Python: a caller that is cancelled leaves the statement to its thread.      *)
PyCancel(r) ==
  /\ call[r].pc = "limiter" /\ Fault
  /\ Goes(r, [call[r] EXCEPT !.pc = "orphan"])
  /\ UNCHANGED <<clock, limits>>

PyOrphanTakes(r) ==
  /\ call[r].pc = "orphan"
  /\ LET n == IF Enough(r) THEN call[r].reserved ELSE 0 IN
       /\ Changed(r, - n)
       /\ Goes(r, [call[r] EXCEPT !.pc = "left", !.paid = @ + n, !.lost = TRUE])
  /\ UNCHANGED <<clock, faults>>

(* The model answers, or does not. *)
Headers(r) ==
  /\ call[r].pc = "forward"
  /\ Goes(r, [call[r] EXCEPT !.pc = "stream"])
  /\ UNCHANGED <<clock, limits, faults>>

ForwardFails(r) ==
  /\ call[r].pc = "forward"
  /\ Goes(r, [call[r] EXCEPT !.pc = "settle"])
  /\ UNCHANGED <<clock, limits, faults>>

(* Some of the usage may have been seen when the stream breaks.               *)
StreamEnds(r) ==
  /\ call[r].pc = "stream"
  /\ \E whole \in BOOLEAN, n \in 0 .. MaxUnits :
       Goes(r, [call[r] EXCEPT !.pc = "settle", !.whole = whole,
                               !.measured = IF call[r].llm THEN n ELSE 0])
  /\ UNCHANGED <<clock, limits, faults>>

(* Mutant: what was seen of a broken stream is all it costs. *)
Owed_Seen(c) == IF c.llm THEN c.measured ELSE c.reserved
(* A broken or unreported stream costs at least what was reserved for it.      *)
Owed(c) ==
  IF ~c.llm THEN c.reserved
  ELSE IF c.whole THEN c.measured ELSE Max({c.reserved, c.measured})

Settled(c) ==
  [c EXCEPT !.pc = "done", !.paid = @ + Owed(c) - c.reserved,
            !.units = IF c.llm THEN Owed(c) ELSE IF c.whole THEN 1 ELSE 0]

(* Refund or charge the difference, if there is one.                          *)
Settle(r) ==
  LET c == call[r] IN
  /\ c.pc = "settle"
  /\ IF Owed(c) = c.reserved THEN UNCHANGED limits ELSE Changed(r, c.reserved - Owed(c))
  /\ Goes(r, Settled(c))
  /\ UNCHANGED <<clock, faults>>

(* A refund is never granted locally. *)
SettleFails(r) ==
  LET c == call[r]
      units == Max({c.reserved, Owed(c)})
  IN /\ c.pc = "settle" /\ Owed(c) # c.reserved /\ Fault
     /\ \/ UNCHANGED limits /\ Goes(r, [c EXCEPT !.pc = "done", !.lost = TRUE, !.units = units])
        \/ Changed(r, c.reserved - Owed(c))
           /\ Goes(r, [Settled(c) EXCEPT !.lost = TRUE, !.units = units])
     /\ UNCHANGED clock

(* The process dies with it. *)
Dies(r) ==
  /\ call[r].pc \notin Ended \cup {"new"} /\ Fault
  /\ Goes(r, [call[r] EXCEPT !.pc = "dead"])
  /\ UNCHANGED <<clock, limits>>

Tick ==
  /\ clock < MaxTime
  /\ clock' = clock + 1
  /\ UNCHANGED <<limits, call, faults>>

CallStep(r) ==
  \/ Enter(r) \/ Leave(r) \/ Take(r) \/ TakeFails(r) \/ PyCancel(r) \/ PyOrphanTakes(r)
  \/ Headers(r) \/ ForwardFails(r) \/ StreamEnds(r) \/ Settle(r) \/ SettleFails(r)

Next ==
  \/ \E r \in Requests : Arrive(r) \/ CallStep(r) \/ Dies(r)
  \/ Tick

(* Models answer or time out, statements end, and a free slot is given to some  *)
(* request that waits.                                                      *)
Fairness ==
  \A r \in Requests :
    /\ SF_vars(Enter(r))
    /\ WF_vars(Take(r) \/ TakeFails(r)) /\ WF_vars(PyOrphanTakes(r))
    /\ WF_vars(Headers(r) \/ ForwardFails(r)) /\ WF_vars(StreamEnds(r))
    /\ WF_vars(Settle(r) \/ SettleFails(r))

Spec == Init /\ [][Next]_vars /\ Fairness

-----------------------------------------------------------------------------
(* Properties.                                                              *)

(* Whenever a request is admitted, what its buckets gave since any earlier      *)
(* time is within their capacity and the refill of that time, however requests *)
(* of several processes waited for the rows, were refunded or charged; and one  *)
(* that is refused is told a time after which every bucket has enough for it,   *)
(* if nobody else comes.                                                    *)
LimitsAreKept ==
  [][\A r \in Requests :
       /\ call[r].pc = "limiter" /\ call'[r].pc = "forward"
          => \A b \in Uses[r], from \in 0 .. clock :
               spent'[b][from] * Minute <= Full(b) + (clock - from) * Capacity[b]
       /\ call[r].pc = "limiter" /\ call'[r].pc = "refused"
          => \A b \in Uses[r] :
               level'[b] + call'[r].retry * Capacity[b] >= call[r].reserved * Minute]_vars

(* A request that ended has cost its caller what it used, or what was reserved  *)
(* when that is not known, once; only a lost answer of the limiter makes it     *)
(* cost something else, and never less than the reservation when the model     *)
(* was called and its usage is not known.                                    *)
UsageIsPaid ==
  \A r \in Requests :
    LET c == call[r]
        used == IF c.llm /\ c.whole THEN c.measured
                ELSE IF c.llm THEN Max({c.reserved, c.measured}) ELSE 1
    IN /\ c.pc = "done" /\ ~c.lost => c.paid = used /\ (c.llm => c.units = used)
       /\ c.pc = "done" /\ c.lost => c.paid \in {used, c.reserved} /\ c.units >= c.paid
       /\ c.pc \in {"refused", "failed", "left"} /\ ~c.lost => c.paid = 0

(* Every request ends: none waits for a slot that is never given back.        *)
EveryCallEnds == \A r \in Requests : call[r].pc = "queued" ~> call[r].pc \in Ended

=============================================================================
