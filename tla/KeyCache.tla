------------------------------ MODULE KeyCache ------------------------------
(* How a gateway finds the API key and the endpoint of a request:              *)
(* services/gateway-go/cache.go (entityCache), gateway.go (authenticate, key,   *)
(* route, authorize) and, for the Python gateway, _key, _route and _touch of    *)
(* controlplane/application/gateway.py.                                       *)
(*                                                                          *)
(* A row is read through a cache of CACHE_SECONDS. The Go gateway shares one    *)
(* read among all requests that wait for it and counts the age of an entry      *)
(* from the start of the read; the Python gateway reads in its event loop, one  *)
(* request at a time, and counts from the end. Meanwhile the row is created     *)
(* and revoked by the control plane.                                         *)
EXTENDS Naturals, FiniteSetsExt

CONSTANTS
  Requests,      \* requests to one gateway process
  Moving,        \* the rows the control plane changes
  TTL,           \* cacheTTL, CACHE_SECONDS
  LoadTimeout,   \* a read answers or fails within this time
  TouchPeriod,   \* TOUCH_SECONDS
  Expiry,        \* when the key expires
  MaxTime, MaxFaults

VARIABLES
  now,
  row,       \* the key and the endpoint in the database
  born, died,  \* when a row was created and revoked
  shared,    \* the gateway is the one written in Go: requests share reads
  entry,     \* per row: what is cached, and its time
  flight,    \* per row: the shared read under way
  touched,   \* when the use of the key was last recorded
  request,
  misses     \* faults so far

cache == <<entry, flight, touched>>
vars  == <<now, row, born, died, shared, cache, request, misses>>

Rows   == {"key", "route"}
Values == {"absent", "live", "gone"}
Never  == MaxTime + 1
None   == [value |-> "none"]

Final == {"admitted", "refused"}

Init ==
  /\ now = 0
  /\ row \in [Rows -> {"absent", "live"}] /\ \A e \in Rows \ Moving : row[e] = "live"
  /\ born = [e \in Rows |-> IF row[e] = "live" THEN 0 ELSE Never]
  /\ died = [e \in Rows |-> Never]
  /\ entry = [e \in Rows |-> None]
  /\ flight = [e \in Rows |-> None]
  /\ shared \in BOOLEAN
  /\ touched = Never
  /\ request = [r \in Requests |->
       [pc |-> "idle", need |-> "key", value |-> "none", since |-> 0,
        seen |-> [e \in Rows |-> [value |-> "none", at |-> 0]]]]
  /\ misses = 0

-----------------------------------------------------------------------------
(* The control plane: a key is created and revoked, an endpoint exposed and    *)
(* made internal again.                                                     *)

Create(e) ==
  /\ row[e] = "absent"
  /\ row' = [row EXCEPT ![e] = "live"]
  /\ born' = [born EXCEPT ![e] = now]
  /\ UNCHANGED <<shared, now, died, cache, request, misses>>

Revoke(e) ==
  /\ e \in Moving /\ row[e] = "live"
  /\ row' = [row EXCEPT ![e] = "gone"]
  /\ died' = [died EXCEPT ![e] = now]
  /\ UNCHANGED <<shared, now, born, cache, request, misses>>

-----------------------------------------------------------------------------
(* The two caches.                                                         *)

Fault == misses < MaxFaults /\ misses' = misses + 1

Goes(r, q) == request' = [request EXCEPT ![r] = q]

(* What r learns when its lookup is answered.                               *)
Answered(q, value) == [q EXCEPT !.pc = "answered", !.value = value]

Fresh(e) == entry[e] # None /\ now - entry[e].at < TTL

(* The Python gateway does nothing else while it reads.                      *)
Reading == \E r \in Requests : request[r].pc \in {"load", "loaded"}

Arrive(r) ==
  /\ request[r].pc = "idle"
  /\ Goes(r, [request[r] EXCEPT !.pc = "lookup"])
  /\ UNCHANGED <<shared, now, row, born, died, cache, misses>>

Hit(r) ==
  /\ request[r].pc = "lookup" /\ ~Reading
  /\ Fresh(request[r].need)
  /\ Goes(r, Answered(request[r], entry[request[r].need].value))
  /\ UNCHANGED <<shared, now, row, born, died, cache, misses>>

(* DoChan: wait for the read under way, or start one.                        *)
Join(r) ==
  LET e == request[r].need
  IN /\ shared /\ request[r].pc = "lookup" /\ ~Fresh(e)
     /\ flight' = IF flight[e] # None THEN flight
                  ELSE [flight EXCEPT ![e] = [value |-> "begin", at |-> now]]
     /\ Goes(r, [request[r] EXCEPT !.pc = "wait"])
     /\ UNCHANGED <<shared, now, row, born, died, entry, touched, misses>>

(* The read of e ends for all who wait for it.                               *)
Deliver(e, value) ==
  /\ flight' = [flight EXCEPT ![e] = None]
  /\ request' = [r \in Requests |->
       IF request[r].pc = "wait" /\ request[r].need = e
       THEN Answered(request[r], value) ELSE request[r]]

(* The second look, and the time from which the entry will count.             *)
Begin(e) ==
  /\ flight[e].value = "begin"
  /\ IF Fresh(e)
     THEN Deliver(e, entry[e].value)
     ELSE /\ flight' = [flight EXCEPT ![e] = [value |-> "query", at |-> now]]
          /\ UNCHANGED request
  /\ UNCHANGED <<shared, now, row, born, died, entry, touched, misses>>

Query(e) ==
  /\ flight[e].value = "query"
  /\ flight' = [flight EXCEPT ![e].value = row[e]]
  /\ UNCHANGED <<shared, now, row, born, died, entry, touched, request, misses>>

(* Mutant: the age of an entry counts from the end of the read. *)
Stamp_AtEnd(f) == now
Stamp(f) == f.at

Store(e) ==
  LET f == flight[e] IN
  /\ f.value \in Values
  /\ entry' = [entry EXCEPT ![e] = [value |-> f.value, at |-> Stamp(f)]]
  /\ Deliver(e, f.value)
  /\ UNCHANGED <<shared, now, row, born, died, touched, misses>>

(* An error is not cached.                                                  *)
LoadFails(e) ==
  /\ flight[e].value \in {"query"} \cup Values
  /\ \/ Fault
     \/ now - flight[e].at = LoadTimeout /\ UNCHANGED misses
  /\ Deliver(e, "error")
  /\ UNCHANGED <<shared, now, row, born, died, entry, touched>>

(* The map is full and starts again, with an entry of another request.        *)
Evict(e) ==
  /\ shared /\ entry[e] # None
  /\ Fault
  /\ entry' = [entry EXCEPT ![e] = None]
  /\ UNCHANGED <<shared, now, row, born, died, flight, touched, request>>

(* The client leaves; the read it started goes on for the others.             *)
Leave(r) ==
  /\ request[r].pc = "wait"
  /\ Fault
  /\ Goes(r, [request[r] EXCEPT !.pc = "refused"])
  /\ UNCHANGED <<shared, now, row, born, died, cache>>

PyLoad(r) ==
  /\ ~shared /\ request[r].pc = "lookup"
  /\ ~Reading /\ ~Fresh(request[r].need)
  /\ Goes(r, [request[r] EXCEPT !.pc = "load", !.since = now])
  /\ UNCHANGED <<shared, now, row, born, died, cache, misses>>

PyQuery(r) ==
  /\ request[r].pc = "load"
  /\ Goes(r, [request[r] EXCEPT !.pc = "loaded", !.value = row[request[r].need]])
  /\ UNCHANGED <<shared, now, row, born, died, cache, misses>>

PyStore(r) ==
  LET q == request[r] IN
  /\ q.pc = "loaded"
  /\ entry' = [entry EXCEPT ![q.need] = [value |-> q.value, at |-> now]]
  /\ Goes(r, Answered(q, q.value))
  /\ UNCHANGED <<shared, now, row, born, died, flight, touched, misses>>

PyFails(r) ==
  /\ request[r].pc \in {"load", "loaded"}
  /\ Fault
  /\ Goes(r, Answered(request[r], "error"))
  /\ UNCHANGED <<shared, now, row, born, died, cache>>

-----------------------------------------------------------------------------
(* What is done with the answer.                                            *)

Usable(q) == q.value = "live" /\ (q.need = "key" => now < Expiry)

Judge(r) ==
  LET q == request[r]
      seen == IF q.value \in Values
              THEN [q.seen EXCEPT ![q.need] = [value |-> q.value, at |-> now]] ELSE q.seen
  IN /\ q.pc = "answered"
     /\ Goes(r, [q EXCEPT !.seen = seen,
                          !.pc = IF ~Usable(q) THEN "refused"
                                 ELSE IF q.need = "key" THEN "lookup" ELSE "authorize",
                          !.need = "route"])
     /\ UNCHANGED <<shared, now, row, born, died, cache, misses>>

(* The use of the key is recorded now and then; the time is noted before the   *)
(* write, so one that fails is not tried again at once.                      *)
Due == touched = Never \/ now - touched >= TouchPeriod

Authorize(r) ==
  /\ request[r].pc = "authorize"
  /\ touched' = IF Due THEN now ELSE touched
  /\ \/ Goes(r, [request[r] EXCEPT !.pc = "admitted"]) /\ UNCHANGED misses
     \/ Due /\ Fault /\ Goes(r, [request[r] EXCEPT !.pc = "refused"])
  /\ UNCHANGED <<shared, now, row, born, died, entry, flight>>

-----------------------------------------------------------------------------
(* Only reads take time, and no longer than their timeout.                    *)
Tick ==
  /\ now < MaxTime
  /\ \A r \in Requests :
       /\ request[r].pc \notin {"answered", "authorize"}
       /\ request[r].pc = "lookup" => Reading
       /\ request[r].pc \in {"load", "loaded"} => now - request[r].since < LoadTimeout
  /\ \A e \in Rows :
       /\ flight[e].value # "begin"
       /\ flight[e] # None => now - flight[e].at < LoadTimeout
  /\ now' = now + 1
  /\ UNCHANGED <<shared, row, born, died, cache, request, misses>>

RequestStep(r) ==
  \/ Hit(r) \/ Join(r) \/ PyLoad(r) \/ PyQuery(r) \/ PyStore(r) \/ PyFails(r)
  \/ Judge(r) \/ Authorize(r)

FlightStep(e) == Begin(e) \/ Query(e) \/ Store(e) \/ LoadFails(e)

Next ==
  \/ \E e \in Rows : Create(e) \/ Revoke(e) \/ Evict(e) \/ FlightStep(e)
  \/ \E r \in Requests : Arrive(r) \/ RequestStep(r) \/ Leave(r)
  \/ Tick

Fairness ==
  /\ \A r \in Requests : WF_vars(RequestStep(r))
  /\ \A e \in Rows : WF_vars(FlightStep(e))

Spec == Init /\ [][Next]_vars /\ Fairness

-----------------------------------------------------------------------------
(* Properties.                                                              *)

(* The age an answer may have: "takes effect at the gateway within its         *)
(* 5-second cache", or as long as the read that answers takes.               *)
Window == IF shared THEN Max({TTL - 1, LoadTimeout}) ELSE TTL - 1 + LoadTimeout

(* A row had the value at some time between from and to.                      *)
Was(e, value, from, to) ==
  CASE value = "absent" -> born[e] >= from
    [] value = "live"   -> born[e] <= to /\ died[e] >= from
    [] OTHER            -> died[e] <= to

(* A request is decided on what the key and the endpoint were at some time in  *)
(* the window before, whichever read it shared, whoever cached it first, and    *)
(* however slow a read was: a revoked key is not honoured longer, and a new    *)
(* one not refused longer.                                                  *)
AnswersAreRecent ==
  \A r \in Requests, e \in Rows :
    LET s == request[r].seen[e] IN
      s.value # "none" => Was(e, s.value, s.at - Min({s.at, Window}), s.at)

(* Every request is answered: a read that fails or a client that leaves holds  *)
(* up nobody.                                                               *)
EveryRequestAnswered == \A r \in Requests : request[r].pc = "lookup" ~> request[r].pc \in Final

============================================================================
