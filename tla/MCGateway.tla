------------------------------ MODULE MCGateway ------------------------------
(* An instance of the two halves of a gateway for TLC: Admission and KeyCache   *)
(* share no state, so a behaviour is one of either, and the run explores the     *)
(* two side by side instead of their product.                                *)
EXTENDS Admission

CONSTANTS Readers, TTL, LoadTimeout, TouchPeriod, Expiry, LastTick

ASSUME GatewayAssumption ==
  /\ TTL \in Nat \ {0} /\ LoadTimeout \in Nat /\ TouchPeriod \in Nat /\ Expiry \in Nat
  /\ LastTick \in Nat

VARIABLES now, row, born, died, shared, entry, flight, touched, request, misses

Cache == INSTANCE KeyCache
           WITH Requests <- Readers, Moving <- {"key"}, MaxTime <- LastTick

VARIABLE half     \* the half this behaviour is about

cacheVars == <<now, row, born, died, shared, entry, flight, touched, request, misses>>

OneCaller == [r \in Requests |-> Buckets]
Narrower  == [b \in Buckets |-> IF b = "endpoint" THEN 2 ELSE 1]

GatewayInit == Init /\ Cache!Init /\ half \in {"limits", "cache"}

GatewayNext ==
  \/ half = "limits" /\ Next       /\ UNCHANGED <<cacheVars, half>>
  \/ half = "cache"  /\ Cache!Next /\ UNCHANGED <<vars, half>>

(* Nothing is due in the half that stays as it is: no request has arrived there. *)
GatewaySpec ==
  /\ GatewayInit /\ [][GatewayNext]_<<vars, cacheVars, half>>
  /\ Fairness /\ Cache!Fairness

(* See KeyCache. *)
AnswersAreRecent == Cache!AnswersAreRecent

(* Every request that reaches a gateway is answered in the end, whatever fails   *)
(* or leaves: see EveryCallEnds and EveryRequestAnswered.                    *)
GatewayAnswers == EveryCallEnds /\ Cache!EveryRequestAnswered

=============================================================================
