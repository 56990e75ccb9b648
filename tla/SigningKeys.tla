----------------------------- MODULE SigningKeys -----------------------------
(* How the Go gateway comes by the keys that tokens are verified with                *)
(* (services/gateway-go/identity.go): a snapshot of the provider's key set is used   *)
(* for Lifetime; a key id it lacks triggers a fetch, at most one per Throttle; all   *)
(* requests share the flight in progress, whoever started it and for whatever key.   *)
(* The provider rotates its keys, fetches take time and fail.                        *)
EXTENDS Naturals

CONSTANTS
  Kids,          \* key ids that tokens may bear
  Initial,       \* those the provider publishes at first
  Callers,       \* requests that verify a token
  Lifetime, Throttle, FetchLimit,
  MaxTime, MaxRotations, MaxAsks      \* bounds

Never == MaxTime + 1

VARIABLES
  time,
  since,         \* per key, since when the provider publishes it, or Never
  gone,          \* history: per key, when it was last withdrawn
  cache,         \* the snapshot: its keys and when it was stored
  allowed,       \* from when on an unknown key may trigger a fetch
  flight,        \* the shared call: pc, the key of the caller that started it, what it read and when it began
  caller,        \* per request: pc, the key of its token, attempt; changed: the snapshot did since it
                 \* looked; erred: the flight failed; due: history, nothing excuses a refusal
  excused,       \* history: until when the failure of a fetch excuses refusals
  rotations, asks

vars == <<time, since, gone, cache, allowed, flight, caller, excused, rotations, asks>>

None == [pc |-> "none", kid |-> {}, read |-> {}, began |-> 0]
Idle == [pc |-> "idle", kid |-> {}, attempt |-> 1, changed |-> FALSE, erred |-> FALSE, due |-> FALSE]

Published == {k \in Kids : since[k] # Never}

Init ==
  /\ time = 0 /\ rotations = 0 /\ asks = 0 /\ excused = 0
  /\ since = [k \in Kids |-> IF k \in Initial THEN 0 ELSE Never]
  /\ gone = [k \in Kids |-> 0]
  /\ cache = [keys |-> {}, at |-> 0]
  /\ allowed = 0
  /\ flight = None
  /\ caller = [c \in Callers |-> Idle]

Fresh_Ever  == cache.keys # {}
Fresh       == cache.keys # {} /\ time < cache.at + Lifetime
Found(kid)  == Fresh /\ kid \subseteq cache.keys

(* The singleton kid holds the key id of the token. A refusal is not excused if the  *)
(* key has been published for longer than a fetch may take and one Throttle.         *)
Ask(c) ==
  /\ caller[c].pc = "idle" /\ asks < MaxAsks /\ asks' = asks + 1
  /\ \E k \in Kids : caller' =
       [caller EXCEPT ![c] = [Idle EXCEPT !.pc = "look", !.kid = {k},
                                          !.due = since[k] + FetchLimit + Throttle <= time /\ excused <= time]]
  /\ UNCHANGED <<time, since, gone, cache, allowed, flight, excused, rotations>>

Accepted(c) == [caller EXCEPT ![c] = [Idle EXCEPT !.pc = "accepted", !.kid = caller[c].kid]]
Refused(c)  == [caller EXCEPT ![c] = [Idle EXCEPT !.pc = "refused", !.due = caller[c].due]]

(* The snapshot has the key, or the caller means to join the flight.                 *)
Look(c) ==
  /\ caller[c].pc = "look"
  /\ caller' = IF Found(caller[c].kid) THEN Accepted(c)
               ELSE [caller EXCEPT ![c].pc = "join", ![c].changed = FALSE]
  /\ UNCHANGED <<time, since, gone, cache, allowed, flight, excused, rotations, asks>>

(* It may have landed meanwhile; then the caller starts one.                         *)
Join(c) ==
  /\ caller[c].pc = "join"
  /\ caller' = [caller EXCEPT ![c].pc = "wait"]
  /\ flight' = IF flight = None THEN [None EXCEPT !.pc = "decide", !.kid = caller[c].kid] ELSE flight
  /\ UNCHANGED <<time, since, gone, cache, allowed, excused, rotations, asks>>

(* The flight lands: all who wait for it go on.                                      *)
Lands(erred) ==
  /\ flight' = None
  /\ caller' = [c \in Callers |-> IF caller[c].pc = "wait"
                                  THEN [caller[c] EXCEPT !.pc = "after", !.erred = erred, !.changed = @ \/ cache' # cache]
                                  ELSE [caller[c] EXCEPT !.changed = caller[c].pc = "join" /\ (@ \/ cache' # cache)]]

(* Nothing was fetched. Who meets this twice, because two others had looked before   *)
(* the last fetch landed and join only now, is excused: the code tries again once.   *)
LandsEmpty ==
  /\ flight' = None /\ UNCHANGED cache
  /\ caller' = [c \in Callers |-> IF caller[c].pc = "wait"
                                  THEN [caller[c] EXCEPT !.pc = "after", !.erred = FALSE, !.due = @ /\ caller[c].attempt = 1]
                                  ELSE [caller[c] EXCEPT !.changed = @ /\ caller[c].pc = "join"]]

LandsThrottled == UNCHANGED cache /\ Lands(TRUE)

(* The fetch failed: who waits for it, or is throttled because of it, is excused.    *)
LandsFailed ==
  /\ flight' = None /\ UNCHANGED cache /\ excused' = time + Throttle + 1
  /\ caller' = [c \in Callers |-> IF caller[c].pc = "wait"
                                  THEN [caller[c] EXCEPT !.pc = "after", !.erred = TRUE, !.due = FALSE]
                                  ELSE [caller[c] EXCEPT !.due = FALSE]]

Fetches == flight' = [flight EXCEPT !.pc = "fetch", !.kid = {}, !.began = time] /\ UNCHANGED <<caller, cache>>

(* Nothing to fetch if the starter's key has come meanwhile.                         *)
NoNeed_IfFresh == Fresh
NoNeed        == Found(flight.kid)

Decide ==
  /\ flight.pc = "decide"
  /\ \/ NoNeed /\ LandsEmpty /\ UNCHANGED allowed
     \/ ~NoNeed /\ Fresh /\ time < allowed /\ LandsThrottled /\ UNCHANGED allowed
     \/ ~NoNeed /\ Fresh /\ time >= allowed /\ Fetches /\ allowed' = time + Throttle
     \/ ~NoNeed /\ ~Fresh /\ Fetches /\ UNCHANGED allowed
  /\ UNCHANGED <<time, since, gone, excused, rotations, asks>>

(* The provider answers with the keys it publishes.                                  *)
Read ==
  /\ flight.pc = "fetch"
  /\ flight' = [flight EXCEPT !.pc = "store", !.read = Published]
  /\ UNCHANGED <<time, since, gone, cache, allowed, caller, excused, rotations, asks>>

(* The answer arrives; an answer without keys is a failure.                          *)
Store ==
  /\ flight.pc = "store"
  /\ IF flight.read = {} THEN LandsFailed
     ELSE cache' = [keys |-> flight.read, at |-> time] /\ Lands(FALSE) /\ UNCHANGED excused
  /\ UNCHANGED <<time, since, gone, allowed, rotations, asks>>

FetchFails ==
  /\ flight.pc = "fetch"
  /\ LandsFailed
  /\ UNCHANGED <<time, since, gone, allowed, rotations, asks>>

(* A flight that changed nothing may have been another caller's cache hit.           *)
NothingNew_Never(c) == FALSE
NothingNew(c)       == ~caller[c].changed

After(c) ==
  /\ caller[c].pc = "after"
  /\ caller' =
       IF Found(caller[c].kid) THEN Accepted(c)
       ELSE IF ~caller[c].erred /\ NothingNew(c) /\ caller[c].attempt = 1
       THEN [caller EXCEPT ![c].pc = "look", ![c].attempt = 2, ![c].changed = FALSE]
       ELSE Refused(c)
  /\ UNCHANGED <<time, since, gone, cache, allowed, flight, excused, rotations, asks>>

(* A caller that goes away while a fetch is under way leaves it to the others.    *)
Leave(c) ==
  /\ caller[c].pc \in {"accepted", "refused"} \/ (caller[c].pc = "wait" /\ flight.pc = "fetch")
  /\ caller' = [caller EXCEPT ![c] = Idle]
  /\ UNCHANGED <<time, since, gone, cache, allowed, flight, excused, rotations, asks>>

Rotate ==
  /\ rotations < MaxRotations /\ rotations' = rotations + 1
  /\ \E k \in Kids : IF k \in Published
       THEN /\ since' = [since EXCEPT ![k] = Never] /\ gone' = [gone EXCEPT ![k] = time]
            /\ caller' = [c \in Callers |-> IF k \in caller[c].kid THEN [caller[c] EXCEPT !.due = FALSE] ELSE caller[c]]
       ELSE since' = [since EXCEPT ![k] = time] /\ UNCHANGED <<gone, caller>>
  /\ UNCHANGED <<time, cache, allowed, flight, excused, asks>>

(* A fetch does not outlast its timeout, and what waits for nobody takes no time.    *)
Tick ==
  /\ time < MaxTime
  /\ flight.pc # "decide" /\ \A c \in Callers : caller[c].pc \in {"idle", "join", "wait"}
  /\ flight.pc \in {"fetch", "store"} => time < flight.began + FetchLimit
  /\ time' = time + 1
  /\ UNCHANGED <<since, gone, cache, allowed, flight, caller, excused, rotations, asks>>

Next ==
  \/ Decide \/ Read \/ Store \/ FetchFails \/ Rotate \/ Tick
  \/ \E c \in Callers : Ask(c) \/ Look(c) \/ Join(c) \/ After(c) \/ Leave(c)

Spec == Init /\ [][Next]_vars

(* SAFETY. A token is accepted only while its key is published or for Lifetime and   *)
(* one fetch after it was withdrawn. And "key rotation needs no restart"             *)
(* (adapters/identity/oidc.py): a key that has been published for longer than one    *)
(* fetch and one Throttle is refused to nobody, whatever flight of whatever other    *)
(* caller it joined, unless a fetch failed just before or two flights in a row        *)
(* fetched nothing.                                                                  *)
KeysAreCurrent ==
  \A c \in Callers :
    /\ caller[c].pc = "accepted" =>
         \A k \in caller[c].kid \ Published : time < gone[k] + Lifetime + FetchLimit
    /\ caller[c].pc = "refused" => ~caller[c].due

=============================================================================
