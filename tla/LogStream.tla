------------------------------ MODULE LogStream ------------------------------
(* Live logs of a workload. The API issues a ticket that binds a pod by its UID and    *)
(* expires (controlplane/api/log_stream.py); one replica of the stream service checks  *)
(* the ticket, admits it, looks at the pod, opens the log by the name of the pod,      *)
(* looks again and only then sends (services/log-stream-go). Meanwhile pods of the     *)
(* same name replace each other, clients present a ticket several times, and the       *)
(* replica drains and restarts.                                                        *)
EXTENDS Naturals, FiniteSets

CONSTANTS
  Spaces,        \* namespaces, each with one pod of a fixed name
  Clients,       \* requests to the replica
  Tickets,       \* nonces
  Life, Stay,    \* how long a ticket is good for, and how long its stream may last
  MaxActive, MaxPerSpace,       \* streams at once
  MaxUsed,                      \* nonces it remembers
  MaxTime, MaxPods              \* bounds

VARIABLES
  time,
  pod,           \* per namespace, the UID of its pod, a number; 0 when there is none
  born,          \* per namespace, how many pods there were
  ticket,        \* per nonce, its claims once issued
  used,          \* nonces the replica has seen and not forgotten
  active, busy,  \* its counters: streams, and streams per namespace
  draining,
  client,        \* per request: pc, the nonce it presented, the UID whose log it has open
  admitted       \* history: nonces admitted before they expired, by this process; and again

vars == <<time, pod, born, ticket, used, active, busy, draining, client, admitted>>
replica == <<used, active, busy, draining, admitted>>
world == <<time, pod, born>>

None == [issued |-> FALSE, space |-> {}, uid |-> 0, at |-> 0]
Idle == [pc |-> "idle", nonce |-> {}, log |-> 0]

Init ==
  /\ time = 0 /\ ticket = [n \in Tickets |-> None]
  /\ born = [s \in Spaces |-> 1] /\ pod = [s \in Spaces |-> 1]
  /\ used = {} /\ active = 0 /\ busy = [s \in Spaces |-> 0] /\ draining = FALSE
  /\ client = [c \in Clients |-> Idle]
  /\ admitted = [once |-> {}, again |-> {}]

Claims(c) == CHOOSE t \in {ticket[n] : n \in client[c].nonce} : TRUE
Space(c)  == CHOOSE s \in Claims(c).space : TRUE
Expires(n) == ticket[n].at + Life

(* The API, for a caller who may read the logs: the pod there is now.                *)
Issue(n) ==
  /\ ~ticket[n].issued
  /\ \E s \in Spaces :
       /\ pod[s] # 0
       /\ ticket' = [ticket EXCEPT ![n] = [issued |-> TRUE, space |-> {s}, uid |-> pod[s], at |-> time]]
  /\ UNCHANGED <<world, replica, client>>

(* Signature, form and times of the ticket are in order.                              *)
Verify(c) ==
  /\ client[c].pc = "idle"
  /\ \E n \in Tickets :
       /\ ticket[n].issued /\ time < Expires(n)
       /\ client' = [client EXCEPT ![c] = [Idle EXCEPT !.pc = "verified", !.nonce = {n}]]
  /\ UNCHANGED <<world, ticket, replica>>

(* What the replica still remembers.                                                  *)
Remembered_Never == {}
Remembered       == {n \in used : time < Expires(n)}

Admits(c) ==
  /\ ~draining /\ active < MaxActive /\ busy[Space(c)] < MaxPerSpace
  /\ Cardinality(Remembered) < MaxUsed /\ client[c].nonce \cap Remembered = {}

Goes(c, pc) == client' = [client EXCEPT ![c].pc = pc]

Acquire(c) ==
  /\ client[c].pc = "verified"
  /\ IF Admits(c)
     THEN /\ used' = Remembered \cup client[c].nonce
          /\ active' = active + 1 /\ busy' = [busy EXCEPT ![Space(c)] = @ + 1]
          /\ LET now == {n \in client[c].nonce : time < Expires(n)}
             IN admitted' = [once |-> admitted.once \cup now, again |-> admitted.again \cup (now \cap admitted.once)]
          /\ Goes(c, "look")
     ELSE /\ used' = Remembered
          /\ client' = [client EXCEPT ![c] = Idle]
          /\ UNCHANGED <<active, busy, admitted>>
  /\ UNCHANGED <<world, ticket, draining>>

(* However the request ends.                                                          *)
Release(c) ==
  /\ active' = active - 1 /\ busy' = [busy EXCEPT ![Space(c)] = @ - 1]
  /\ client' = [client EXCEPT ![c] = Idle]
  /\ UNCHANGED <<used, draining, admitted>>

Owns_ByName(c)  == pod[Space(c)] # 0
Owns(c)         == pod[Space(c)] = Claims(c).uid

Look(c) ==
  /\ client[c].pc = "look"
  /\ IF Owns(c) THEN Goes(c, "open") /\ UNCHANGED replica ELSE Release(c)
  /\ UNCHANGED <<world, ticket>>

(* The log is opened by the name of the pod.                                          *)
Open(c) ==
  /\ client[c].pc = "open"
  /\ IF pod[Space(c)] # 0
     THEN client' = [client EXCEPT ![c].pc = "recheck", ![c].log = pod[Space(c)]] /\ UNCHANGED replica
     ELSE Release(c)
  /\ UNCHANGED <<world, ticket>>

Recheck(c) ==
  /\ client[c].pc = "recheck"
  /\ IF Owns(c) THEN Goes(c, "stream") /\ UNCHANGED replica ELSE Release(c)
  /\ UNCHANGED <<world, ticket>>

Admitted == {c \in Clients : client[c].pc \in {"look", "open", "recheck", "stream"}}

(* The end of the log, a call that fails, a client that leaves, or the time is up.    *)
End(c) == c \in Admitted /\ Release(c) /\ UNCHANGED <<world, ticket>>

(* The process is told to stop: it admits nobody, and requests under way end with it. *)
Drain ==
  /\ ~draining /\ draining' = TRUE
  /\ UNCHANGED <<world, ticket, used, active, busy, client, admitted>>

(* It exits and a new process starts, with nothing remembered.                        *)
Exit ==
  /\ draining /\ draining' = FALSE
  /\ used' = {} /\ active' = 0 /\ busy' = [s \in Spaces |-> 0]
  /\ client' = [c \in Clients |-> Idle] /\ admitted' = [once |-> {}, again |-> {}]
  /\ UNCHANGED <<world, ticket>>

PodGoes(s) ==
  /\ pod[s] # 0 /\ pod' = [pod EXCEPT ![s] = 0]
  /\ UNCHANGED <<time, born, ticket, replica, client>>

PodComes(s) ==
  /\ pod[s] = 0 /\ born[s] < MaxPods
  /\ born' = [born EXCEPT ![s] = @ + 1] /\ pod' = [pod EXCEPT ![s] = born[s] + 1]
  /\ UNCHANGED <<time, ticket, replica, client>>

(* A stream is cut at the end its ticket names.                                       *)
Tick ==
  /\ time < MaxTime /\ time' = time + 1
  /\ \A c \in Admitted : time < Claims(c).at + Stay
  /\ UNCHANGED <<pod, born, ticket, replica, client>>

Serve(c) == Verify(c) \/ Acquire(c) \/ Look(c) \/ Open(c) \/ Recheck(c) \/ End(c)

Next ==
  \/ Tick \/ Drain \/ Exit
  \/ \E s \in Spaces : PodGoes(s) \/ PodComes(s)
  \/ \E n \in Tickets : Issue(n)
  \/ \E c \in Clients : Serve(c)

Spec == Init /\ [][Next]_vars

(* SAFETY. What is sent is the log of the very pod the caller was authorised for,     *)
(* although it was opened by name; the counters are those of the requests under way,  *)
(* within their limits, so that no stream is lost to or gained by the replica; and a  *)
(* ticket that has not expired is admitted once by a process.                         *)
LogsAreTheirs ==
  /\ \A c \in Clients : client[c].pc = "stream" => client[c].log = Claims(c).uid
  /\ active = Cardinality(Admitted) /\ active <= MaxActive
  /\ \A s \in Spaces : busy[s] = Cardinality({c \in Admitted : Space(c) = s}) /\ busy[s] <= MaxPerSpace
  /\ admitted.again = {}

(* "Tickets are single-admission within a replica" (docs/log-streaming.md): a request *)
(* that was verified in the last moment and admitted after it is a second one.         *)
AdmittedOnce ==
  \A c, d \in Clients : c # d /\ {c, d} \subseteq Admitted => client[c].nonce # client[d].nonce

=============================================================================
