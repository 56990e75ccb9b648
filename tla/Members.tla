------------------------------- MODULE Members -------------------------------
(* Who manages a project: application/members.py with the creation of a project *)
(* in application/projects.py and the roles of domain/access.py.                *)
(*                                                                          *)
(* A request is authorised in a transaction of its own (api/auth.py), and acts   *)
(* later in another, which locks the project, reads its members, and writes.     *)
EXTENDS FiniteSets, Naturals

CONSTANTS
  Subjects,     \* the members there may be; each may call, and "platform" besides
  Requests,
  MaxRequests   \* how many requests arrive

VARIABLES
  owner,      \* who created the project, or "nobody": it does not exist
  role,       \* per subject
  lock,       \* the request that holds the row of the project, or "free"
  request,
  arrived

vars == <<owner, role, lock, request, arrived>>

Roles == {"viewer", "admin"}    \* operators and invokers manage no members either

Idle == [pc |-> "idle", subject |-> "nobody", to |-> "none"]

Init ==
  /\ owner = "nobody" /\ role = [s \in Subjects |-> "none"]
  /\ lock = "free" /\ request = [q \in Requests |-> Idle] /\ arrived = 0

Goes(q, pc) == request' = [request EXCEPT ![q].pc = pc]
Ends(q)     == request' = [request EXCEPT ![q] = Idle]
Frees(q)    == lock' = IF lock = q THEN "free" ELSE lock

Arrives(q, pc, s, to) ==
  /\ request[q].pc = "idle" /\ arrived < MaxRequests /\ arrived' = arrived + 1
  /\ request' = [request EXCEPT ![q] = [pc |-> pc, subject |-> s, to |-> to]]

-----------------------------------------------------------------------------
(* The creation of the project: s owns it.                                    *)

(* A project of that name is returned as it is.                               *)
Create(q, s) ==
  /\ owner = "nobody" /\ Arrives(q, "insert", s, "admin")
  /\ UNCHANGED <<owner, role, lock>>

(* Mutant: the membership is another transaction. *)
Owned_Later(s) == role
Owned(s) == [role EXCEPT ![s] = "admin"]

(* The name is unique: of two that insert it one fails, and replays.            *)
Insert(q) ==
  /\ request[q].pc = "insert"
  /\ IF owner = "nobody"
     THEN owner' = request[q].subject /\ role' = Owned(request[q].subject)
     ELSE UNCHANGED <<owner, role>>
  /\ Ends(q)
  /\ UNCHANGED <<lock, arrived>>

-----------------------------------------------------------------------------
(* set_role and remove (to = "none").                                         *)

Manages(caller) == caller = "platform" \/ (caller \in Subjects /\ role[caller] = "admin")

Ask(q, s, to) ==
  /\ owner # "nobody"
  /\ \E caller \in Subjects \cup {"platform"} : Manages(caller)
  /\ Arrives(q, "lock", s, to)
  /\ UNCHANGED <<owner, role, lock>>

(* Mutant: the project is read without its lock. *)
MayLock_Always(q) == TRUE
MayLock(q) == lock = "free"

(* Mutant: only a removal is looked at. *)
LastAdmin_Removed(s, to) ==
  to = "none" /\ role[s] = "admin" /\ \A o \in Subjects \ {s} : role[o] # "admin"
(* _keep_an_admin *)
LastAdmin(s, to) ==
  role[s] = "admin" /\ to # "admin" /\ \A o \in Subjects \ {s} : role[o] # "admin"

(* What is there to change is settled under the lock.                         *)
Lock(q) ==
  LET s == request[q].subject
  IN /\ request[q].pc = "lock" /\ MayLock(q)
     /\ IF role[s] = request[q].to \/ LastAdmin(s, request[q].to)
        THEN Ends(q) /\ UNCHANGED lock
        ELSE Goes(q, "write") /\ lock' = q
     /\ UNCHANGED <<owner, role, arrived>>

(* An update or a removal finds the row gone only where the lock is not held.    *)
Write(q) ==
  /\ request[q].pc = "write"
  /\ role' = [role EXCEPT ![request[q].subject] = request[q].to]
  /\ Ends(q) /\ Frees(q)
  /\ UNCHANGED <<owner, arrived>>

(* The request, its process or its connection ends; nothing of it is committed.  *)
Lost(q) ==
  /\ request[q].pc # "idle"
  /\ Ends(q) /\ Frees(q)
  /\ UNCHANGED <<owner, role, arrived>>

Next ==
  \E q \in Requests :
    \/ \E s \in Subjects : Create(q, s) \/ \E to \in Roles \cup {"none"} : Ask(q, s, to)
    \/ Insert(q) \/ Lock(q) \/ Write(q) \/ Lost(q)

Spec == Init /\ [][Next]_vars

-----------------------------------------------------------------------------
(* Properties.                                                              *)

(* "A new project is never left without someone to manage it" (projects.py), and *)
(* never is later: of the requests that demote or remove its admins at the same  *)
(* time, each authorised by an admin the other removes, the last one is refused. *)
SomebodyManages == owner # "nobody" => \E s \in Subjects : role[s] = "admin"

=============================================================================
