------------------------------- MODULE Secrets -------------------------------
(* The secrets of a project and what refers to them: application/secrets.py with *)
(* adapters/kubernetes/secrets.py, and the requests that register a reference    *)
(* (jobs.py, models.py, data_catalog.py, batch_inference.py and                  *)
(* model_monitoring.py).                                                     *)
(*                                                                          *)
(* Kubernetes holds the values and gives each write a version; the database      *)
(* holds the references, which are never withdrawn. No transaction spans the      *)
(* two: a request that refers to a secret, and one that deletes it, lock the       *)
(* project, and every change in Kubernetes is conditional on a version.          *)
(* Audit records are left out.                                               *)
EXTENDS Naturals

CONSTANTS
  Names, Requests,
  Contents,     \* the sets of keys a secret may have; that of a registry secret
                \* is one key of its own, which stands for its kind
  MaxVersion,   \* how many writes Kubernetes sees
  MaxFaults

VARIABLES
  secret,     \* Kubernetes, per name: version and keys
  version,    \* the last version given
  refs,       \* committed references: name and key
  forced,     \* history: references whose secret was deleted by force
  lock,       \* the request that holds the row of the project, or "free"
  request,
  faults

vars == <<secret, version, refs, forced, lock, request, faults>>

None  == [version |-> 0, keys |-> {}]
Idle  == [pc |-> "idle"]

Init ==
  /\ secret = [n \in Names |-> None] /\ version = 0
  /\ refs = {} /\ forced = {}
  /\ lock = "free" /\ request = [q \in Requests |-> Idle]
  /\ faults = 0

There(n)  == secret[n] # None
Becomes(q, r) == request' = [request EXCEPT ![q] = r]
Ends(q)   == Becomes(q, Idle)
Frees(q)  == lock' = IF lock = q THEN "free" ELSE lock
MayLock   == lock = "free"

(* What Kubernetes does: the object under a version of its own.                *)
Written(n, keys) ==
  /\ version < MaxVersion /\ version' = version + 1
  /\ secret' = [secret EXCEPT ![n] = [version |-> version + 1, keys |-> keys]]

-----------------------------------------------------------------------------
(* put: a secret that is to be new, or the rotation of the version shown.        *)

Put(q, n, keys) ==
  /\ request[q].pc = "idle"
  /\ Becomes(q, [pc |-> IF There(n) THEN "look" ELSE "create", name |-> n,
                 keys |-> keys, shown |-> secret[n].version])
  /\ UNCHANGED <<secret, version, refs, forced, lock, faults>>

Create(q) ==
  LET r == request[q]
  IN /\ r.pc = "create"
     /\ IF There(r.name) THEN UNCHANGED <<secret, version>> ELSE Written(r.name, r.keys)
     /\ Ends(q)
     /\ UNCHANGED <<refs, forced, lock, faults>>

(* Mutant: keys may go. *)
Preserves_Nothing(n, keys) == There(n)
(* A rotation keeps the kind and the keys that references use.                 *)
Preserves(n, keys) == There(n) /\ secret[n].keys \subseteq keys

Look(q) ==
  LET r == request[q]
  IN /\ r.pc = "look"
     /\ IF Preserves(r.name, r.keys) THEN Becomes(q, [r EXCEPT !.pc = "rotate"]) ELSE Ends(q)
     /\ UNCHANGED <<secret, version, refs, forced, lock, faults>>

(* Mutant: the object is replaced whatever its version. *)
Shown_Name(n, v) == There(n)
(* The version that the request shows, in the look and as a precondition.       *)
Shown(n, v) == There(n) /\ secret[n].version = v

Rotate(q) ==
  LET r == request[q]
  IN /\ r.pc = "rotate"
     /\ IF Shown(r.name, r.shown) THEN Written(r.name, r.keys) ELSE UNCHANGED <<secret, version>>
     /\ Ends(q)
     /\ UNCHANGED <<refs, forced, lock, faults>>

-----------------------------------------------------------------------------
(* delete, of the version shown.                                             *)

Delete(q, n, force) ==
  /\ request[q].pc = "idle" /\ There(n)
  /\ Becomes(q, [pc |-> "lock", name |-> n, shown |-> secret[n].version, force |-> force])
  /\ UNCHANGED <<secret, version, refs, forced, lock, faults>>

(* Mutant: the references are looked up before the lock is asked for. *)
LockToDelete_Late(q) == UNCHANGED lock
LockToDelete(q)      == MayLock /\ lock' = q

Check(q) ==
  LET r == request[q]
  IN /\ r.pc = "lock"
     /\ \/ /\ r.force \/ \A f \in refs : f.name # r.name
           /\ LockToDelete(q) /\ Becomes(q, [r EXCEPT !.pc = "delete"])
        \/ /\ MayLock /\ ~r.force /\ \E f \in refs : f.name = r.name
           /\ Ends(q) /\ UNCHANGED lock
     /\ UNCHANGED <<secret, version, refs, forced, faults>>

(* What is gone already, or has another version, is left as it is.              *)
Remove(q) ==
  LET r == request[q]
  IN /\ r.pc = "delete"
     /\ IF Shown(r.name, r.shown)
        THEN /\ secret' = [secret EXCEPT ![r.name] = None]
             /\ forced' = IF r.force THEN forced \cup {f \in refs : f.name = r.name} ELSE forced
        ELSE UNCHANGED <<secret, forced>>
     /\ Becomes(q, [pc |-> "commit"])
     /\ UNCHANGED <<version, refs, lock, faults>>

-----------------------------------------------------------------------------
(* A job, a model, a connection that refers to a secret.                       *)

Refer(q, n, key) ==
  /\ request[q].pc = "idle" /\ MayLock /\ lock' = q
  /\ Becomes(q, [pc |-> "validate", ref |-> [name |-> n, key |-> key]])
  /\ UNCHANGED <<secret, version, refs, forced, faults>>

Resolves(f) == f.key \in secret[f.name].keys

(* validate_refs *)
Validate(q) ==
  LET r == request[q]
  IN /\ r.pc = "validate"
     /\ IF Resolves(r.ref)
        THEN Becomes(q, [r EXCEPT !.pc = "add"]) /\ UNCHANGED lock
        ELSE Ends(q) /\ Frees(q)
     /\ UNCHANGED <<secret, version, refs, forced, faults>>

Add(q) ==
  LET r == request[q]
  IN /\ r.pc = "add"
     /\ refs' = refs \cup {r.ref} /\ forced' = forced \ {r.ref}
     /\ Ends(q) /\ Frees(q)
     /\ UNCHANGED <<secret, version, faults>>

(* The deletion is recorded.                                                 *)
Commit(q) ==
  /\ request[q].pc = "commit"
  /\ Ends(q) /\ Frees(q)
  /\ UNCHANGED <<secret, version, refs, forced, faults>>

(* The request fails or its process dies between two calls.                    *)
Lost(q) ==
  /\ request[q].pc # "idle"
  /\ faults < MaxFaults /\ faults' = faults + 1
  /\ Ends(q) /\ Frees(q)
  /\ UNCHANGED <<secret, version, refs, forced>>

Next ==
  \E q \in Requests :
    \/ \E n \in Names :
         \/ \E keys \in Contents : Put(q, n, keys)
         \/ \E key \in UNION Contents : Refer(q, n, key)
         \/ \E force \in BOOLEAN : Delete(q, n, force)
    \/ Create(q) \/ Look(q) \/ Rotate(q)
    \/ Check(q) \/ Remove(q) \/ Validate(q) \/ Add(q) \/ Commit(q)
    \/ Lost(q)

Spec == Init /\ [][Next]_vars

-----------------------------------------------------------------------------
(* Properties.                                                              *)

(* Every reference that was committed resolves: its secret is there, with   *)
(* the key and so of the kind that it was validated for, whatever rotations,     *)
(* deletions and registrations overlap; unless it was deleted by force since.    *)
ReferencesHold == \A f \in refs \ forced : Resolves(f)

=============================================================================
