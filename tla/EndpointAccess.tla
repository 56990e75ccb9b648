---------------------------- MODULE EndpointAccess ----------------------------
(* Who may call an endpoint, and what it speaks (application/api_access.py,           *)
(* domain/api_keys.py, deployments.py and the endpoints and api_keys tables): admins  *)
(* expose an endpoint and revoke a key, deploys decide its kind with the limits it    *)
(* starts with, the reconciler moves its status and the gateway notes that a key was  *)
(* used. All of them write rows they read before, and share them by columns.          *)
(* Transactions are READ COMMITTED; two writes never bear the same time.              *)
EXTENDS Naturals, Sequences

CONSTANTS
  Admins, Deployers, Revokers,     \* requests
  Kinds,            \* of the models that are deployed: "model", "llm", "function"
  Chosen,           \* limits an admin asks for, Default among them
  MaxPasses, MaxUses         \* bounds: passes of the reconciler, uses of the key

Default == "default"
Starts(kind) == IF kind = "model" THEN Default ELSE kind \o "-limits"

VARIABLES
  endpoint,     \* [status, kind, exposure, limits, at]: at is updated_at
  revision,     \* the kinds of the models of its revisions
  deployment,   \* the status of the deployment
  key,          \* [revoked, used]
  admin, deployer, revoker, pass, use,     \* the transactions
  accepted,     \* the last change of access that was accepted: [exposure, limits] (history)
  was,          \* the key was revoked (history)
  passes, uses

rows    == <<endpoint, revision, deployment, key>>
history == <<accepted, was>>
vars    == <<rows, admin, deployer, revoker, pass, use, history, passes, uses>>

Idle == [pc |-> "idle"]

Init ==
  /\ endpoint = [status |-> "PENDING", kind |-> "model", exposure |-> "internal", limits |-> Default, at |-> 0]
  /\ revision = <<>> /\ deployment = "PENDING" /\ key = [revoked |-> FALSE, used |-> 0]
  /\ admin = [a \in Admins |-> Idle] /\ deployer = [d \in Deployers |-> Idle]
  /\ revoker = [k \in Revokers |-> Idle] /\ pass = Idle /\ use = Idle
  /\ accepted = [exposure |-> "internal", limits |-> "none"] /\ was = FALSE
  /\ passes = 0 /\ uses = 0

-----------------------------------------------------------------------------
(* Access. *)

ReadAccess(a) ==
  /\ admin[a].pc = "idle"
  /\ \E exposure \in {"internal", "public"}, limits \in Chosen :
       admin' = [admin EXCEPT ![a] = [pc |-> "read", endpoint |-> endpoint, exposure |-> exposure, limits |-> limits]]
  /\ UNCHANGED <<rows, deployer, revoker, pass, use, history, passes, uses>>

(* What is set already is not written; otherwise only the columns of access are.      *)
Expose(a) ==
  /\ admin[a].pc = "read"
  /\ LET w    == admin[a]
         same == w.endpoint.exposure = w.exposure /\ w.endpoint.limits = w.limits
     IN IF same THEN UNCHANGED <<endpoint, accepted>>
        ELSE /\ endpoint' = [endpoint EXCEPT !.exposure = w.exposure, !.limits = w.limits, !.at = @ + 1]
             /\ accepted' = [exposure |-> w.exposure, limits |-> w.limits]
  /\ admin' = [admin EXCEPT ![a] = [pc |-> "done"]]
  /\ UNCHANGED <<revision, deployment, key, deployer, revoker, pass, use, was, passes, uses>>

(* The columns of the life cycle, of a row that was read before.                      *)
Lifecycle_WholeRow(row) == [row EXCEPT !.at = endpoint.at + 1]
Lifecycle(row) == [endpoint EXCEPT !.status = row.status, !.kind = row.kind, !.at = @ + 1]

-----------------------------------------------------------------------------
(* Deploys: a first transaction looks, then the artifact is found, a second one       *)
(* creates the revision with the deployment locked.                                   *)

Last(s) == s[Len(s)]
SameKind(kind) == revision = <<>> \/ Last(revision) = kind

Ask(d) ==
  /\ deployer[d].pc = "idle" /\ deployment # "DELETING"
  /\ \E kind \in Kinds :
       deployer' = [deployer EXCEPT ![d] = [pc |-> IF SameKind(kind) THEN "ask" ELSE "done", kind |-> kind]]
  /\ UNCHANGED <<rows, admin, revoker, pass, use, history, passes, uses>>

LockFree == \A d \in Deployers : deployer[d].pc # "locked"

LockDeployment(d) ==
  /\ deployer[d].pc = "ask" /\ LockFree
  /\ deployer' = [deployer EXCEPT ![d] = IF deployment = "DELETING" THEN [pc |-> "done"]
                    ELSE [pc |-> "locked", kind |-> deployer[d].kind, endpoint |-> endpoint]]
  /\ UNCHANGED <<rows, admin, revoker, pass, use, history, passes, uses>>

(* The first revision decides what the endpoint speaks, and its limits, unless the    *)
(* row has changed since it was read or they are not the defaults.                    *)
Initializes_Always(row) == TRUE
Initializes(row) == endpoint.at = row.at /\ endpoint.limits = Default

Served(row, kind) ==
  IF row.kind = kind THEN endpoint
  ELSE [Lifecycle([row EXCEPT !.kind = kind]) EXCEPT !.limits = IF Initializes(row) THEN Starts(kind) ELSE @]

(* A status that has changed is a conflict, and the transaction leaves nothing.       *)
Deploy(d) ==
  /\ deployer[d].pc = "locked"
  /\ LET w == deployer[d]
     IN IF w.endpoint.kind # w.kind /\ w.endpoint.status # endpoint.status
        THEN UNCHANGED <<endpoint, revision, deployment>>
        ELSE /\ endpoint' = Served(w.endpoint, w.kind)
             /\ revision' = Append(revision, w.kind)
             /\ deployment' = "DEPLOYING"
  /\ deployer' = [deployer EXCEPT ![d] = [pc |-> "done"]]
  /\ UNCHANGED <<key, admin, revoker, pass, use, history, passes, uses>>

-----------------------------------------------------------------------------
(* The reconciler, with a deletion, which closes the endpoint first.                  *)

Load ==
  /\ pass.pc = "idle" /\ passes < MaxPasses /\ passes' = passes + 1
  /\ deployment \in {"DEPLOYING", "READY"}
  /\ pass' = [pc |-> "loaded", endpoint |-> endpoint, deployment |-> deployment]
  /\ UNCHANGED <<rows, admin, deployer, revoker, use, history, uses>>

(* READY, or down again; both rows must still have the status that was read.          *)
Mark ==
  /\ pass.pc = "loaded" /\ pass' = Idle /\ LockFree
  /\ IF endpoint.status # pass.endpoint.status \/ deployment # pass.deployment THEN UNCHANGED <<endpoint, deployment>>
     ELSE IF deployment = "DEPLOYING"
     THEN /\ deployment' = "READY"
          /\ endpoint' = IF pass.endpoint.status = "READY" THEN endpoint
                         ELSE Lifecycle([pass.endpoint EXCEPT !.status = "READY"])
     ELSE /\ deployment' = "DEPLOYING"
          /\ endpoint' = Lifecycle([pass.endpoint EXCEPT !.status = "UNAVAILABLE"])
  /\ UNCHANGED <<revision, key, admin, deployer, revoker, use, history, passes, uses>>

Delete ==
  /\ deployment # "DELETING" /\ LockFree
  /\ deployment' = "DELETING"
  /\ endpoint' = Lifecycle([endpoint EXCEPT !.status = "UNAVAILABLE"])
  /\ UNCHANGED <<revision, key, admin, deployer, revoker, pass, use, history, passes, uses>>

-----------------------------------------------------------------------------
(* The key. *)

ReadKey(k) ==
  /\ revoker[k].pc = "idle"
  /\ revoker' = [revoker EXCEPT ![k] = [pc |-> IF key.revoked THEN "done" ELSE "read", key |-> key]]
  /\ UNCHANGED <<rows, admin, deployer, pass, use, history, passes, uses>>

Revoke(k) ==
  /\ revoker[k].pc = "read"
  /\ key' = [revoker[k].key EXCEPT !.revoked = TRUE]
  /\ was' = TRUE
  /\ revoker' = [revoker EXCEPT ![k] = [pc |-> "done"]]
  /\ UNCHANGED <<endpoint, revision, deployment, admin, deployer, pass, use, accepted, passes, uses>>

(* The gateway has found the key usable, by its cache, and notes the use later.       *)
UseKey ==
  /\ use.pc = "idle" /\ uses < MaxUses /\ uses' = uses + 1
  /\ use' = [pc |-> "used", key |-> key]
  /\ UNCHANGED <<rows, admin, deployer, revoker, pass, history, passes>>

Touched_WholeRow(k) == [k EXCEPT !.used = uses]
Touched(k) == [key EXCEPT !.used = uses]

Touch ==
  /\ use.pc = "used" /\ use' = Idle
  /\ key' = Touched(use.key)
  /\ UNCHANGED <<endpoint, revision, deployment, admin, deployer, revoker, pass, history, passes, uses>>

Next ==
  \/ \E a \in Admins : ReadAccess(a) \/ Expose(a)
  \/ \E d \in Deployers : Ask(d) \/ LockDeployment(d) \/ Deploy(d)
  \/ \E k \in Revokers : ReadKey(k) \/ Revoke(k)
  \/ Load \/ Mark \/ Delete \/ UseKey \/ Touch

Spec == Init /\ [][Next]_vars

-----------------------------------------------------------------------------

(* SAFETY. The access to an endpoint is what was accepted last, whatever else writes  *)
(* its row ("limits initialize conditionally against original timestamp/default       *)
(* values and never replace a concurrent administrator change",                       *)
(* docs/concurrency-identity-audit.md:99): only defaults chosen before a deploy read  *)
(* them may give way to the limits of the kind, which an endpoint whose access nobody *)
(* changed always has. A revoked key stays revoked.                                   *)
AccessIsKept ==
  /\ endpoint.exposure = accepted.exposure
  /\ IF accepted.limits = "none" THEN endpoint.limits = Starts(endpoint.kind)
     ELSE endpoint.limits \in {accepted.limits} \cup (IF accepted.limits = Default THEN {Starts(endpoint.kind)} ELSE {})
  /\ was => key.revoked

(* "The first revision decides what the endpoint speaks" (deployments.py:490).        *)
FirstRevisionDecides == revision # <<>> => endpoint.kind = revision[1]

=============================================================================
