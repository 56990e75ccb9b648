--------------------------- MODULE ServingAdapter ---------------------------
(* The serving adapter (adapters/serving/kserve.py): how revisions of one deployment  *)
(* become one InferenceService with a storage account per revision, and what its      *)
(* status is taken for. A call of the adapter is several calls of the Kubernetes API, *)
(* between which the controller, other callers and other people go on. KServe and     *)
(* Knative are external: they make a backend of each new predictor, load it, and      *)
(* report on it later, field by field.                                                *)
EXTENDS Naturals, Sequences, FiniteSets

CONSTANTS
  Callers,      \* reconcilers: one leader, or two that overlap
  Watchers,     \* those that ask for the status too
  Asked,        \* what deploy may be asked for: <<revision, share of the traffic>>
  Doubtful,     \* the revisions whose model may fail to load
  Stored,       \* the revisions whose model is read from S3 with credentials of the project
  MaxMoves      \* bound on calls of the adapter and edits by other people

VARIABLES
  service,      \* the InferenceService, see Service
  backends,     \* the Knative revisions made of it, in order
  status,       \* what KServe last reported of them, see NoStatus
  account,      \* the service account of each stored revision
  call,         \* of each caller: the adapter call under way
  answer,       \* what get_status answered in the last step, NoAnswer when it did not
  edited,       \* applies whose predictor was edited by someone else (history)
  deployment,   \* "live", "DELETING" or "DELETED", as the reconciler records it
  overlap,      \* a deploy was under way when its deletion began (history)
  applies,      \* the nonces used
  moves, edits

others == <<applies, edited, deployment, overlap, moves, edits>>
vars   == <<service, backends, status, account, call, answer, others>>

(* Revision 0 is none; content is the revision whose predictor it holds, 0 one that    *)
(* somebody edited; apply is the nonce of the apply; share is canaryTrafficPercent.    *)
NoService == [revision |-> 0, previous |-> 0, apply |-> 0, content |-> 0, share |-> 100, leaving |-> FALSE]
Exists    == service.revision # 0

(* latestCreatedRevision, latestReadyRevision, previousRolledoutRevision, the Ready    *)
(* condition, and the model that lastFailureInfo names with the transition status.     *)
NoStatus == [latest |-> 0, ready |-> 0, rolled |-> 0, isReady |-> FALSE, failed |-> 0, blocked |-> FALSE]
NoBackend == [revision |-> 0, apply |-> 0, content |-> 0, state |-> "none", fell |-> FALSE]
NoAnswer  == [state |-> "none", service |-> NoService, backend |-> NoBackend, former |-> NoBackend]

Idle == [pc |-> "idle", revision |-> 0, share |-> 100, changed |-> FALSE, fresh |-> FALSE, raced |-> FALSE,
         previous |-> 0, seen |-> NoService, report |-> NoStatus, found |-> NoBackend,
         removes |-> FALSE, list |-> {}, stale |-> {}, swept |-> FALSE]

Init ==
  /\ service = NoService /\ backends = <<>> /\ status = NoStatus
  /\ account = [r \in Stored |-> "absent"]
  /\ call = [p \in Callers |-> Idle] /\ answer = NoAnswer
  /\ edited = {} /\ deployment = "live" /\ overlap = FALSE
  /\ applies = 0 /\ moves = 0 /\ edits = 0

Begin(p, c) ==
  /\ call[p] = Idle /\ moves < MaxMoves /\ moves' = moves + 1
  /\ call' = [call EXCEPT ![p] = c]
Goes(p, c) == call' = [call EXCEPT ![p] = c]
Ends(p)    == Goes(p, Idle)

(* A resource that changes leaves behind those who read it and mean to write it, or    *)
(* delete it, at the version they saw.                                                 *)
ServiceMoves(c)    == [q \in Callers |-> IF c[q].pc = "patch" THEN [c[q] EXCEPT !.fresh = FALSE] ELSE c[q]]
AccountMoves(c, r) ==
  [q \in Callers |-> IF c[q].pc = "write" /\ c[q].revision = r THEN [c[q] EXCEPT !.fresh = FALSE]
                     ELSE [c[q] EXCEPT !.stale = @ \cup (c[q].list \cap {r})]]

-----------------------------------------------------------------------------
(* deploy(revision, share), from the storage account to the patch.                     *)

Deploy(p, r, share) ==
  /\ deployment = "live"
  /\ Begin(p, [Idle EXCEPT !.pc = IF r \in Stored THEN "account" ELSE "read", !.revision = r, !.share = share])
  /\ UNCHANGED <<service, backends, status, account, applies, edited, deployment, overlap, edits>>

AccountRead(p) ==
  LET c == call[p] IN
  /\ c.pc = "account"
  /\ CASE account[c.revision] = "foreign" -> Ends(p)
       [] account[c.revision] = "ours"    -> Goes(p, [c EXCEPT !.pc = "read"])
       [] OTHER                           -> Goes(p, [c EXCEPT !.pc = "write", !.fresh = TRUE])
  /\ UNCHANGED <<service, backends, status, account, others>>

(* Created, or replaced at the version that was read; refused when it has changed.     *)
AccountWrite(p) ==
  LET c == call[p] IN
  /\ c.pc = "write"
  /\ IF c.fresh
     THEN /\ account' = [account EXCEPT ![c.revision] = "ours"]
          /\ call' = AccountMoves([call EXCEPT ![p] = [c EXCEPT !.pc = "read", !.fresh = FALSE, !.changed = TRUE]],
                              c.revision)
     ELSE account' = account /\ Ends(p)
  /\ UNCHANGED <<service, backends, status, others>>

Matches(c) == service.content = c.revision /\ service.revision = c.revision /\ service.share = c.share

(* What serves beside the new revision from now on: what was served before.            *)
Before(c) == IF service.revision # c.revision THEN service.revision ELSE service.previous

ServiceRead(p) ==
  LET c == call[p] IN
  /\ c.pc = "read"
  /\ CASE ~Exists                    -> Goes(p, [c EXCEPT !.pc = "create"])
       [] Matches(c) /\ ~c.changed   -> Ends(p)
       [] OTHER -> Goes(p, [c EXCEPT !.pc = "patch", !.fresh = TRUE, !.previous = Before(c)])
  /\ UNCHANGED <<service, backends, status, account, others>>

Applied(c, previous) ==
  /\ service' = [service EXCEPT !.revision = c.revision, !.content = c.revision, !.share = c.share,
                                !.previous = previous, !.apply = applies + 1]
  /\ applies' = applies + 1

(* Create; 409 when it was created meanwhile: it is read again and patched.            *)
Create(p) ==
  LET c == call[p] IN
  /\ c.pc = "create"
  /\ IF Exists
     THEN Goes(p, [c EXCEPT !.pc = "reread", !.raced = TRUE]) /\ UNCHANGED <<service, applies>>
     ELSE Applied(c, 0) /\ Ends(p)
  /\ UNCHANGED <<backends, status, account, edited, deployment, overlap, moves, edits>>

Reread(p) ==
  LET c == call[p] IN
  /\ c.pc = "reread"
  /\ IF Exists THEN Goes(p, [c EXCEPT !.pc = "patch", !.fresh = TRUE]) ELSE Ends(p)
  /\ UNCHANGED <<service, backends, status, account, others>>

(* The patch tests the resource version, replaces the predictor whole and merges the   *)
(* annotations.                                                                        *)
Current_Untested(c) == c.pc = "patch"
Current(c) == c.fresh
Patch(p) ==
  LET c == call[p] IN
  /\ c.pc = "patch"
  /\ IF Current(c)
     THEN /\ Applied(c, IF c.previous # 0 THEN c.previous ELSE service.previous)
          /\ call' = ServiceMoves([call EXCEPT ![p] = Idle])
     ELSE UNCHANGED <<service, applies>> /\ Ends(p)
  /\ UNCHANGED <<backends, status, account, edited, deployment, overlap, moves, edits>>

-----------------------------------------------------------------------------
(* get_status: the service with its status, then the backend that status names last,   *)
(* then, once that one is ready, the one before it.                                    *)

GetStatus(p) ==
  /\ p \in Watchers /\ call[p] = Idle /\ Exists
  /\ \A q \in Callers : call[q].pc \notin {"look", "backend", "former"}
  /\ Goes(p, [Idle EXCEPT !.pc = "look"])
  /\ UNCHANGED <<service, backends, status, account, others>>

Answers(p, state, c, b, former) ==
  /\ answer' = [state |-> state, service |-> c.seen, backend |-> b, former |-> former]
  /\ Ends(p)

(* When the service is gone, a deployment that is DELETING becomes DELETED.             *)
Look(p) ==
  LET c == [call[p] EXCEPT !.seen = service] IN
  /\ c.pc = "look"
  /\ IF Exists /\ status.latest # 0 /\ ~c.removes
     THEN Goes(p, [c EXCEPT !.pc = "backend", !.report = status]) /\ answer' = NoAnswer
     ELSE Answers(p, IF Exists THEN "PENDING" ELSE "ABSENT", c, NoBackend, NoBackend)
  /\ deployment' = IF c.removes /\ ~Exists THEN "DELETED" ELSE deployment
  /\ UNCHANGED <<service, backends, status, account, applies, edited, overlap, moves, edits>>

(* The identity of a backend is what it says of itself.                                *)
IsLatest_ByRevision(b, c) == b.revision = c.seen.revision
IsLatest(b, c) == b.apply = c.seen.apply /\ b.revision = c.seen.revision
Failing_Once(b, c) == b.state # "ready" /\ c.report.failed # 0 /\ c.report.blocked
Failing(b, c)  == b.state # "ready" /\ c.report.failed = c.report.latest /\ c.report.blocked
Serving(b, c)  == b.state = "ready" /\ c.report.isReady /\ c.report.ready = c.report.latest

LookBackend(p) ==
  LET c == call[p]
      b == IF c.report.latest \in DOMAIN backends THEN backends[c.report.latest] ELSE NoBackend
  IN
  /\ c.pc = "backend"
  /\ IF IsLatest(b, c) /\ Serving(b, c) /\ c.seen.previous \notin {0, c.seen.revision} /\ c.report.rolled # 0
     THEN Goes(p, [c EXCEPT !.pc = "former", !.found = b]) /\ answer' = NoAnswer
     ELSE Answers(p, IF ~IsLatest(b, c) THEN "PENDING"
                     ELSE IF Failing(b, c) THEN "FAILED"
                     ELSE IF Serving(b, c) THEN "READY" ELSE "PENDING", c, b, NoBackend)
  /\ UNCHANGED <<service, backends, status, account, others>>

IsFormer(b, c) == b.revision = c.seen.previous /\ b.state = "ready"
LookFormer(p) ==
  LET c == call[p]
      b == IF c.report.rolled \in DOMAIN backends THEN backends[c.report.rolled] ELSE NoBackend
  IN
  /\ c.pc = "former"
  /\ Answers(p, "READY", c, c.found, IF IsFormer(b, c) THEN b ELSE NoBackend)
  /\ UNCHANGED <<service, backends, status, account, others>>

-----------------------------------------------------------------------------
(* The pass over a DELETING deployment: delete, then get_status.                       *)

Deploying == \E p \in Callers : call[p].pc \in {"account", "write", "read", "create", "reread", "patch"}

Delete(p) ==
  /\ Begin(p, [Idle EXCEPT !.pc = "delete", !.removes = TRUE])
  /\ deployment # "DELETED" /\ deployment' = "DELETING"
  /\ overlap' = (overlap \/ Deploying)
  /\ UNCHANGED <<service, backends, status, account, applies, edited, edits>>

DeleteService(p) ==
  LET c == call[p] IN
  /\ c.pc = "delete"
  /\ service' = [service EXCEPT !.leaving = Exists]
  /\ call' = ServiceMoves([call EXCEPT ![p] = [c EXCEPT !.pc = "gone"]])
  /\ UNCHANGED <<backends, status, account, others>>

(* The accounts are kept while the service exists.                                     *)
Sweeps_AtOnce == TRUE
Sweeps == ~Exists
CheckGone(p) ==
  LET c == call[p] IN
  /\ c.pc = "gone"
  /\ Goes(p, [c EXCEPT !.pc = IF Sweeps THEN "list" ELSE "look"])
  /\ UNCHANGED <<service, backends, status, account, others>>

Ours(r) == account[r] \in {"ours", "wrong"}
ListAccounts(p) ==
  LET c == call[p] IN
  /\ c.pc = "list"
  /\ Goes(p, [c EXCEPT !.pc = "remove", !.list = {r \in Stored : Ours(r)}])
  /\ UNCHANGED <<service, backends, status, account, others>>

(* One at a time, at the version listed; a conflict ends the pass, another tries again. *)
Removable(c, r) == r \notin c.stale
RemoveAccount(p) ==
  LET c == call[p] IN
  /\ c.pc = "remove"
  /\ IF c.list = {}
     THEN Goes(p, [c EXCEPT !.pc = "look", !.swept = TRUE]) /\ account' = account
     ELSE \E r \in c.list :
            LET on == [call EXCEPT ![p] = [c EXCEPT !.list = @ \ {r}, !.stale = @ \ {r}]] IN
            CASE account[r] = "absent" -> call' = on /\ account' = account
              [] account[r] # "absent" /\ Removable(c, r) ->
                   account' = [account EXCEPT ![r] = "absent"] /\ call' = AccountMoves(on, r)
              [] OTHER -> Ends(p) /\ account' = account
  /\ UNCHANGED <<service, backends, status, others>>

-----------------------------------------------------------------------------
(* KServe and Knative.                                                                 *)

(* A predictor that is not that of the newest backend gets one.                        *)
NewBackend ==
  /\ Exists /\ ~service.leaving
  /\ LET b == [revision |-> service.revision, apply |-> service.apply, content |-> service.content,
               state |-> "loading", fell |-> FALSE]
         n == Len(backends)
     IN /\ n > 0 => <<backends[n].apply, backends[n].content>> # <<b.apply, b.content>>
        /\ backends' = Append(backends, b)
  /\ UNCHANGED <<service, status, account, call, others>>

(* A model loads or fails; one that failed may load after all.                         *)
Load(b) ==
  /\ \/ backends[b].state = "loading" /\ backends[b].revision \in Doubtful /\ backends' = [backends EXCEPT ![b].state = "failed", ![b].fell = TRUE]
     \/ backends[b].state # "ready" /\ backends' = [backends EXCEPT ![b].state = "ready"]
  /\ UNCHANGED <<service, status, account, call, others>>

(* What is reported may be old in each field.                                          *)
ReadyUpTo(n) == {b \in 1 .. n : backends[b].state = "ready"}
Report ==
  /\ Exists
  /\ \E n \in status.latest .. Len(backends) :
       /\ n > 0
       /\ \E good, stuck \in BOOLEAN, old \in {status.rolled} \cup ReadyUpTo(n - 1) :
            /\ good  => status.isReady \/ backends[n].state = "ready"
            /\ stuck => status.blocked \/ backends[n].state = "failed"
            /\ status' = [latest |-> n, isReady |-> good, blocked |-> stuck, rolled |-> old,
                          ready  |-> IF ReadyUpTo(n) = {} THEN 0 ELSE CHOOSE b \in ReadyUpTo(n) : \A d \in ReadyUpTo(n) : d <= b,
                          failed |-> IF backends[n].state = "failed" THEN n ELSE status.failed]
       /\ status' # status
  /\ call' = ServiceMoves(call)
  /\ UNCHANGED <<service, backends, account, others>>

(* The deletion is carried out.                                                        *)
Gone ==
  /\ service.leaving
  /\ service' = NoService /\ backends' = <<>> /\ status' = NoStatus
  /\ call' = ServiceMoves(call)
  /\ UNCHANGED <<account, others>>

(* Somebody edits the predictor or an account, or takes the name of one.               *)
Edit == moves < MaxMoves /\ moves' = moves + 1 /\ edits' = edits + 1
EditService ==
  /\ Edit /\ Exists /\ service.content # 0
  /\ service' = [service EXCEPT !.content = 0]
  /\ edited' = edited \cup {service.apply}
  /\ call' = ServiceMoves(call)
  /\ UNCHANGED <<backends, status, account, applies, deployment, overlap>>
EditAccount(r) ==
  /\ Edit
  /\ account' = [account EXCEPT ![r] = IF @ = "absent" THEN "foreign" ELSE "wrong"]
  /\ account[r] # "foreign"
  /\ call' = AccountMoves(call, r)
  /\ UNCHANGED <<service, backends, status, applies, edited, deployment, overlap>>

Asks(p) == Look(p) \/ LookBackend(p) \/ LookFormer(p)
Acts(p) ==
  \/ \E a \in Asked : Deploy(p, a[1], a[2])
  \/ AccountRead(p) \/ AccountWrite(p) \/ ServiceRead(p) \/ Create(p) \/ Reread(p) \/ Patch(p)
  \/ GetStatus(p)
  \/ Delete(p) \/ DeleteService(p) \/ CheckGone(p) \/ ListAccounts(p) \/ RemoveAccount(p)
Cluster ==
  \/ NewBackend \/ (\E b \in DOMAIN backends : Load(b)) \/ Report \/ Gone
  \/ EditService \/ \E r \in Stored : EditAccount(r)

Next ==
  \/ \E p \in Callers : Asks(p)
  \/ ((\E p \in Callers : Acts(p)) \/ Cluster) /\ answer' = NoAnswer

Spec == Init /\ [][Next]_vars

-----------------------------------------------------------------------------
(* Properties.                                                                         *)

(* READY names a backend that has loaded the very model of the revision, and beside it *)
(* at most one that has loaded the model before it, whatever the status lags behind:   *)
(* unless somebody edited the predictor since it was applied. FAILED says that the     *)
(* model of this revision, not of an earlier one, failed to load.                      *)
Holds(b, r) == b.revision = r /\ (b.content = r \/ b.apply \in edited)
StatusIsTrue ==
  LET s == answer.service  b == answer.backend IN
  /\ answer.state \in {"READY", "FAILED"} => b.revision = s.revision /\ (b.content = b.revision \/ s.apply \in edited)
  /\ answer.state = "READY"  => b.state = "ready" /\ (answer.former = NoBackend \/ Holds(answer.former, s.previous))
  /\ answer.state = "FAILED" => b.fell

(* A service has the account its model is read with, until somebody else edits or takes *)
(* it, or two reconcilers deploy and delete it at once; and a deletion that came to     *)
(* sweep leaves none of ours.                                                           *)
AccountsAreKept ==
  \/ overlap \/ edits > 0
  \/ /\ Exists /\ service.revision \in Stored => account[service.revision] = "ours"
     /\ \A p \in Callers : call[p].swept => \A r \in Stored : ~Ours(r)

(* The revision that an apply replaces is the one it names as the previous one, though  *)
(* the service changed while it was prepared: unless it was created meanwhile. Accounts *)
(* of others are left alone.                                                            *)
NothingIsLost ==
  /\ (Exists /\ service'.revision \notin {0, service.revision})
       => service'.previous = service.revision \/ \E p \in Callers : call[p].raced
  /\ \A r \in Stored : account[r] = "foreign" => account'[r] = "foreign"
AppliesFollow == [][NothingIsLost]_vars

(* What deployments.py goes by: a deployment that is DELETED has left no account.      *)
DeletedLeavesNothing ==
  deployment = "DELETED" => (overlap \/ edits > 0 \/ \A r \in Stored : ~Ours(r))

=============================================================================
