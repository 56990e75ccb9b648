---------------------------- MODULE ModelRegistry ----------------------------
(***************************************************************************)
(* The versions of one model, from their discovery in the model registry    *)
(* (MLflow) to champion. The platform's rows are the truth about a version's *)
(* status; the registry holds the artifacts, and two aliases which a         *)
(* reconciler keeps equal to what the rows say.                            *)
(*                                                                         *)
(* Requests work on the same rows at once. Discovery, evaluation and         *)
(* promotion each take several steps: what an earlier statement or           *)
(* transaction has read is kept by the request, and its last write is        *)
(* accepted only if the rows still are as expected. Postgres runs at READ     *)
(* COMMITTED, so each statement sees what has been committed before it.      *)
(***************************************************************************)
EXTENDS Naturals, Sequences, FiniteSets

CONSTANTS
  Refs,          \* the versions the registry holds, by their references
  None,          \* no version
  Clients,       \* requests served at the same time
  Leaders,       \* reconciler processes; one, unless two leaders overlap
  MaxPromotions, \* bound on promotions
  MaxEdits,      \* bound on aliases somebody else moves
  MaxFaults      \* bound on failed calls of the alias reconciler

ASSUME RegistryAssumption ==
  /\ None \notin Refs /\ IsFiniteSet(Refs)
  /\ {MaxPromotions, MaxEdits, MaxFaults} \subseteq Nat

VARIABLES
  version,      \* the model_versions rows, by reference
  evaluations,  \* the evaluations rows of each version, in order
  promotions,   \* the promotions rows, in order
  drift,        \* is the model's alias_drift set?
  alias,        \* the aliases in the registry
  client,       \* what each request is doing
  pass,         \* the pass each alias reconciler is in
  edits, faults \* how many there have been

rows   == <<version, evaluations, promotions>>
bounds == <<edits, faults>>
vars   == <<rows, drift, alias, client, pass, bounds>>

-----------------------------------------------------------------------------
ModelStatus == {"REGISTERED", "EVALUATING", "REJECTED", "CANDIDATE", "CHAMPION", "ARCHIVED"}
Evaluation  == {"RUNNING", "PASSED", "FAILED"}
Alias       == {"champion", "candidate"}

(* A row, or Unknown: number is the platform's own version number.           *)
Version == [number : Nat \ {0}, status : ModelStatus]
Unknown == [number |-> 0, status |-> "UNKNOWN"]

Known       == {r \in Refs : version[r] # Unknown}
In(status)  == {r \in Refs : version[r].status = status}
Promotion   == [version : Refs, previous : Refs \cup {None}]

Idle == [pc |-> "idle"]

(* A request: number is the version number it is about to take, status what   *)
(* it has read of the version, index the evaluation it is to finish, and      *)
(* previous the champion it means to replace.                              *)
Registering == [pc : {"register"}, ref : Refs, number : Nat]
Starting    == [pc : {"start"}, ref : Refs, status : {"REGISTERED", "EVALUATING"}]
Finishing   == [pc : {"finish"}, ref : Refs, index : Nat \ {0}]
Crowning    == [pc : {"crown"}, ref : Refs, status : {"CANDIDATE", "ARCHIVED"},
                previous : Refs \cup {None}]
Request     == Registering \cup Starting \cup Finishing \cup Crowning

(* A pass: the aliases it wants, the one it is at, whether it has found one   *)
(* moved, written one, and whether the model was flagged before; then what it *)
(* has to record.                                                          *)
Looking   == [pc : {"read", "write", "verify"}, wanted : [Alias -> Refs \cup {None}],
              at : Alias, moved : BOOLEAN, wrote : BOOLEAN, flagged : BOOLEAN]
Recording == [pc : {"detected", "synced", "failed"}]
Pass      == Looking \cup Recording

TypeOK ==
  /\ version \in [Refs -> Version \cup {Unknown}]
  /\ evaluations \in [Refs -> Seq(Evaluation)]
  /\ promotions \in Seq(Promotion)
  /\ drift \in BOOLEAN
  /\ alias \in [Alias -> Refs \cup {None}]
  /\ client \in [Clients -> Request \cup {Idle}]
  /\ pass \in [Leaders -> Pass \cup {Idle}]
  /\ edits \in 0 .. MaxEdits /\ faults \in 0 .. MaxFaults

Init ==
  /\ version = [r \in Refs |-> Unknown]
  /\ evaluations = [r \in Refs |-> << >>]
  /\ promotions = << >>
  /\ drift = FALSE
  /\ alias = [a \in Alias |-> None]
  /\ client = [c \in Clients |-> Idle]
  /\ pass = [l \in Leaders |-> Idle]
  /\ edits = 0 /\ faults = 0

Does(c, request) == client' = [client EXCEPT ![c] = request]

(* The row of r is held by a promotion that has not committed.               *)
Locked(r) == \E c \in Clients : client[c].pc = "crown" /\ client[c].ref = r

-----------------------------------------------------------------------------
(* Discovery: _register.                                                    *)

Newest(S) == CHOOSE r \in S : \A s \in S : version[s].number <= version[r].number

(* Mutant: the number of the newest version is taken again.                  *)
NextVersion_Repeated == IF Known = {} THEN 0 ELSE version[Newest(Known)].number
NextVersion == IF Known = {} THEN 1 ELSE version[Newest(Known)].number + 1

Discover(c, r) ==
  /\ client[c] = Idle
  /\ r \notin Known
  /\ Does(c, [pc |-> "register", ref |-> r, number |-> NextVersion])
  /\ UNCHANGED <<rows, drift, alias, pass, bounds>>

(* The unique constraints on the reference and on the number; a request that  *)
(* violates one starts over.                                               *)
(* Mutant: the constraints are left out.                                    *)
Taken_Unchecked(q) == FALSE
Taken(q) == q.ref \in Known \/ \E r \in Known : version[r].number = q.number

Register(c) ==
  /\ client[c].pc = "register"
  /\ version' = IF Taken(client[c]) THEN version
                ELSE [version EXCEPT ![client[c].ref] =
                       [number |-> client[c].number, status |-> "REGISTERED"]]
  /\ Does(c, Idle)
  /\ UNCHANGED <<evaluations, promotions, drift, alias, pass, bounds>>

-----------------------------------------------------------------------------
(* EvaluationService.                                                       *)

EvaluateRead(c, r) ==
  /\ client[c] = Idle
  /\ version[r].status \in {"REGISTERED", "EVALUATING"}
  /\ Does(c, [pc |-> "start", ref |-> r, status |-> version[r].status])
  /\ UNCHANGED <<rows, drift, alias, pass, bounds>>

Running(r) == {i \in DOMAIN evaluations[r] : evaluations[r][i] = "RUNNING"}
Resumed(r) == CHOOSE i \in Running(r) : \A j \in Running(r) : i <= j

(* _start: a REGISTERED version is moved on, under a compare-and-swap; an      *)
(* evaluation that runs is resumed, otherwise one is added.                 *)
EvaluateStart(c) ==
  /\ client[c].pc = "start"
  /\ LET q == client[c]
         r == q.ref
     IN IF q.status = "REGISTERED" /\ version[r].status # "REGISTERED"
        THEN Does(c, Idle) /\ UNCHANGED rows
        ELSE /\ version' = IF q.status = "REGISTERED"
                             THEN [version EXCEPT ![r].status = "EVALUATING"] ELSE version
             /\ IF Running(r) # {}
                THEN /\ Does(c, [pc |-> "finish", ref |-> r, index |-> Resumed(r)])
                     /\ UNCHANGED evaluations
                ELSE /\ Does(c, [pc |-> "finish", ref |-> r, index |-> Len(evaluations[r]) + 1])
                     /\ evaluations' = [evaluations EXCEPT ![r] = Append(@, "RUNNING")]
             /\ UNCHANGED promotions
  /\ UNCHANGED <<drift, alias, pass, bounds>>

(* _finish: the verdict on the metrics, under two compare-and-swaps. A request *)
(* that fails one changes nothing.                                         *)
(* Mutant: updates without an expected status.                              *)
Pending_Assumed(q) == TRUE
Pending(q) == q.index \in Running(q.ref) /\ version[q.ref].status = "EVALUATING"

EvaluateFinish(c) ==
  /\ client[c].pc = "finish"
  /\ LET q == client[c] IN
       /\ Pending(q)
       /\ \E passed \in BOOLEAN :
            /\ evaluations' = [evaluations EXCEPT ![q.ref][q.index] =
                                 IF passed THEN "PASSED" ELSE "FAILED"]
            /\ version' = [version EXCEPT ![q.ref].status =
                             IF passed THEN "CANDIDATE" ELSE "REJECTED"]
  /\ Does(c, Idle)
  /\ UNCHANGED <<promotions, drift, alias, pass, bounds>>

-----------------------------------------------------------------------------
(* promote_version (a CANDIDATE) and restore_champion (an ARCHIVED one): the   *)
(* row is locked and the champion read ...                                 *)
Promote(c, r) ==
  /\ client[c] = Idle
  /\ Len(promotions) < MaxPromotions
  /\ ~ Locked(r)
  /\ version[r].status \in {"CANDIDATE", "ARCHIVED"}
  /\ \E previous \in IF In("CHAMPION") = {} THEN {None} ELSE In("CHAMPION") :
       Does(c, [pc |-> "crown", ref |-> r, status |-> version[r].status, previous |-> previous])
  /\ UNCHANGED <<rows, drift, alias, pass, bounds>>

(* ... then one is archived, the other crowned, and the promotion recorded.   *)
(* It is refused if the champion is no longer that one, by the               *)
(* compare-and-swap or by the unique index on CHAMPION.                     *)
(* Mutant: neither is there.                                                *)
Undisputed_Unchecked(q) == TRUE
Undisputed(q) == In("CHAMPION") = {q.previous} \ {None}

Crown(c) ==
  /\ client[c].pc = "crown"
  /\ LET q == client[c] IN
       /\ Undisputed(q)
       /\ version' = [r \in Refs |->
            IF r = q.ref THEN [version[r] EXCEPT !.status = "CHAMPION"]
            ELSE IF r = q.previous THEN [version[r] EXCEPT !.status = "ARCHIVED"]
            ELSE version[r]]
       /\ promotions' = Append(promotions, [version |-> q.ref, previous |-> q.previous])
  /\ Does(c, Idle)
  /\ UNCHANGED <<evaluations, drift, alias, pass, bounds>>

(* A request ends without its next write: Conflict, an outage, a crash.      *)
GiveUp(c) ==
  /\ client[c] # Idle
  /\ Does(c, Idle)
  /\ UNCHANGED <<rows, drift, alias, pass, bounds>>

(* A rollout of the version is rolled back: see Serving.                    *)
Reject(r) ==
  /\ version[r].status = "CANDIDATE" /\ ~ Locked(r)
  /\ version' = [version EXCEPT ![r].status = "REJECTED"]
  /\ UNCHANGED <<evaluations, promotions, drift, alias, client, pass, bounds>>

-----------------------------------------------------------------------------
(* ModelAliasReconciler.                                                    *)

Desired ==
  [a \in Alias |->
     LET S == In(IF a = "champion" THEN "CHAMPION" ELSE "CANDIDATE")
     IN IF S = {} THEN None ELSE Newest(S)]

Goes(l, p) == pass' = [pass EXCEPT ![l] = p]

AliasLoad(l) ==
  /\ pass[l] = Idle
  /\ Known # {}
  /\ Goes(l, [pc |-> "read", wanted |-> Desired, at |-> "champion", moved |-> FALSE,
              wrote |-> FALSE, flagged |-> drift])
  /\ UNCHANGED <<rows, drift, alias, client, bounds>>

(* Where a pass goes on after an alias: to the next one, or to the records.   *)
Onward(p) ==
  IF p.at = "champion" THEN [p EXCEPT !.pc = "read", !.at = "candidate"]
  ELSE IF p.moved THEN [pc |-> "detected"]
  ELSE IF p.wrote \/ p.flagged THEN [pc |-> "synced"]
  ELSE Idle

AliasRead(l) ==
  /\ pass[l].pc = "read"
  /\ LET p == pass[l] IN
       Goes(l, IF alias[p.at] = p.wanted[p.at] THEN Onward(p)
               ELSE [p EXCEPT !.pc = "write", !.moved = @ \/ alias[p.at] # None])
  /\ UNCHANGED <<rows, drift, alias, client, bounds>>

(* Mutant: an alias that should not exist is left alone.                    *)
Written_NeverDeleted(p) == IF p.wanted[p.at] = None THEN alias[p.at] ELSE p.wanted[p.at]
Written(p) == p.wanted[p.at]

AliasWrite(l) ==
  /\ pass[l].pc = "write"
  /\ alias' = [alias EXCEPT ![pass[l].at] = Written(pass[l])]
  /\ Goes(l, [pass[l] EXCEPT !.pc = "verify"])
  /\ UNCHANGED <<rows, drift, client, bounds>>

AliasVerify(l) ==
  /\ pass[l].pc = "verify"
  /\ LET p == pass[l] IN
       Goes(l, IF alias[p.at] = p.wanted[p.at] THEN Onward([p EXCEPT !.wrote = TRUE])
               ELSE [pc |-> "failed"])
  /\ UNCHANGED <<rows, drift, alias, client, bounds>>

(* The flag is set for what was found, and cleared once it is repaired; a pass *)
(* that failed leaves it set.                                              *)
AliasRecord(l) ==
  /\ pass[l].pc \in {"detected", "synced", "failed"}
  /\ drift' = (pass[l].pc # "synced")
  /\ Goes(l, IF pass[l].pc = "detected" THEN [pc |-> "synced"] ELSE Idle)
  /\ UNCHANGED <<rows, alias, client, bounds>>

(* A call that raises ends the pass and flags the model; a crash just ends it. *)
AliasFault(l) ==
  /\ pass[l] # Idle /\ faults < MaxFaults
  /\ faults' = faults + 1
  /\ \/ Goes(l, [pc |-> "failed"]) /\ pass[l].pc \in {"read", "write", "verify"}
     \/ Goes(l, Idle)
  /\ UNCHANGED <<rows, drift, alias, client, edits>>

(* Somebody moves or removes an alias in the registry.                       *)
AliasEdit ==
  /\ edits < MaxEdits
  /\ \E a \in Alias, r \in Refs \cup {None} :
       r # alias[a] /\ alias' = [alias EXCEPT ![a] = r]
  /\ edits' = edits + 1
  /\ UNCHANGED <<rows, drift, client, pass, faults>>

-----------------------------------------------------------------------------
ClientStep(c) ==
  \/ \E r \in Refs : Discover(c, r) \/ EvaluateRead(c, r) \/ Promote(c, r)
  \/ Register(c) \/ EvaluateStart(c) \/ EvaluateFinish(c) \/ Crown(c)
  \/ GiveUp(c)

AliasStep(l) ==
  AliasLoad(l) \/ AliasRead(l) \/ AliasWrite(l) \/ AliasVerify(l) \/ AliasRecord(l)

Next ==
  \/ \E c \in Clients : ClientStep(c)
  \/ \E r \in Refs : Reject(r)
  \/ \E l \in Leaders : AliasStep(l) \/ AliasFault(l)
  \/ AliasEdit

Spec == Init /\ [][Next]_vars

(* The loop of reconciler_main comes back to the aliases of every model.     *)
FairSpec == Spec /\ \A l \in Leaders : WF_vars(AliasStep(l))

-----------------------------------------------------------------------------
(* Properties.                                                              *)

(* The versions of a model are numbered 1, 2, 3, ... and no two requests that  *)
(* discover at once take the same number.                                  *)
NumbersAreGapless == {version[r].number : r \in Known} = 1 .. Cardinality(Known)

(* A version has the status its one finished evaluation gave it, or one that a *)
(* candidate reaches from there, however many requests judge it at once.     *)
EvaluationDecides ==
  \A r \in Refs :
    LET finished == {i \in DOMAIN evaluations[r] : evaluations[r][i] # "RUNNING"}
    IN IF version[r].status \in {"UNKNOWN", "REGISTERED", "EVALUATING"}
       THEN finished = {}
       ELSE \E i \in DOMAIN evaluations[r] :
              /\ finished = {i}
              /\ evaluations[r][i] = "FAILED" => version[r].status = "REJECTED"

(* The promotions on record are a chain: each names the champion it replaced,  *)
(* and the last one the champion there is. None is lost or made up when two   *)
(* promotions, or a promotion and a rollback, meet.                         *)
PromotionsChain ==
  LET champion(i) == IF i = 0 THEN None ELSE promotions[i].version IN
  /\ \A i \in DOMAIN promotions : promotions[i].previous = champion(i - 1)
  /\ In("CHAMPION") = {champion(Len(promotions))} \ {None}
  /\ In("ARCHIVED") = {promotions[i].version : i \in DOMAIN promotions} \ In("CHAMPION")

(* Once nobody promotes or edits any more the aliases in the registry are what *)
(* the rows say, and the model is not flagged.                              *)
AliasesFollow == <>[](Known # {} => alias = Desired /\ ~ drift)

-----------------------------------------------------------------------------
(* "resumed, not duplicated": a version is evaluated once. Refuted: the second *)
(* of two requests may read EVALUATING, see the first one finish, find no      *)
(* running evaluation, and add one that nothing will ever finish.           *)
ResumedNotDuplicated == \A r \in Refs : Len(evaluations[r]) <= 1

=============================================================================
