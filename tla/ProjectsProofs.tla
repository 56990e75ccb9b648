--------------------------- MODULE ProjectsProofs ---------------------------
(***************************************************************************)
(* Theorems about Projects, for any deployments, revisions, sizes, quotas,   *)
(* requests and faults. The GPUs that are held are counted as a set of       *)
(* units, so that what is granted to one revision can be compared with what  *)
(* all of them take up.                                                    *)
(***************************************************************************)
EXTENDS Projects, FiniteSetTheorems, FunctionTheorems, TLAPS

(* The lease lets one process reconcile at a time (see PlatformProofs).      *)
OneReconciler == \A p, q \in Reconcilers : p = q

-----------------------------------------------------------------------------
(* The GPUs that are held. *)

(* A finite union of finite sets is finite. *)
LEMMA FiniteUnion ==
  ASSUME NEW S, IsFiniteSet(S), NEW F, F = [s \in S |-> F[s]], \A s \in S : IsFiniteSet(F[s])
  PROVE  IsFiniteSet(UNION {F[s] : s \in S})
<1> DEFINE T == {F[s] : s \in S}
<1>1. F \in [S -> T] /\ \A t \in T : \E s \in S : F[s] = t
  OBVIOUS
<1>2. F \in Surjection(S, T)
  BY <1>1, Fun_IsSurj
<1>3. IsFiniteSet(T)
  BY <1>2, FS_Surjection
<1> QED
  BY <1>3, FS_UNION

(* The GPUs that revisions of a deployment take up are finitely many. *)
LEMMA UnitsFinite == ASSUME NEW d, NEW R \in SUBSET Revisions PROVE IsFiniteSet(Units(d, R))
<1> DEFINE F == [r \in R |-> {<<d, r>>} \X (1 .. Gpus[r])]
<1>1. IsFiniteSet(R)
  BY ProjectsAssumption, FS_Subset
<1>2. ASSUME NEW r \in R PROVE IsFiniteSet(F[r])
  <2>1. IsFiniteSet({<<d, r>>})
    BY FS_Singleton
  <2>2. Gpus[r] \in Nat
    BY ProjectsAssumption
  <2>3. IsFiniteSet(1 .. Gpus[r])
    BY <2>2, FS_Interval
  <2> QED
    BY <2>1, <2>3, FS_Product
<1>3. F = [r \in R |-> F[r]] /\ UNION {F[r] : r \in R} = Units(d, R)
  BY DEF Units
<1> HIDE DEF F
<1> QED
  BY <1>1, <1>2, <1>3, FiniteUnion

(* So are those that deployments hold. *)
LEMMA TakenFinite == ASSUME TypeOK, NEW D \in SUBSET Deployments PROVE IsFiniteSet(Taken(D))
<1> DEFINE F == [d \in D |-> Units(d, Held(d))]
<1>1. IsFiniteSet(D)
  BY ProjectsAssumption, FS_Subset
<1>2. ASSUME NEW d \in D PROVE IsFiniteSet(F[d])
  <2>1. Held(d) \in SUBSET Revisions
    BY DEF TypeOK, Deployment, Held
  <2> QED
    BY <2>1, UnitsFinite
<1>3. F = [d \in D |-> F[d]] /\ UNION {F[d] : d \in D} = Taken(D)
  BY DEF Taken
<1> HIDE DEF F
<1> QED
  BY <1>1, <1>2, <1>3, FiniteUnion

(* What is contained in a finite set is not larger. *)
LEMMA Smaller == ASSUME NEW S, NEW T, IsFiniteSet(T), S \subseteq T PROVE Cardinality(S) <= Cardinality(T)
  BY FS_Subset

(* More revisions take up more GPUs. *)
LEMMA UnitsGrow == \A d : \A R, S : R \subseteq S => Units(d, R) \subseteq Units(d, S)
  BY DEF Units

(* Revisions side by side take up what each does. *)
LEMMA UnitsJoin == \A d : \A R, S : Units(d, R \cup S) = Units(d, R) \cup Units(d, S)
  BY DEF Units

(* What a request that holds the row will commit still fits. *)
Room(c) ==
  /\ req[c].op = "quota" => InUse(Deployments) <= req[c].quota
  /\ req[c].op \in {"desire", "canary"} =>
       \/ Units(req[c].dep, {req[c].rev}) = {}
       \/ Cardinality(Taken(Deployments) \cup Units(req[c].dep, {req[c].rev})) <= project.quota

OneLock == \A c, d \in Clients : req[c] # Quiet /\ req[d] # Quiet => c = d

QuotaInv == OneLock /\ QuotaHolds /\ \A c \in Clients : overwritten \/ Room(c)

(* Deployments hold no more than before, and who holds the row goes on holding it. *)
LEMMA Shrinks ==
  ASSUME TypeOK, QuotaInv, UNCHANGED req, overwritten => overwritten',
         overwritten' \/ (project'.quota = project.quota /\ \A d \in Deployments : Held(d)' \subseteq Held(d))
  PROVE  QuotaInv'
<1>1. OneLock'
  BY DEF QuotaInv, OneLock
<1>2. CASE overwritten'
  BY <1>1, <1>2 DEF QuotaInv, QuotaHolds
<1>3. CASE ~overwritten'
  <2>1. Taken(Deployments)' \subseteq Taken(Deployments)
    BY <1>3, UnitsGrow DEF Taken
  <2>2. InUse(Deployments)' <= InUse(Deployments)
    BY <2>1, TakenFinite, Smaller DEF InUse
  <2>3. InUse(Deployments) \in Nat /\ InUse(Deployments)' \in Nat
    BY <2>1, TakenFinite, FS_CardinalityType, FS_Subset DEF InUse
  <2>4. project.quota \in Nat
    BY ProjectsAssumption DEF TypeOK, Project
  <2>5. QuotaHolds'
    BY <1>3, <2>2, <2>3, <2>4 DEF QuotaInv, QuotaHolds
  <2>6. ASSUME NEW c \in Clients PROVE Room(c)'
    <3>1. Room(c) /\ req[c] \in Request
      BY <1>3 DEF QuotaInv, TypeOK
    <3>2. CASE req[c].op = "quota"
      <4>1. req[c].quota \in Nat
        BY <3>1, <3>2, ProjectsAssumption DEF Request, Quiet
      <4> QED
        BY <2>2, <2>3, <3>1, <3>2, <4>1 DEF Room
    <3>3. CASE req[c].op \in {"desire", "canary"}
      <4> DEFINE U == Units(req[c].dep, {req[c].rev})
      <4>1. req[c].rev \in Revisions
        BY <3>1, <3>3 DEF Request, Quiet
      <4>2. IsFiniteSet(U)
        BY <4>1, UnitsFinite
      <4>3. IsFiniteSet(Taken(Deployments) \cup U)
        BY <4>2, TakenFinite, FS_Union
      <4>4. Cardinality(Taken(Deployments)' \cup U) <= Cardinality(Taken(Deployments) \cup U)
        BY <2>1, <4>3, Smaller
      <4>5. Cardinality(Taken(Deployments) \cup U) \in Nat
        BY <4>3, FS_CardinalityType
      <4>6. Cardinality(Taken(Deployments)' \cup U) \in Nat
        <5>1. Taken(Deployments)' \cup U \subseteq Taken(Deployments) \cup U
          BY <2>1
        <5>2. IsFiniteSet(Taken(Deployments)' \cup U)
          BY <4>3, <5>1, FS_Subset
        <5> QED
          BY <5>2, FS_CardinalityType
      <4>7. UNCHANGED <<req, project.quota>> /\ U' = U
        BY <1>3 DEF Units
      <4>8. U = {} \/ Cardinality(Taken(Deployments) \cup U) <= project.quota
        BY <3>1, <3>3 DEF Room
      <4>9. U' = {} \/ Cardinality(Taken(Deployments)' \cup U') <= project'.quota
        BY <2>4, <4>4, <4>5, <4>6, <4>7, <4>8
      <4> QED
        BY <3>3, <4>7, <4>9 DEF Room
    <3> QED
      BY <3>1, <3>2, <3>3 DEF Room
  <2> QED
    BY <1>1, <2>5, <2>6 DEF QuotaInv
<1> QED
  BY <1>2, <1>3

(* A request takes the row, having found that what it will commit fits. *)
LEMMA Begins ==
  ASSUME TypeOK, QuotaInv, NEW c \in Clients, NEW r, Begin(c, r), UNCHANGED <<project, dep, overwritten>>,
         \/ r.op = "quota" /\ InUse(Deployments) <= r.quota
         \/ /\ r.op \in {"desire", "canary"}
            /\ \/ Units(r.dep, {r.rev}) = {}
               \/ Cardinality(Taken(Deployments) \cup Units(r.dep, {r.rev})) <= project.quota
  PROVE  QuotaInv'
<1>1. req' = [req EXCEPT ![c] = r] /\ \A d \in Clients : req[d] = Quiet
  BY DEF Begin, RowFree, Locked
<1>2. req'[c] = r /\ \A d \in Clients \ {c} : req'[d] = Quiet
  BY <1>1 DEF TypeOK
<1>3. OneLock'
  BY <1>2 DEF OneLock
<1>4. Taken(Deployments)' = Taken(Deployments) /\ InUse(Deployments)' = InUse(Deployments)
  BY DEF Taken, Held, InUse
<1>5. QuotaHolds'
  BY <1>4 DEF QuotaInv, QuotaHolds
<1>6. Room(c)'
  BY <1>2, <1>4 DEF Room
<1>7. \A d \in Clients \ {c} : Room(d)'
  BY <1>2 DEF Room, Quiet
<1> QED
  BY <1>3, <1>5, <1>6, <1>7 DEF QuotaInv

(* check_gpus: what it lets pass fits beside all that is held. *)
LEMMA FitsThen ==
  ASSUME TypeOK, NEW d \in Deployments, NEW r \in Revisions, Fits(d, Held(d) \cup {r})
  PROVE  \/ Units(d, {r}) = {}
         \/ Cardinality(Taken(Deployments) \cup Units(d, {r})) <= project.quota
<1> DEFINE N == Units(d, Held(d) \cup {r})
           O == Taken(Deployments \ {d})
<1>1. Held(d) \cup {r} \in SUBSET Revisions
  BY DEF TypeOK, Deployment, Held
<1>2. IsFiniteSet(N) /\ IsFiniteSet(O)
  BY <1>1, UnitsFinite, TakenFinite
<1>3. CASE Cardinality(N) = 0
  <2>1. N = {}
    BY <1>2, <1>3, FS_EmptySet
  <2> QED
    BY <2>1, UnitsJoin
<1>4. CASE Cardinality(O) + Cardinality(N) <= project.quota
  <2>1. Taken(Deployments) \cup Units(d, {r}) = O \cup N
    BY UnitsJoin DEF Taken
  <2>2. Cardinality(O \cup N) = Cardinality(O) + Cardinality(N) - Cardinality(O \cap N)
    BY <1>2, FS_Union
  <2>3. Cardinality(O) \in Nat /\ Cardinality(N) \in Nat /\ Cardinality(O \cap N) \in Nat
    BY <1>2, FS_CardinalityType, FS_Intersection
  <2>4. project.quota \in Nat
    BY ProjectsAssumption DEF TypeOK, Project
  <2>5. Cardinality(O \cup N) <= project.quota
    <3> HIDE DEF O, N
    <3> QED
      BY <1>4, <2>2, <2>3, <2>4
  <2> QED
    BY <2>1, <2>5
<1> QED
  BY <1>3, <1>4 DEF Fits, Sum, InUse

(* It commits: d holds r as well. *)
LEMMA Commits ==
  ASSUME TypeOK, QuotaInv, NEW c \in Clients, End(c), UNCHANGED <<project, overwritten>>,
         req[c].op \in {"desire", "canary"},
         \A d \in Deployments : Held(d)' \subseteq IF d = req[c].dep THEN Held(d) \cup {req[c].rev} ELSE Held(d)
  PROVE  QuotaInv'
<1>0. req[c] # Quiet /\ req[c].rev \in Revisions /\ req[c].dep \in Deployments
  BY DEF TypeOK, Request, Quiet
<1>1. PICK e \in Deployments, v \in Revisions : e = req[c].dep /\ v = req[c].rev
  BY <1>0
<1> DEFINE U == Units(e, {v})
<1>2. \A d \in Clients : req'[d] = Quiet
  BY <1>0 DEF QuotaInv, OneLock, End, TypeOK
<1>3. OneLock' /\ \A d \in Clients : Room(d)'
  BY <1>2 DEF OneLock, Room, Quiet
<1>4. QuotaHolds'
  <2>1. SUFFICES ASSUME ~overwritten PROVE InUse(Deployments)' <= project.quota
    BY DEF QuotaHolds
  <2>2. Taken(Deployments)' \subseteq Taken(Deployments) \cup U
    <3>1. \A d \in Deployments \ {e} : Units(d, Held(d)') \subseteq Units(d, Held(d))
      BY <1>1, UnitsGrow
    <3>2. Held(e)' \subseteq Held(e) \cup {v}
      BY <1>1
    <3>3. Units(e, Held(e)') \subseteq Units(e, Held(e)) \cup U
      BY <3>2, UnitsGrow, UnitsJoin
    <3> QED
      BY <1>1, <3>1, <3>3 DEF Taken
  <2>3. IsFiniteSet(U) /\ IsFiniteSet(Taken(Deployments)) /\ IsFiniteSet(Taken(Deployments) \cup U)
    BY <1>1, UnitsFinite, TakenFinite, FS_Union
  <2>4. project.quota \in Nat /\ Room(c) /\ InUse(Deployments) <= project.quota
    BY <2>1, ProjectsAssumption DEF TypeOK, Project, QuotaInv, QuotaHolds
  <2>5. CASE U = {}
    <3>1. Cardinality(Taken(Deployments)') <= Cardinality(Taken(Deployments))
      BY <2>2, <2>3, <2>5, Smaller
    <3>2. Cardinality(Taken(Deployments)) \in Nat /\ Cardinality(Taken(Deployments)') \in Nat
      BY <2>2, <2>3, <2>5, FS_CardinalityType, FS_Subset
    <3> QED
      BY <2>4, <3>1, <3>2 DEF InUse
  <2>6. CASE Cardinality(Taken(Deployments) \cup U) <= project.quota
    <3>1. Cardinality(Taken(Deployments)') <= Cardinality(Taken(Deployments) \cup U)
      BY <2>2, <2>3, Smaller
    <3>2. Cardinality(Taken(Deployments) \cup U) \in Nat /\ Cardinality(Taken(Deployments)') \in Nat
      BY <2>2, <2>3, FS_CardinalityType, FS_Subset
    <3> QED
      BY <2>4, <2>6, <3>1, <3>2 DEF InUse
  <2> QED
    BY <1>1, <2>4, <2>5, <2>6 DEF Room
<1> QED
  BY <1>3, <1>4 DEF QuotaInv

-----------------------------------------------------------------------------
(* Types, and what each step writes. *)

(* Where a pass over the project stands. *)
OnProject == {"observe", "drifted", "begin", "apply", "upsert", "verify", "ready", "failed",
              "delete", "gone", "deleted", "note"}
ProjectRec == [pc : OnProject, row : Project, todo : SUBSET Kinds]
SettleRec  == [pc : {"settle"}, dep : Deployments, row : Deployment]

(* The kinds of pass, told apart by where they stand. *)
LEMMA PassKinds ==
  ASSUME TypeOK, NEW p \in Reconcilers
  PROVE  /\ rec[p] \in {Idle} \cup ProjectRec \cup SettleRec
         /\ rec[p].pc \in OnProject => rec[p] \in ProjectRec
         /\ rec[p].pc = "settle" => rec[p] \in SettleRec
         /\ ProjectRec \cup SettleRec \cup {Idle} = Pass
<1>1. ProjectRec \cup SettleRec \cup {Idle} = Pass
  BY DEF Pass, ProjectRec, SettleRec, OnProject
<1>2. rec[p] \in {Idle} \cup ProjectRec \cup SettleRec
  BY <1>1 DEF TypeOK
<1>3. ASSUME rec[p] = Idle PROVE rec[p].pc = "idle"
  BY <1>3 DEF Idle
<1>4. ASSUME rec[p] \in ProjectRec PROVE rec[p].pc \in OnProject
  BY <1>4 DEF ProjectRec
<1>5. ASSUME rec[p] \in SettleRec PROVE rec[p].pc = "settle"
  BY <1>5 DEF SettleRec
<1>6. "idle" \notin OnProject /\ "settle" \notin OnProject
  BY DEF OnProject
<1> QED
  BY <1>1, <1>2, <1>3, <1>4, <1>5, <1>6

(* A pass goes on with the record w, or ends. *)
Becomes(p, w) == rec' = [rec EXCEPT ![p] = w]

(* A pass that goes on with a record leaves the others alone. *)
LEMMA Steps ==
  ASSUME TypeOK, NEW p \in Reconcilers, NEW w \in Pass, Becomes(p, w)
  PROVE  rec' \in [Reconcilers -> Pass] /\ rec'[p] = w /\ \A q \in Reconcilers \ {p} : rec'[q] = rec[q]
  BY DEF TypeOK, Becomes

(* A pass that ends. *)
LEMMA Ends ==
  ASSUME TypeOK, NEW p \in Reconcilers, Stop(p)
  PROVE  rec' \in [Reconcilers -> Pass] /\ rec'[p] = Idle /\ \A q \in Reconcilers \ {p} : rec'[q] = rec[q]
<1>1. Idle \in Pass /\ Becomes(p, Idle)
  BY DEF Pass, Stop, Becomes
<1> QED
  BY <1>1, Steps

(* A pass over the project that goes on to pc with the row it has. *)
LEMMA GoesOn ==
  ASSUME TypeOK, NEW p \in Reconcilers, rec[p].pc \in OnProject, NEW pc \in OnProject, To(p, pc)
  PROVE  /\ rec' \in [Reconcilers -> Pass] /\ rec'[p] = [rec[p] EXCEPT !.pc = pc] /\ rec'[p] \in ProjectRec
         /\ rec'[p].pc = pc /\ rec'[p].row = rec[p].row /\ rec'[p].todo = rec[p].todo
         /\ \A q \in Reconcilers \ {p} : rec'[q] = rec[q]
<1>1. rec[p] \in ProjectRec
  BY PassKinds
<1>2. PICK w : w = [rec[p] EXCEPT !.pc = pc]
  OBVIOUS
<1>3. w \in ProjectRec /\ w.pc = pc /\ w.row = rec[p].row /\ w.todo = rec[p].todo
  BY <1>1, <1>2 DEF ProjectRec
<1>4. Becomes(p, w) /\ w \in Pass
  BY <1>2, <1>3, PassKinds DEF To, Becomes
<1> QED
  BY <1>2, <1>3, <1>4, Steps

(* A save stores the row in hand, or ends the pass. *)
LEMMA Saves ==
  ASSUME TypeOK, NEW p \in Reconcilers, rec[p].pc \in OnProject, NEW row \in Project,
         NEW next \in OnProject \cup {"end"}, Save(p, row, next)
  PROVE  /\ rec' \in [Reconcilers -> Pass]
         /\ project' \in Project /\ overwritten' \in BOOLEAN /\ (overwritten => overwritten')
         /\ overwritten' \/ project'.quota = project.quota
         /\ \/ /\ project.status = rec[p].row.status /\ project' = row
               /\ \/ next = "end" /\ rec'[p] = Idle
                  \/ next # "end" /\ rec'[p] \in ProjectRec /\ rec'[p].pc = next /\ rec'[p].row = row
            \/ rec'[p] = Idle /\ project' = project
         /\ \A q \in Reconcilers \ {p} : rec'[q] = rec[q]
<1>1. rec[p] \in ProjectRec
  BY PassKinds
<1>2. CASE project.status = rec[p].row.status /\ Stored(p, row)
           /\ rec' = [rec EXCEPT ![p] = IF next = "end" THEN Idle ELSE [@ EXCEPT !.pc = next, !.row = row]]
  <2>1. project' \in Project /\ overwritten' \in BOOLEAN /\ (overwritten => overwritten')
        /\ (overwritten' \/ project'.quota = project.quota) /\ project' = row
    BY <1>2 DEF Stored, TypeOK
  <2>2. CASE next = "end"
    <3>1. Stop(p)
      BY <1>2, <2>2 DEF Stop
    <3> QED
      BY <1>2, <2>1, <2>2, <3>1, Ends
  <2>3. CASE next # "end"
    <3>1. PICK w : w = [rec[p] EXCEPT !.pc = next, !.row = row]
      OBVIOUS
    <3>2. w \in ProjectRec /\ w.pc = next /\ w.row = row
      BY <1>1, <2>3, <3>1 DEF ProjectRec
    <3>3. Becomes(p, w) /\ w \in Pass
      BY <1>2, <2>3, <3>1, <3>2, PassKinds DEF Becomes
    <3> QED
      BY <1>2, <2>1, <2>3, <3>2, <3>3, Steps
  <2> QED
    BY <2>2, <2>3
<1>3. CASE Stop(p) /\ UNCHANGED <<project, overwritten>>
  BY <1>3, Ends DEF TypeOK
<1> QED
  BY <1>2, <1>3 DEF Save

(* What the namespace may become. *)
LEMMA NsType ==
  ASSUME TypeOK
  PROVE  /\ \A k \in Kinds, v \in {"missing", "drifted", "foreign", "good"} : [ns EXCEPT !.obj[k] = v] \in Namespace
         /\ \A k \in Kinds, h \in 0 .. MaxQuota : [ns EXCEPT !.obj[k] = "good", !.hard = h] \in Namespace
         /\ \A s \in {"absent", "active", "terminating"} : [ns EXCEPT !.state = s] \in Namespace
         /\ NoNamespace \in Namespace /\ Foreign \in Namespace
         /\ [NoNamespace EXCEPT !.state = "active", !.ours = TRUE, !.obj["labels"] = "good"] \in Namespace
<1>1. ns \in Namespace /\ 0 \in 0 .. MaxQuota /\ "labels" \in Kinds
  BY ProjectsAssumption DEF TypeOK, Kinds
<1>2. NoNamespace \in Namespace
  BY <1>1 DEF NoNamespace, Namespace
<1>3. ASSUME NEW k \in Kinds, NEW v \in {"missing", "drifted", "foreign", "good"}, NEW h \in 0 .. MaxQuota
      PROVE  [ns EXCEPT !.obj[k] = v] \in Namespace /\ [ns EXCEPT !.obj[k] = v, !.hard = h] \in Namespace
  <2>1. PICK o : o = [ns.obj EXCEPT ![k] = v]
    OBVIOUS
  <2>2. o \in [Kinds -> {"missing", "drifted", "foreign", "good"}]
    BY <1>1, <2>1 DEF Namespace
  <2>3. [ns EXCEPT !.obj[k] = v] = [ns EXCEPT !.obj = o]
    BY <2>1
  <2>4. [ns EXCEPT !.obj[k] = v, !.hard = h] = [ns EXCEPT !.obj = o, !.hard = h]
    BY <2>1
  <2>5. [ns EXCEPT !.obj = o] \in Namespace /\ [ns EXCEPT !.obj = o, !.hard = h] \in Namespace
    BY <1>1, <2>2 DEF Namespace
  <2> QED
    BY <2>3, <2>4, <2>5
<1>4. PICK l : l = [NoNamespace.obj EXCEPT !["labels"] = "good"]
  OBVIOUS
<1>5. l \in [Kinds -> {"missing", "drifted", "foreign", "good"}]
  BY <1>1, <1>2, <1>4 DEF Namespace
<1>6. [NoNamespace EXCEPT !.state = "active", !.ours = TRUE, !.obj["labels"] = "good"]
      = [NoNamespace EXCEPT !.state = "active", !.ours = TRUE, !.obj = l]
  BY <1>4
<1>7. [NoNamespace EXCEPT !.state = "active", !.ours = TRUE, !.obj = l] \in Namespace
  BY <1>2, <1>5 DEF Namespace
<1>8. Foreign \in Namespace
  BY <1>1, <1>2 DEF Namespace, Foreign
<1>9. ASSUME NEW s \in {"absent", "active", "terminating"} PROVE [ns EXCEPT !.state = s] \in Namespace
  BY <1>1 DEF Namespace
<1> QED
  BY <1>1, <1>2, <1>3, <1>6, <1>7, <1>8, <1>9

(* The object apply writes next is one that differs. *)
LEMMA NextIs == ASSUME NEW K \in SUBSET Kinds, K # {} PROVE NextKind(K) \in K
<1> DEFINE P(i) == i \in DOMAIN Order /\ Order[i] \in K /\ \A j \in 1 .. i - 1 : Order[j] \notin K
<1>1. Len(Order) = 4 /\ DOMAIN Order = {1, 2, 3, 4} /\ Order[1] = "labels" /\ Order[2] = "bindings"
      /\ Order[3] = "quota" /\ Order[4] = "others"
  BY DEF Order
<1>2. \E i \in {1, 2, 3, 4} : Order[i] \in K
  BY <1>1 DEF Kinds
<1>3. \E i : P(i)
  <2>1. CASE Order[1] \in K
    BY <1>1, <2>1
  <2>2. CASE Order[1] \notin K /\ Order[2] \in K
    BY <1>1, <2>2
  <2>3. CASE Order[1] \notin K /\ Order[2] \notin K /\ Order[3] \in K
    BY <1>1, <2>3
  <2>4. CASE Order[1] \notin K /\ Order[2] \notin K /\ Order[3] \notin K /\ Order[4] \in K
    BY <1>1, <2>4
  <2> QED
    BY <1>2, <2>1, <2>2, <2>3, <2>4
<1>4. PICK i : i \in DOMAIN Order /\ Order[i] \in K /\ \A j \in 1 .. i - 1 : Order[j] \notin K
  BY <1>3
<1>5. (CHOOSE x \in DOMAIN Order : Order[x] \in K /\ \A j \in 1 .. x - 1 : Order[j] \notin K) \in DOMAIN Order
      /\ Order[CHOOSE x \in DOMAIN Order : Order[x] \in K /\ \A j \in 1 .. x - 1 : Order[j] \notin K] \in K
  BY <1>4
<1> QED
  BY <1>5 DEF NextKind

(* What a request does to the deployments. *)
LEMMA DepType ==
  ASSUME TypeOK, NEW d \in Deployments, NEW w \in Deployment, dep' = [dep EXCEPT ![d] = w]
  PROVE  dep' \in [Deployments -> Deployment] /\ dep'[d] = w /\ \A e \in Deployments \ {d} : dep'[e] = dep[e]
  BY DEF TypeOK

(* A request that takes or leaves its transaction. *)
LEMMA ReqType ==
  ASSUME TypeOK, NEW c \in Clients, NEW w \in Request, req' = [req EXCEPT ![c] = w]
  PROVE  req' \in [Clients -> Request]
  BY DEF TypeOK

(* The bounds keep their range. *)
LEMMA Bounded ==
  ASSUME TypeOK
  PROVE  (Call => calls' \in 0 .. MaxCalls) /\ (Fault => faults' \in 0 .. MaxFaults)
  BY ProjectsAssumption DEF TypeOK, Call, Fault

(* What a transaction that is open will commit. *)
LEMMA RequestType ==
  ASSUME TypeOK, NEW c \in Clients
  PROVE  /\ req[c].op = "quota" => req[c].quota \in 0 .. MaxQuota
         /\ req[c].op \in {"desire", "canary"} => req[c].dep \in Deployments /\ req[c].rev \in Revisions
         /\ Quiet \in Request
  BY DEF TypeOK, Request, Quiet

(* Requests keep the types. *)
LEMMA RequestsType == ASSUME TypeOK, Requests PROVE TypeOK'
<1>1. CASE RequestDelete
  <2>1. project' \in Project
    BY <1>1 DEF RequestDelete, TypeOK, Project, ProjectStatus
  <2> QED
    BY <1>1, <2>1, Bounded DEF RequestDelete, TypeOK, history
<1>2. ASSUME NEW c \in Clients, QuotaCommit(c) PROVE TypeOK'
  <2>1. project' \in Project
    BY <1>2, RequestType DEF QuotaCommit, TypeOK, Project
  <2>2. req' \in [Clients -> Request]
    BY <1>2, RequestType, ReqType DEF QuotaCommit, End
  <2> QED
    BY <1>2, <2>1, <2>2 DEF QuotaCommit, TypeOK, bounds
<1>3. ASSUME NEW c \in Clients, DesireCommit(c) PROVE TypeOK'
  <2>1. PICK d \in Deployments, r \in Revisions : d = req[c].dep /\ r = req[c].rev
    BY <1>3, RequestType DEF DesireCommit
  <2>2. PICK w : w = [dep[d] EXCEPT !.desired = {r}, !.status = "DEPLOYING"]
    OBVIOUS
  <2>3. w \in Deployment
    BY <2>2 DEF TypeOK, Deployment, DeploymentStatus
  <2>4. dep' = [dep EXCEPT ![d] = w]
    BY <1>3, <2>1, <2>2 DEF DesireCommit, TypeOK
  <2>5. dep' \in [Deployments -> Deployment]
    BY <2>3, <2>4, DepType
  <2>6. req' \in [Clients -> Request]
    BY <1>3, RequestType, ReqType DEF DesireCommit, End
  <2> QED
    BY <1>3, <2>5, <2>6 DEF DesireCommit, TypeOK, bounds, history
<1>4. ASSUME NEW c \in Clients, CanaryCommit(c) PROVE TypeOK'
  <2>1. PICK d \in Deployments, r \in Revisions : d = req[c].dep /\ r = req[c].rev
    BY <1>4, RequestType DEF CanaryCommit
  <2>2. PICK w : w = [dep[d] EXCEPT !.canary = {r}, !.stable = @ \cup dep[d].active]
    OBVIOUS
  <2>3. w \in Deployment
    BY <2>2 DEF TypeOK, Deployment
  <2>4. dep' = [dep EXCEPT ![d] = w]
    BY <1>4, <2>1, <2>2 DEF CanaryCommit, TypeOK
  <2>5. dep' \in [Deployments -> Deployment]
    BY <2>3, <2>4, DepType
  <2>6. req' \in [Clients -> Request]
    BY <1>4, RequestType, ReqType DEF CanaryCommit, End
  <2> QED
    BY <1>4, <2>5, <2>6 DEF CanaryCommit, TypeOK, bounds, history
<1>5. ASSUME NEW c \in Clients, NEW q \in 0 .. MaxQuota, QuotaRead(c, q) PROVE TypeOK'
  <2>1. [op |-> "quota", quota |-> q] \in Request
    BY DEF Request
  <2>2. req' \in [Clients -> Request]
    BY <1>5, <2>1, ReqType DEF QuotaRead, Begin
  <2> QED
    BY <1>5, <2>2, Bounded DEF QuotaRead, TypeOK, history
<1>6. ASSUME NEW c \in Clients, NEW d \in Deployments, NEW r \in Revisions,
             DeployRead(c, d, r) \/ RollbackRead(c, d, r) \/ CanaryRead(c, d, r)
      PROVE  TypeOK'
  <2>1. [op |-> "desire", dep |-> d, rev |-> r] \in Request /\ [op |-> "canary", dep |-> d, rev |-> r] \in Request
    BY DEF Request
  <2>2. req' \in [Clients -> Request]
    BY <1>6, <2>1, ReqType DEF DeployRead, RollbackRead, CanaryRead, Begin
  <2> QED
    BY <1>6, <2>2, Bounded DEF DeployRead, RollbackRead, CanaryRead, TypeOK, history
<1>7. ASSUME NEW d \in Deployments, CreateDeployment(d) \/ DeleteDeployment(d) PROVE TypeOK'
  <2>1. PICK s \in {"PENDING", "DELETING"} : dep' = [dep EXCEPT ![d].status = s]
    BY <1>7 DEF CreateDeployment, DeleteDeployment
  <2>2. PICK w : w = [dep[d] EXCEPT !.status = s]
    OBVIOUS
  <2>3. w \in Deployment
    BY <2>2 DEF TypeOK, Deployment, DeploymentStatus
  <2>4. dep' \in [Deployments -> Deployment]
    BY <2>1, <2>2, <2>3, DepType
  <2> QED
    BY <1>7, <2>4, Bounded DEF CreateDeployment, DeleteDeployment, TypeOK, history
<1> QED
  BY <1>1, <1>2, <1>3, <1>4, <1>5, <1>6, <1>7 DEF Requests

(* A save of the deployments pass. *)
LEMMA SavesDep ==
  ASSUME TypeOK, NEW p \in Reconcilers, NEW s \in DeploymentStatus, SaveDep(p, s)
  PROVE  /\ rec' \in [Reconcilers -> Pass] /\ rec'[p].pc \in {"idle", "settle"}
         /\ dep' \in [Deployments -> Deployment] /\ overwritten' \in BOOLEAN /\ (overwritten => overwritten')
         /\ overwritten' \/ \A d \in Deployments : Held(d)' \subseteq Held(d)
         /\ \A q \in Reconcilers \ {p} : rec'[q] = rec[q]
<1>1. rec[p] \in SettleRec
  BY PassKinds DEF SaveDep
<1>2. PICK d \in Deployments, row \in Deployment : d = rec[p].dep /\ row = rec[p].row
  BY <1>1 DEF SettleRec
<1>3. PICK t : t = Settled(row, s)
  OBVIOUS
<1>4. t \in Deployment /\ t.desired \subseteq row.desired /\ t.active \subseteq row.desired \cup row.active
  BY <1>3 DEF Settled, Deployment
<1>5. CASE dep[d].status = row.status
  <2>1. PICK w : w = [t EXCEPT !.canary = dep[d].canary, !.stable = dep[d].stable]
    OBVIOUS
  <2>2. w \in Deployment /\ w.desired = t.desired /\ w.active = t.active /\ w.canary = dep[d].canary
        /\ w.stable = dep[d].stable
    BY <1>4, <2>1 DEF TypeOK, Deployment
  <2>3. dep' = [dep EXCEPT ![d] = w]
        /\ overwritten' = (overwritten \/ dep[d].desired # row.desired \/ dep[d].active # row.active)
    BY <1>2, <1>3, <1>5, <2>1 DEF SaveDep
  <2>4. PICK v : v = [rec[p] EXCEPT !.row = t]
    OBVIOUS
  <2>5. v \in Pass /\ v.pc = "settle"
    BY <1>1, <1>4, <2>4, PassKinds DEF SettleRec
  <2>6. Becomes(p, v)
    BY <1>2, <1>3, <1>5, <2>4 DEF SaveDep, Becomes
  <2>7. dep' \in [Deployments -> Deployment] /\ dep'[d] = w /\ \A e \in Deployments \ {d} : dep'[e] = dep[e]
    BY <2>2, <2>3, DepType
  <2>8. overwritten' \/ \A e \in Deployments : Held(e)' \subseteq Held(e)
    BY <1>4, <2>2, <2>3, <2>7 DEF Held
  <2> QED
    BY <2>3, <2>5, <2>6, <2>7, <2>8, Steps DEF TypeOK
<1>6. CASE dep[d].status # row.status
  <2>1. Stop(p) /\ UNCHANGED <<dep, overwritten>>
    BY <1>2, <1>6 DEF SaveDep
  <2> QED
    BY <2>1, Ends DEF TypeOK, Idle, Held
<1> QED
  BY <1>5, <1>6

(* What a step of a pass may write. *)
LEMMA SavesProject ==
  ASSUME TypeOK, NEW p \in Reconcilers,
         MoveDrifted(p) \/ MoveProvisioning(p) \/ MoveReady(p) \/ MoveFailed(p) \/ MoveDeleted(p) \/ Note(p)
  PROVE  /\ rec' \in [Reconcilers -> Pass] /\ project' \in Project /\ overwritten' \in BOOLEAN
         /\ overwritten => overwritten'
         /\ overwritten' \/ project'.quota = project.quota
         /\ rec[p] \in ProjectRec
         /\ \A q \in Reconcilers \ {p} : rec'[q] = rec[q]
         /\ UNCHANGED <<ns, dep, req, bounds, disturbed>>
<1>0. rec[p].pc \in OnProject /\ rec[p] \in ProjectRec
  BY PassKinds DEF MoveDrifted, MoveProvisioning, MoveReady, MoveFailed, MoveDeleted, Note, OnProject
<1>1. ASSUME NEW s, NEW next \in OnProject \cup {"end"}, Move(p, s, next)
      PROVE  /\ rec' \in [Reconcilers -> Pass] /\ project' \in Project /\ overwritten' \in BOOLEAN
             /\ overwritten => overwritten'
             /\ overwritten' \/ project'.quota = project.quota
             /\ \A q \in Reconcilers \ {p} : rec'[q] = rec[q]
             /\ UNCHANGED <<ns, dep, req, bounds, disturbed>>
  <2>1. s \in ProjectStatus
    BY <1>1 DEF Move, ProjectEdges, ProjectStatus
  <2>2. PICK row : row = [rec[p].row EXCEPT !.status = s, !.noted = FALSE]
    OBVIOUS
  <2>3. row \in Project
    BY <1>0, <2>1, <2>2 DEF ProjectRec, Project
  <2>4. Save(p, row, next)
    BY <1>1, <2>2 DEF Move
  <2> QED
    BY <1>0, <2>3, <2>4, Saves DEF Save
<1>2. CASE Note(p)
  <2>2. PICK row : row = [rec[p].row EXCEPT !.noted = TRUE]
    OBVIOUS
  <2>3. row \in Project
    BY <1>0, <2>2 DEF ProjectRec, Project
  <2>4. Save(p, row, "end")
    BY <1>2, <2>2 DEF Note
  <2> QED
    BY <1>0, <2>3, <2>4, Saves DEF Save
<1>3. \E s : \E next \in OnProject \cup {"end"} : Move(p, s, next) \/ Note(p)
  BY DEF MoveDrifted, MoveProvisioning, MoveReady, MoveFailed, MoveDeleted, OnProject
<1> QED
  BY <1>0, <1>1, <1>2, <1>3

(* The steps of a pass that only look. *)
LEMMA Looks ==
  ASSUME TypeOK, NEW p \in Reconcilers, Load(p) \/ Observe(p) \/ ApplyRefused(p) \/ CheckGone(p) \/ Verify(p)
  PROVE  /\ rec' \in [Reconcilers -> Pass] /\ disturbed' \in BOOLEAN
         /\ \A q \in Reconcilers \ {p} : rec'[q] = rec[q]
         /\ UNCHANGED <<project, ns, dep, req, bounds, overwritten>>
<1>1. CASE Load(p)
  <2>1. FirstStep[project.status] \in OnProject
    BY DEF TypeOK, Project, FirstStep, OnProject
  <2>2. PICK w : w = [pc |-> FirstStep[project.status], row |-> project, todo |-> {}]
    OBVIOUS
  <2>3. w \in ProjectRec
    BY <2>1, <2>2 DEF ProjectRec, TypeOK
  <2>4. w \in Pass /\ Becomes(p, w)
    BY <1>1, <2>2, <2>3, PassKinds DEF Load, Becomes
  <2> QED
    BY <1>1, <2>4, Steps DEF Load, TypeOK, history
<1>2. CASE Observe(p) \/ ApplyRefused(p) \/ CheckGone(p) \/ Verify(p)
  <2>1. rec[p].pc \in OnProject
    BY <1>2 DEF Observe, ApplyRefused, CheckGone, Verify, OnProject
  <2>2. Stop(p) \/ To(p, "drifted") \/ To(p, "failed") \/ To(p, "deleted") \/ To(p, "ready")
    BY <1>2 DEF Observe, ApplyRefused, CheckGone, Verify
  <2>3. {"drifted", "failed", "deleted", "ready"} \subseteq OnProject
    BY DEF OnProject
  <2>4. rec' \in [Reconcilers -> Pass] /\ \A q \in Reconcilers \ {p} : rec'[q] = rec[q]
    BY <2>1, <2>2, <2>3, Ends, GoesOn
  <2>5. disturbed' \in BOOLEAN
    BY <1>2 DEF Observe, ApplyRefused, CheckGone, Verify, TypeOK, history
  <2> QED
    BY <1>2, <2>4, <2>5 DEF Observe, ApplyRefused, CheckGone, Verify, history
<1> QED
  BY <1>1, <1>2

(* The steps that write the namespace. *)
LEMMA Applies ==
  ASSUME TypeOK, NEW p \in Reconcilers, ApplyNamespace(p)
  PROVE  /\ rec' \in [Reconcilers -> Pass] /\ ns' \in Namespace
         /\ rec'[p] \in ProjectRec /\ rec'[p].pc = "upsert" /\ rec'[p].row = rec[p].row
         /\ ns'.state = "active" /\ ns'.ours
         /\ \A q \in Reconcilers \ {p} : rec'[q] = rec[q]
<1>1. rec[p] \in ProjectRec
  BY PassKinds DEF ApplyNamespace, OnProject
<1>2. ns' \in Namespace /\ ns'.state = "active" /\ ns'.ours
  <2>1. CASE ns' = [NoNamespace EXCEPT !.state = "active", !.ours = TRUE, !.obj["labels"] = "good"]
    <3>1. ns' \in Namespace
      BY <2>1, NsType, ProjectsAssumption DEF TypeOK, Kinds
    <3>2. ns'.state = "active" /\ ns'.ours
      BY <2>1 DEF NoNamespace
    <3> QED
      BY <3>1, <3>2
  <2>2. CASE ns.state = "active" /\ ns.ours /\ ns' = [ns EXCEPT !.obj["labels"] = "good"]
    <3>1. ns' \in Namespace
      BY <2>2, NsType, ProjectsAssumption DEF TypeOK, Kinds
    <3>2. ns'.state = "active" /\ ns'.ours
      BY <2>2 DEF TypeOK, Namespace
    <3> QED
      BY <3>1, <3>2
  <2> QED
    BY <2>1, <2>2 DEF ApplyNamespace
<1>3. PICK K : K = { k \in Kinds : ns'.obj[k] # "good" \/ (k = "quota" /\ ns'.hard # rec[p].row.quota) }
  OBVIOUS
<1>4. PICK w : w = [rec[p] EXCEPT !.pc = "upsert", !.todo = K]
  OBVIOUS
<1>5. w \in ProjectRec /\ w.pc = "upsert" /\ w.row = rec[p].row
  BY <1>1, <1>3, <1>4 DEF ProjectRec, OnProject
<1>6. Becomes(p, w) /\ w \in Pass
  BY <1>3, <1>4, <1>5, PassKinds DEF ApplyNamespace, Becomes
<1> QED
  BY <1>2, <1>5, <1>6, Steps

(* The object that apply writes. *)
LEMMA Upserts ==
  ASSUME TypeOK, NEW p \in Reconcilers, Upsert(p)
  PROVE  /\ rec' \in [Reconcilers -> Pass] /\ ns' \in Namespace
         /\ rec'[p] \in ProjectRec /\ rec'[p].pc \in {"upsert", "failed"} /\ rec'[p].row = rec[p].row
         /\ ns'.state = ns.state /\ ns'.ours = ns.ours
         /\ \A q \in Reconcilers \ {p} : rec'[q] = rec[q]
<1>1. rec[p] \in ProjectRec /\ rec[p].pc \in OnProject
  BY PassKinds DEF Upsert, OnProject
<1>2. PICK k \in Kinds : k = NextKind(rec[p].todo)
  BY <1>1, NextIs DEF Upsert, ProjectRec
<1>3. CASE ns.state = "active" /\ ns.obj[k] # "foreign"
  <2>1. PICK h \in 0 .. MaxQuota : h = IF k = "quota" THEN rec[p].row.quota ELSE ns.hard
    BY <1>1 DEF TypeOK, Namespace, ProjectRec, Project
  <2>2. ns' = [ns EXCEPT !.obj[k] = "good", !.hard = h]
    BY <1>2, <1>3, <2>1 DEF Upsert
  <2>3. ns' \in Namespace /\ ns'.state = ns.state /\ ns'.ours = ns.ours
    <3>1. ns' \in Namespace
      BY <2>2, NsType
    <3> QED
      BY <2>2, <3>1 DEF TypeOK, Namespace
  <2>4. PICK w : w = [rec[p] EXCEPT !.todo = @ \ {k}]
    OBVIOUS
  <2>5. w \in ProjectRec /\ w.pc = "upsert" /\ w.row = rec[p].row
    BY <1>1, <2>4 DEF ProjectRec, Upsert
  <2>6. Becomes(p, w) /\ w \in Pass
    BY <1>2, <1>3, <2>4, <2>5, PassKinds DEF Upsert, Becomes
  <2> QED
    BY <2>3, <2>5, <2>6, Steps
<1>4. CASE ~(ns.state = "active" /\ ns.obj[k] # "foreign")
  <2>1. To(p, "failed") /\ UNCHANGED ns
    BY <1>2, <1>4 DEF Upsert
  <2>2. "failed" \in OnProject
    BY DEF OnProject
  <2> QED
    BY <1>1, <2>1, <2>2, GoesOn DEF TypeOK
<1> QED
  BY <1>3, <1>4

(* The removal of the namespace, never of one that is not the project's. *)
LEMMA Removes ==
  ASSUME TypeOK, NEW p \in Reconcilers, DeleteNamespace(p)
  PROVE  /\ rec' \in [Reconcilers -> Pass] /\ ns' \in Namespace
         /\ \/ rec'[p] = Idle
            \/ rec'[p] \in ProjectRec /\ rec'[p].pc \in {"gone", "note"} /\ rec'[p].row = rec[p].row
         /\ ns'.ours = ns.ours
         /\ UNCHANGED ns \/ (ns.state = "active" /\ ns'.state = "terminating" /\ ns.ours)
         /\ \A q \in Reconcilers \ {p} : rec'[q] = rec[q]
<1>1. rec[p] \in ProjectRec /\ rec[p].pc \in OnProject
  BY PassKinds DEF DeleteNamespace, OnProject
<1>2. To(p, "gone") \/ To(p, "note") \/ Stop(p)
  BY DEF DeleteNamespace
<1>3. "gone" \in OnProject /\ "note" \in OnProject
  BY DEF OnProject
<1>4. /\ rec' \in [Reconcilers -> Pass] /\ \A q \in Reconcilers \ {p} : rec'[q] = rec[q]
      /\ \/ rec'[p] = Idle
         \/ rec'[p] \in ProjectRec /\ rec'[p].pc \in {"gone", "note"} /\ rec'[p].row = rec[p].row
  BY <1>1, <1>2, <1>3, Ends, GoesOn
<1>5. UNCHANGED ns \/ (ns.state = "active" /\ ns.ours /\ ns' = [ns EXCEPT !.state = "terminating"])
  BY DEF DeleteNamespace
<1>6. ns' \in Namespace
  BY <1>5, NsType, ProjectsAssumption DEF TypeOK, Kinds
<1> QED
  BY <1>4, <1>5, <1>6 DEF TypeOK, Namespace

(* The pass over the project keeps the types. *)
LEMMA ProjectPassType == ASSUME TypeOK, NEW p \in Reconcilers, Load(p) \/ ProjectPass(p) PROVE TypeOK'
<1>1. CASE MoveDrifted(p) \/ MoveProvisioning(p) \/ MoveReady(p) \/ MoveFailed(p) \/ MoveDeleted(p) \/ Note(p)
  BY <1>1, SavesProject DEF TypeOK, bounds
<1>2. CASE Load(p) \/ Observe(p) \/ ApplyRefused(p) \/ CheckGone(p) \/ Verify(p)
  <2>1. /\ rec' \in [Reconcilers -> Pass] /\ disturbed' \in BOOLEAN
        /\ UNCHANGED <<project, ns, dep, req, bounds, overwritten>>
    BY <1>2, Looks
  <2> QED
    BY <2>1 DEF TypeOK, bounds
<1>3. CASE ApplyNamespace(p)
  <2>1. UNCHANGED <<project, dep, req, bounds, history>>
    BY <1>3 DEF ApplyNamespace
  <2> QED
    BY <1>3, <2>1, Applies DEF TypeOK, bounds, history
<1>4. CASE Upsert(p)
  <2>1. UNCHANGED <<project, dep, req, bounds, history>>
    BY <1>4 DEF Upsert
  <2> QED
    BY <1>4, <2>1, Upserts DEF TypeOK, bounds, history
<1>5. CASE DeleteNamespace(p)
  <2>1. UNCHANGED <<project, dep, req, bounds, history>>
    BY <1>5 DEF DeleteNamespace
  <2> QED
    BY <1>5, <2>1, Removes DEF TypeOK, bounds, history
<1> QED
  BY <1>1, <1>2, <1>3, <1>4, <1>5 DEF ProjectPass

(* The end of a rollout gives GPUs back and takes none. *)
LEMMA RolloutsEnd ==
  ASSUME TypeOK, NEW d \in Deployments, RolloutSucceeds(d) \/ RolloutRolledBack(d)
  PROVE  dep' \in [Deployments -> Deployment] /\ \A e \in Deployments : Held(e)' \subseteq Held(e)
<1>1. PICK w : \/ w = [dep[d] EXCEPT !.desired = dep[d].canary, !.active = dep[d].canary, !.canary = {}, !.stable = {}]
                  /\ RolloutSucceeds(d)
               \/ w = [dep[d] EXCEPT !.canary = {}, !.stable = {}] /\ RolloutRolledBack(d)
  OBVIOUS
<1>2. w \in Deployment /\ dep' = [dep EXCEPT ![d] = w]
  BY <1>1 DEF RolloutSucceeds, RolloutRolledBack, TypeOK, Deployment
<1>3. dep' \in [Deployments -> Deployment] /\ dep'[d] = w /\ \A e \in Deployments \ {d} : dep'[e] = dep[e]
  BY <1>2, DepType
<1>4. w.desired \cup w.active \cup w.stable \cup w.canary \subseteq Held(d)
  BY <1>1 DEF TypeOK, Deployment, Held
<1> QED
  BY <1>3, <1>4 DEF Held

(* The passes keep the types. *)
LEMMA PassesType == ASSUME TypeOK, Passes PROVE TypeOK'
<1>1. ASSUME NEW p \in Reconcilers, Load(p) \/ ProjectPass(p) PROVE TypeOK'
  BY <1>1, ProjectPassType
<1>2. ASSUME NEW p \in Reconcilers, LeaveDep(p) PROVE TypeOK'
  BY <1>2, Ends DEF LeaveDep, TypeOK, bounds, history
<1>3. ASSUME NEW p \in Reconcilers, NEW d \in Deployments, LoadDep(p, d) PROVE TypeOK'
  <2>1. PICK w : w = [pc |-> "settle", dep |-> d, row |-> dep[d]]
    OBVIOUS
  <2>2. w \in SettleRec
    BY <2>1 DEF SettleRec, TypeOK
  <2>3. Becomes(p, w) /\ w \in Pass
    BY <1>3, <2>1, <2>2, PassKinds DEF LoadDep, Becomes
  <2> QED
    BY <1>3, <2>3, Steps DEF LoadDep, TypeOK, bounds, history
<1>4. ASSUME NEW p \in Reconcilers, NEW s \in DeploymentStatus, SaveDep(p, s) PROVE TypeOK'
  <2>1. UNCHANGED <<project, ns, req, bounds, disturbed>>
    BY <1>4 DEF SaveDep
  <2> QED
    BY <1>4, <2>1, SavesDep DEF TypeOK, bounds
<1>5. ASSUME NEW d \in Deployments, RolloutSucceeds(d) \/ RolloutRolledBack(d) PROVE TypeOK'
  <2>1. UNCHANGED <<project, ns, req, rec, bounds, history>>
    BY <1>5 DEF RolloutSucceeds, RolloutRolledBack
  <2> QED
    BY <1>5, <2>1, RolloutsEnd DEF TypeOK, bounds, history
<1> QED
  BY <1>1, <1>2, <1>3, <1>4, <1>5 DEF Passes

(* What happens to the namespace outside a pass. *)
LEMMA Disturbs ==
  ASSUME TypeOK,
         NamespaceGone \/ NamespaceDeleted \/ NamespaceTaken
           \/ \E k \in Kinds, how \in {"missing", "drifted", "foreign"} : Edit(k, how)
  PROVE  /\ ns' \in Namespace /\ faults' \in 0 .. MaxFaults /\ disturbed' \in BOOLEAN
         /\ ns'.ours => ns.ours
         /\ disturbed => disturbed'
         /\ disturbed' \/ ns.state = "terminating"
         /\ ns'.state = "absent" => ~ns'.ours
         /\ faults' > faults \/ ns.state = "terminating"
         /\ UNCHANGED <<project, dep, req, rec, calls, overwritten>>
<1>1. CASE NamespaceGone
  <2>1. ns' \in Namespace /\ ~ns'.ours
    BY <1>1, ProjectsAssumption DEF NamespaceGone, NoNamespace, Namespace, TypeOK
  <2> QED
    BY <1>1, <2>1 DEF NamespaceGone, TypeOK, bounds, history
<1>2. CASE NamespaceDeleted
  <2>1. ns' \in Namespace
    BY <1>2 DEF NamespaceDeleted, Namespace, TypeOK
  <2>2. ns'.ours = ns.ours /\ ns'.state = "terminating"
    BY <1>2 DEF NamespaceDeleted, Namespace, TypeOK
  <2> QED
    BY <1>2, <2>1, <2>2, Bounded DEF NamespaceDeleted, Fault, TypeOK
<1>3. CASE NamespaceTaken
  <2>1. ns' \in Namespace /\ ~ns'.ours /\ ns'.state = "active"
    BY <1>3, NsType DEF NamespaceTaken, Foreign, NoNamespace, Namespace, TypeOK
  <2> QED
    BY <1>3, <2>1, Bounded DEF NamespaceTaken, Fault, TypeOK
<1>4. ASSUME NEW k \in Kinds, NEW how \in {"missing", "drifted", "foreign"}, Edit(k, how)
      PROVE  /\ ns' \in Namespace /\ faults' \in 0 .. MaxFaults /\ disturbed' \in BOOLEAN
             /\ ns'.ours => ns.ours
             /\ disturbed => disturbed'
             /\ disturbed' \/ ns.state = "terminating"
             /\ ns'.state = "absent" => ~ns'.ours
             /\ faults' > faults \/ ns.state = "terminating"
             /\ UNCHANGED <<project, dep, req, rec, calls, overwritten>>
  <2>1. ns' \in Namespace
    BY <1>4, NsType, ProjectsAssumption DEF Edit, TypeOK
  <2>2. ns'.ours = ns.ours /\ ns'.state = "active"
    BY <1>4 DEF Edit, Namespace, TypeOK
  <2> QED
    BY <1>4, <2>1, <2>2, Bounded DEF Edit, Fault, TypeOK
<1> QED
  BY <1>1, <1>2, <1>3, <1>4

(* A failed call and a crash. *)
LEMMA Breaks ==
  ASSUME TypeOK, NEW p \in Reconcilers, ApiError(p) \/ Crash(p)
  PROVE  /\ rec' \in [Reconcilers -> Pass] /\ faults' \in 0 .. MaxFaults
         /\ \/ rec'[p] = Idle
            \/ rec[p].pc \in {"apply", "upsert"} /\ rec'[p] \in ProjectRec /\ rec'[p].pc = "failed" /\ rec'[p].row = rec[p].row
         /\ \A q \in Reconcilers \ {p} : rec'[q] = rec[q]
         /\ UNCHANGED <<project, ns, dep, req, calls, history>>
<1>1. CASE ApiError(p)
  <2>1. rec[p].pc \in OnProject /\ "failed" \in OnProject
    BY <1>1 DEF ApiError, OnProject
  <2> QED
    BY <1>1, <2>1, GoesOn, Bounded DEF ApiError
<1>2. CASE Crash(p)
  BY <1>2, Ends, Bounded DEF Crash
<1> QED
  BY <1>1, <1>2

(* Every step keeps the types. *)
LEMMA TypeStep == ASSUME TypeOK, [Next]_vars PROVE TypeOK'
<1>1. CASE Requests
  BY <1>1, RequestsType
<1>2. CASE Passes
  BY <1>2, PassesType
<1>3. CASE Cluster
  <2>1. ASSUME NEW p \in Reconcilers, ApiError(p) \/ Crash(p) PROVE TypeOK'
    BY <2>1, Breaks DEF TypeOK, history
  <2>2. CASE NamespaceGone \/ NamespaceDeleted \/ NamespaceTaken
               \/ \E k \in Kinds, how \in {"missing", "drifted", "foreign"} : Edit(k, how)
    BY <2>2, Disturbs DEF TypeOK
  <2> QED
    BY <1>3, <2>1, <2>2 DEF Cluster
<1>4. CASE UNCHANGED vars
  BY <1>4 DEF vars, bounds, history, TypeOK
<1> QED
  BY <1>1, <1>2, <1>3, <1>4 DEF Next

-----------------------------------------------------------------------------
(* The quota. *)

(* Requests keep the deployments within the quota. *)
LEMMA QuotaRequests == ASSUME TypeOK, QuotaInv, Requests PROVE QuotaInv'
<1>1. CASE RequestDelete
  <2>1. project'.quota = project.quota /\ UNCHANGED <<dep, req, overwritten>>
    BY <1>1 DEF RequestDelete, TypeOK, Project, history
  <2> QED
    BY <2>1, Shrinks DEF Held
<1>2. ASSUME NEW c \in Clients, QuotaCommit(c) PROVE QuotaInv'
  <2>1. req[c] # Quiet /\ req[c].quota \in 0 .. MaxQuota
    BY <1>2, RequestType DEF QuotaCommit, Quiet
  <2>2. \A d \in Clients : req'[d] = Quiet
    BY <1>2, <2>1 DEF QuotaCommit, End, QuotaInv, OneLock, TypeOK
  <2>3. OneLock' /\ \A d \in Clients : Room(d)'
    BY <2>2 DEF OneLock, Room, Quiet
  <2>4. project'.quota = req[c].quota /\ UNCHANGED <<dep, overwritten>>
    BY <1>2 DEF QuotaCommit, TypeOK, Project
  <2>5. InUse(Deployments)' = InUse(Deployments)
    BY <2>4 DEF InUse, Taken, Held
  <2>6. overwritten \/ InUse(Deployments) <= req[c].quota
    BY <1>2 DEF QuotaInv, Room, QuotaCommit
  <2>7. QuotaHolds'
    BY <2>4, <2>5, <2>6 DEF QuotaHolds
  <2> QED
    BY <2>3, <2>7 DEF QuotaInv
<1>3. ASSUME NEW c \in Clients, DesireCommit(c) \/ CanaryCommit(c) PROVE QuotaInv'
  <2>1. req[c].op \in {"desire", "canary"} /\ End(c) /\ UNCHANGED <<project, overwritten>>
    BY <1>3 DEF DesireCommit, CanaryCommit, history
  <2>2. PICK e \in Deployments, r \in Revisions : e = req[c].dep /\ r = req[c].rev
    BY <2>1, RequestType
  <2>3. PICK w : \/ DesireCommit(c) /\ w = [dep[e] EXCEPT !.desired = {r}, !.status = "DEPLOYING"]
                 \/ CanaryCommit(c) /\ w = [dep[e] EXCEPT !.canary = {r}, !.stable = @ \cup dep[e].active]
    BY <1>3
  <2>4. dep' = [dep EXCEPT ![e] = w]
    BY <2>2, <2>3 DEF DesireCommit, CanaryCommit, TypeOK
  <2>5. dep'[e] = w /\ \A d \in Deployments \ {e} : dep'[d] = dep[d]
    BY <2>4 DEF TypeOK
  <2>6. w.desired \cup w.active \cup w.stable \cup w.canary \subseteq Held(e) \cup {r}
    BY <2>3 DEF TypeOK, Deployment, Held
  <2>7. \A d \in Deployments : Held(d)' \subseteq IF d = req[c].dep THEN Held(d) \cup {req[c].rev} ELSE Held(d)
    BY <2>2, <2>5, <2>6 DEF Held
  <2> QED
    BY <2>1, <2>7, Commits
<1>4. ASSUME NEW c \in Clients, NEW q \in 0 .. MaxQuota, QuotaRead(c, q) PROVE QuotaInv'
  <2>1. PICK r : r = [op |-> "quota", quota |-> q]
    OBVIOUS
  <2>2. r.op = "quota" /\ r.quota = q /\ Begin(c, r) /\ UNCHANGED <<project, dep, overwritten>>
    BY <1>4, <2>1 DEF QuotaRead, history
  <2>3. InUse(Deployments) \in Nat
    BY TakenFinite, FS_CardinalityType DEF InUse
  <2>4. InUse(Deployments) <= r.quota
    BY <1>4, <2>2, <2>3, ProjectsAssumption DEF QuotaRead
  <2> QED
    BY <2>2, <2>4, Begins
<1>5. ASSUME NEW c \in Clients, NEW d \in Deployments, NEW v \in Revisions,
             DeployRead(c, d, v) \/ RollbackRead(c, d, v) \/ CanaryRead(c, d, v)
      PROVE  QuotaInv'
  <2>1. PICK r : r.op \in {"desire", "canary"} /\ r.dep = d /\ r.rev = v /\ Begin(c, r)
    BY <1>5 DEF DeployRead, RollbackRead, CanaryRead
  <2>2. Fits(d, Held(d) \cup {v}) /\ UNCHANGED <<project, dep, overwritten>>
    BY <1>5 DEF DeployRead, RollbackRead, CanaryRead, history
  <2>3. \/ Units(d, {v}) = {}
        \/ Cardinality(Taken(Deployments) \cup Units(d, {v})) <= project.quota
    BY <2>2, FitsThen
  <2> QED
    BY <2>1, <2>2, <2>3, Begins
<1>6. ASSUME NEW d \in Deployments, CreateDeployment(d) \/ DeleteDeployment(d) PROVE QuotaInv'
  <2>1. PICK s : dep' = [dep EXCEPT ![d].status = s]
    BY <1>6 DEF CreateDeployment, DeleteDeployment
  <2>2. \A e \in Deployments : Held(e)' = Held(e)
    BY <2>1 DEF TypeOK, Deployment, Held
  <2> QED
    BY <1>6, <2>2, Shrinks DEF CreateDeployment, DeleteDeployment, history
<1> QED
  BY <1>1, <1>2, <1>3, <1>4, <1>5, <1>6 DEF Requests

(* So does every step; a pass that writes back a quota or a revision it     *)
(* had read before shows in overwritten.                                    *)
LEMMA QuotaStep == ASSUME TypeOK, QuotaInv, [Next]_vars PROVE QuotaInv'
<1>1. CASE Requests
  BY <1>1, QuotaRequests
<1>2. CASE Passes
  <2>1. ASSUME NEW p \in Reconcilers,
               MoveDrifted(p) \/ MoveProvisioning(p) \/ MoveReady(p) \/ MoveFailed(p) \/ MoveDeleted(p) \/ Note(p)
        PROVE  QuotaInv'
    <3>1. overwritten' \/ project'.quota = project.quota
      BY <2>1, SavesProject
    <3>2. UNCHANGED <<dep, req>> /\ (overwritten => overwritten')
      BY <2>1, SavesProject
    <3> QED
      BY <3>1, <3>2, Shrinks DEF Held
  <2>2. ASSUME NEW p \in Reconcilers, Load(p) \/ Observe(p) \/ ApplyRefused(p) \/ CheckGone(p) \/ Verify(p)
        PROVE  QuotaInv'
    <3>1. UNCHANGED <<project, dep, req, overwritten>>
      BY <2>2, Looks
    <3> QED
      BY <3>1, Shrinks DEF Held
  <2>3. ASSUME NEW p \in Reconcilers, ApplyNamespace(p) \/ Upsert(p) \/ DeleteNamespace(p) \/ LeaveDep(p)
        PROVE  QuotaInv'
    <3>1. UNCHANGED <<project, dep, req, overwritten>>
      BY <2>3 DEF ApplyNamespace, Upsert, DeleteNamespace, LeaveDep, history
    <3> QED
      BY <3>1, Shrinks DEF Held
  <2>4. ASSUME NEW p \in Reconcilers, NEW d \in Deployments, LoadDep(p, d) PROVE QuotaInv'
    <3>1. UNCHANGED <<project, dep, req, overwritten>>
      BY <2>4 DEF LoadDep, history
    <3> QED
      BY <3>1, Shrinks DEF Held
  <2>5. ASSUME NEW p \in Reconcilers, NEW s \in DeploymentStatus, SaveDep(p, s) PROVE QuotaInv'
    <3>1. UNCHANGED <<project, req>>
      BY <2>5 DEF SaveDep
    <3> QED
      BY <2>5, <3>1, SavesDep, Shrinks
  <2>6. ASSUME NEW d \in Deployments, RolloutSucceeds(d) \/ RolloutRolledBack(d) PROVE QuotaInv'
    <3>1. UNCHANGED <<project, req, overwritten>>
      BY <2>6 DEF RolloutSucceeds, RolloutRolledBack, history
    <3> QED
      BY <2>6, <3>1, RolloutsEnd, Shrinks
  <2> QED
    BY <1>2, <2>1, <2>2, <2>3, <2>4, <2>5, <2>6 DEF Passes, ProjectPass
<1>3. CASE Cluster
  <2>1. ASSUME NEW p \in Reconcilers, ApiError(p) \/ Crash(p) PROVE UNCHANGED <<project, dep, req, overwritten>>
    BY <2>1, Breaks DEF history
  <2>2. ASSUME NamespaceGone \/ NamespaceDeleted \/ NamespaceTaken
                 \/ \E k \in Kinds, how \in {"missing", "drifted", "foreign"} : Edit(k, how)
        PROVE  UNCHANGED <<project, dep, req, overwritten>>
    BY <2>2, Disturbs
  <2>3. UNCHANGED <<project, dep, req, overwritten>>
    BY <1>3, <2>1, <2>2 DEF Cluster
  <2> QED
    BY <2>3, Shrinks DEF Held
<1>4. CASE UNCHANGED vars
  <2>1. UNCHANGED <<project, dep, req, overwritten>>
    BY <1>4 DEF vars, history
  <2> QED
    BY <2>1, Shrinks DEF Held
<1> QED
  BY <1>1, <1>2, <1>3, <1>4 DEF Next

(* At the start nothing is held and nobody has the row. *)
LEMMA InitOK == ASSUME Init PROVE TypeOK /\ QuotaInv
<1>1. TypeOK
  <2>1. 0 \in 0 .. MaxQuota /\ 0 \in 0 .. MaxCalls /\ 0 \in 0 .. MaxFaults
    BY ProjectsAssumption
  <2>2. NoNamespace \in Namespace /\ Foreign \in Namespace /\ Provisioned(0) \in Namespace
    BY <2>1 DEF NoNamespace, Foreign, Provisioned, Namespace
  <2>3. NoDeployment \in Deployment /\ [NoDeployment EXCEPT !.status = "PENDING"] \in Deployment
    BY DEF NoDeployment, Deployment, DeploymentStatus
  <2>4. dep \in [Deployments -> Deployment] /\ ns \in Namespace
    BY <2>2, <2>3 DEF Init
  <2>5. project \in Project
    <3>1. PICK s \in {"PENDING", "READY"} : project = [status |-> s, quota |-> 0, noted |-> FALSE]
      BY DEF Init
    <3> QED
      BY <2>1, <3>1 DEF Project, ProjectStatus
  <2> QED
    BY <2>1, <2>4, <2>5 DEF Init, TypeOK, Request, Pass
<1>2. \A d \in Deployments : Held(d) = {}
  BY DEF Init, Held, NoDeployment
<1>3. Taken(Deployments) = {}
  BY <1>2 DEF Taken, Units
<1>4. InUse(Deployments) = 0
  BY <1>3, FS_EmptySet DEF InUse
<1>5. QuotaHolds
  <2>1. project.quota = 0
    BY DEF Init
  <2> QED
    BY <1>4, <2>1 DEF QuotaHolds
<1>6. OneLock /\ \A c \in Clients : Room(c)
  BY DEF Init, OneLock, Room, Quiet
<1> QED
  BY <1>1, <1>5, <1>6 DEF QuotaInv

(* However requests overlap and whoever reconciles, the deployments hold    *)
(* no more GPUs than the project was granted, until a pass writes back a    *)
(* row it had read before: set_gpu_quota, _deploy, rollback and             *)
(* RolloutService.start decide under the lock of the project row.           *)
THEOREM QuotaAlwaysHolds == Spec => []QuotaHolds
<1>1. TypeOK /\ QuotaInv /\ [Next]_vars => TypeOK' /\ QuotaInv'
  BY TypeStep, QuotaStep
<1>2. QuotaInv => QuotaHolds
  BY DEF QuotaInv
<1> QED
  BY InitOK, <1>1, <1>2, PTL DEF Spec

-----------------------------------------------------------------------------
(* The pass over the project. *)

(* Where a pass stands, and what it has seen of the namespace since. *)
PassOK(p) == rec[p].pc \in OnProject =>
  /\ project.status \in {rec[p].row.status, "DELETING"}
  /\ rec[p].pc \in {"observe", "drifted"} => rec[p].row.status = "READY"
  /\ rec[p].pc = "begin" => rec[p].row.status \in {"PENDING", "DRIFTED", "FAILED"}
  /\ rec[p].pc \in {"apply", "upsert", "verify", "ready", "failed"} => rec[p].row.status = "PROVISIONING"
  /\ rec[p].pc \in {"delete", "gone", "deleted", "note"} => rec[p].row.status = "DELETING"
  /\ rec[p].pc = "upsert" => disturbed \/ (ns.state = "active" /\ ns.ours)
  /\ rec[p].pc = "ready" => disturbed \/ (project.quota = rec[p].row.quota /\ Holds(rec[p].row.quota))
  /\ rec[p].pc = "deleted" => ~ns.ours

PassInv ==
  /\ ns.state = "absent" => ~ns.ours
  /\ ReadyIsReal /\ DeletedForGood
  /\ \A p \in Reconcilers : PassOK(p)

(* Nothing the passes look at changed, and the pass that moved ended, or left the project. *)
LEMMA Leaves ==
  ASSUME PassInv, UNCHANGED <<project, ns, disturbed>>,
         \A p \in Reconcilers : rec'[p].pc \notin OnProject \/ rec'[p] = rec[p]
  PROVE  PassInv'
<1>1. ReadyIsReal' /\ DeletedForGood' /\ (ns'.state = "absent" => ~ns'.ours)
  BY DEF PassInv, ReadyIsReal, DeletedForGood, Holds
<1>2. ASSUME NEW p \in Reconcilers PROVE PassOK(p)'
  BY DEF PassInv, PassOK, Holds
<1> QED
  BY <1>1, <1>2 DEF PassInv

LEMMA IdlePc == Idle.pc \notin OnProject
  BY DEF Idle, OnProject

(* A request that comes in between leaves the pass with a row to be         *)
(* refused, or disturbed.                                                   *)
LEMMA PassRequests == ASSUME TypeOK, PassInv, Requests PROVE PassInv'
<1>1. CASE RequestDelete
  <2>1. project'.status = "DELETING" /\ project'.quota = project.quota /\ UNCHANGED <<ns, rec, disturbed>>
    BY <1>1 DEF RequestDelete, TypeOK, Project, history
  <2>2. ReadyIsReal' /\ DeletedForGood' /\ (ns'.state = "absent" => ~ns'.ours)
    BY <2>1 DEF PassInv, ReadyIsReal, DeletedForGood
  <2>3. ASSUME NEW p \in Reconcilers PROVE PassOK(p)'
    BY <2>1 DEF PassInv, PassOK, Holds
  <2> QED
    BY <2>2, <2>3 DEF PassInv
<1>2. ASSUME NEW c \in Clients, QuotaCommit(c) PROVE PassInv'
  <2>1. project'.status = project.status /\ disturbed' /\ UNCHANGED <<ns, rec>>
    BY <1>2 DEF QuotaCommit, TypeOK, Project
  <2>2. ReadyIsReal' /\ DeletedForGood' /\ (ns'.state = "absent" => ~ns'.ours)
    BY <2>1 DEF PassInv, ReadyIsReal, DeletedForGood
  <2>3. ASSUME NEW p \in Reconcilers PROVE PassOK(p)'
    BY <2>1 DEF PassInv, PassOK
  <2> QED
    BY <2>2, <2>3 DEF PassInv
<1>3. CASE UNCHANGED <<project, ns, rec, disturbed>>
  BY <1>3, Leaves
<1> QED
  BY <1>1, <1>2, <1>3
  DEF Requests, DesireCommit, CanaryCommit, QuotaRead, DeployRead, RollbackRead, CanaryRead,
      CreateDeployment, DeleteDeployment, history

(* A write of the pass over the project: READY only after it saw the        *)
(* namespace hold what the row in hand asks for.                            *)
LEMMA PassSaves ==
  ASSUME TypeOK, PassInv, OneReconciler, NEW p \in Reconcilers,
         MoveDrifted(p) \/ MoveProvisioning(p) \/ MoveReady(p) \/ MoveFailed(p) \/ MoveDeleted(p) \/ Note(p)
  PROVE  PassInv'
<1>0. /\ rec[p] \in ProjectRec /\ PassOK(p) /\ UNCHANGED <<ns, disturbed>> /\ rec[p].pc \in OnProject
      /\ \A q \in Reconcilers : q = p
  BY SavesProject DEF PassInv, OneReconciler, ProjectRec
<1>1. PICK row \in Project, next \in {"begin", "apply", "end"} :
        /\ Save(p, row, next) /\ row.quota = rec[p].row.quota
        /\ \/ MoveDrifted(p) /\ row.status = "DRIFTED" /\ next = "begin"
           \/ MoveProvisioning(p) /\ row.status = "PROVISIONING" /\ next = "apply"
           \/ MoveReady(p) /\ row.status = "READY" /\ next = "end"
           \/ MoveFailed(p) /\ row.status = "FAILED" /\ next = "end"
           \/ MoveDeleted(p) /\ row.status = "DELETED" /\ next = "end"
           \/ Note(p) /\ row.status = rec[p].row.status /\ next = "end"
  <2>1. rec[p].row \in Project
    BY <1>0 DEF ProjectRec
  <2>2. ASSUME NEW s \in ProjectStatus
        PROVE  /\ [rec[p].row EXCEPT !.status = s, !.noted = FALSE] \in Project
               /\ [rec[p].row EXCEPT !.status = s, !.noted = FALSE].status = s
               /\ [rec[p].row EXCEPT !.status = s, !.noted = FALSE].quota = rec[p].row.quota
    BY <2>1 DEF Project
  <2>3. /\ [rec[p].row EXCEPT !.noted = TRUE] \in Project
        /\ [rec[p].row EXCEPT !.noted = TRUE].status = rec[p].row.status
        /\ [rec[p].row EXCEPT !.noted = TRUE].quota = rec[p].row.quota
    BY <2>1 DEF Project
  <2>4. {"DRIFTED", "PROVISIONING", "READY", "FAILED", "DELETED"} \subseteq ProjectStatus
    BY DEF ProjectStatus
  <2>5. CASE MoveDrifted(p)
    BY <2>2, <2>4, <2>5 DEF MoveDrifted, Move
  <2>6. CASE MoveProvisioning(p)
    BY <2>2, <2>4, <2>6 DEF MoveProvisioning, Move
  <2>7. CASE MoveReady(p)
    BY <2>2, <2>4, <2>7 DEF MoveReady, Move
  <2>8. CASE MoveFailed(p)
    BY <2>2, <2>4, <2>8 DEF MoveFailed, Move
  <2>9. CASE MoveDeleted(p)
    BY <2>2, <2>4, <2>9 DEF MoveDeleted, Move
  <2>10. CASE Note(p)
    BY <2>3, <2>10 DEF Note
  <2> QED
    BY <2>5, <2>6, <2>7, <2>8, <2>9, <2>10
<1>2. \/ /\ project.status = rec[p].row.status /\ project' = row
         /\ \/ next = "end" /\ rec'[p] = Idle
            \/ next # "end" /\ rec'[p] \in ProjectRec /\ rec'[p].pc = next /\ rec'[p].row = row
      \/ rec'[p] = Idle /\ project' = project
  <2>1. next \in OnProject \cup {"end"}
    BY <1>1 DEF OnProject
  <2> QED
    BY <1>0, <1>1, <2>1, Saves
<1>3. CASE rec'[p] = Idle /\ project' = project
  BY <1>0, <1>3, IdlePc, Leaves
<1>4. CASE /\ project.status = rec[p].row.status /\ project' = row
           /\ \/ next = "end" /\ rec'[p] = Idle
              \/ next # "end" /\ rec'[p] \in ProjectRec /\ rec'[p].pc = next /\ rec'[p].row = row
  <2>1. PassOK(p)'
    BY <1>1, <1>4, IdlePc DEF PassOK
  <2>2. ReadyIsReal'
    <3>1. CASE MoveReady(p)
      <4>1. disturbed \/ (project.quota = rec[p].row.quota /\ Holds(rec[p].row.quota))
        BY <1>0, <3>1 DEF PassOK, MoveReady
      <4> QED
        BY <1>0, <1>1, <1>4, <4>1 DEF ReadyIsReal, Holds
    <3>2. CASE ~MoveReady(p)
      <4>1. row.status # "READY"
        <5>1. CASE Note(p)
          <6>1. rec[p].row.status = "DELETING"
            BY <1>0, <5>1 DEF Note, PassOK
          <6> QED
            BY <1>1, <3>2, <6>1
        <5> QED
          BY <1>1, <3>2, <5>1
      <4> QED
        BY <1>4, <4>1 DEF ReadyIsReal
    <3> QED
      BY <3>1, <3>2
  <2>3. DeletedForGood'
    <3>1. CASE MoveDeleted(p)
      BY <1>0, <1>4, <3>1 DEF PassOK, MoveDeleted, DeletedForGood
    <3>2. CASE ~MoveDeleted(p)
      <4>1. row.status # "DELETED"
        <5>1. CASE Note(p)
          <6>1. rec[p].row.status = "DELETING"
            BY <1>0, <5>1 DEF Note, PassOK
          <6> QED
            BY <1>1, <3>2, <6>1
        <5> QED
          BY <1>1, <3>2, <5>1
      <4> QED
        BY <1>4, <4>1 DEF DeletedForGood
    <3> QED
      BY <3>1, <3>2
  <2> QED
    BY <1>0, <2>1, <2>2, <2>3 DEF PassInv
<1> QED
  BY <1>2, <1>3, <1>4

(* The steps that only look. *)
LEMMA PassLooks ==
  ASSUME TypeOK, PassInv, OneReconciler, NEW p \in Reconcilers,
         Load(p) \/ Observe(p) \/ ApplyRefused(p) \/ CheckGone(p) \/ Verify(p)
  PROVE  PassInv'
<1>0. PassOK(p) /\ UNCHANGED <<project, ns>> /\ \A q \in Reconcilers : q = p
  BY Looks DEF PassInv, OneReconciler
<1>1. CASE Load(p)
  <2>1. PICK w : w = [pc |-> FirstStep[project.status], row |-> project, todo |-> {}]
    OBVIOUS
  <2>2. rec'[p] = w /\ UNCHANGED disturbed /\ project.status # "DELETED"
    BY <1>1, <2>1 DEF Load, TypeOK, history
  <2>3. w.row = project /\ w.pc = FirstStep[project.status]
    BY <2>1
  <2>4. PassOK(p)'
    BY <1>0, <2>2, <2>3 DEF PassOK, FirstStep, TypeOK, Project, ProjectStatus
  <2> QED
    BY <1>0, <2>2, <2>4 DEF PassInv, ReadyIsReal, DeletedForGood, Holds
<1>2. CASE Observe(p) \/ ApplyRefused(p) \/ CheckGone(p)
  <2>1. UNCHANGED disturbed /\ rec[p].pc \in OnProject
    BY <1>2 DEF Observe, ApplyRefused, CheckGone, history, OnProject
  <2>2. \/ Stop(p)
        \/ Observe(p) /\ To(p, "drifted")
        \/ ApplyRefused(p) /\ To(p, "failed")
        \/ CheckGone(p) /\ To(p, "deleted") /\ ns.state = "absent"
    BY <1>2 DEF Observe, ApplyRefused, CheckGone
  <2>3. CASE Stop(p)
    <3>1. rec'[p] = Idle
      BY <2>3, Ends
    <3> QED
      BY <1>0, <2>1, <3>1, IdlePc, Leaves
  <2>4. ASSUME NEW pc \in {"drifted", "failed", "deleted"}, To(p, pc)
        PROVE  rec'[p].pc = pc /\ rec'[p].row = rec[p].row
    <3>1. pc \in OnProject
      BY DEF OnProject
    <3> QED
      BY <2>1, <2>4, <3>1, GoesOn
  <2>5. CASE ~Stop(p)
    <3>1. PassOK(p)'
      BY <1>0, <2>1, <2>2, <2>4, <2>5 DEF PassOK, PassInv, Observe, ApplyRefused, CheckGone
    <3> QED
      BY <1>0, <2>1, <3>1 DEF PassInv, ReadyIsReal, DeletedForGood, Holds
  <2> QED
    BY <2>3, <2>5
<1>3. CASE Verify(p)
  <2>1. rec[p].pc = "upsert" /\ rec[p].pc \in OnProject /\ "ready" \in OnProject /\ "failed" \in OnProject
    BY <1>3 DEF Verify, OnProject
  <2>2. project.status \in {"PROVISIONING", "DELETING"} /\ rec[p].row.status = "PROVISIONING"
    BY <1>0, <2>1 DEF PassOK
  <2>3. ReadyIsReal' /\ DeletedForGood'
    BY <1>0, <2>2 DEF ReadyIsReal, DeletedForGood
  <2>4. CASE Converged(rec[p].row.quota)
    <3>1. rec'[p].pc = "ready" /\ rec'[p].row = rec[p].row /\ disturbed' = (project.quota # rec[p].row.quota)
      BY <1>3, <2>1, <2>4, GoesOn DEF Verify
    <3>2. Holds(rec[p].row.quota)
      <4>1. "quota" \in Kinds
        BY DEF Kinds
      <4> QED
        BY <2>4, <4>1 DEF Converged, Drift, Holds
    <3>3. Holds(rec[p].row.quota)'
      BY <1>0, <3>1, <3>2 DEF Holds
    <3>4. PassOK(p)'
      BY <1>0, <2>2, <3>1, <3>3 DEF PassOK
    <3> QED
      BY <1>0, <2>3, <3>4 DEF PassInv
  <2>5. CASE ~Converged(rec[p].row.quota)
    <3>1. rec'[p].pc = "failed" /\ rec'[p].row = rec[p].row
      BY <1>3, <2>1, <2>5, GoesOn DEF Verify
    <3>2. PassOK(p)'
      BY <1>0, <2>2, <3>1 DEF PassOK
    <3> QED
      BY <1>0, <2>3, <3>2 DEF PassInv
  <2> QED
    BY <2>4, <2>5
<1> QED
  BY <1>1, <1>2, <1>3

(* The steps that write the namespace: the project is neither READY nor     *)
(* DELETED meanwhile.                                                       *)
LEMMA PassWrites ==
  ASSUME TypeOK, PassInv, OneReconciler, NEW p \in Reconcilers,
         ApplyNamespace(p) \/ Upsert(p) \/ DeleteNamespace(p)
  PROVE  PassInv'
<1>0. PassOK(p) /\ UNCHANGED <<project, disturbed>> /\ \A q \in Reconcilers : q = p
  BY DEF PassInv, OneReconciler, ApplyNamespace, Upsert, DeleteNamespace, history
<1>1. rec[p].pc \in {"apply", "upsert", "delete"} /\ rec[p].pc \in OnProject
  BY DEF ApplyNamespace, Upsert, DeleteNamespace, OnProject
<1>2. project.status \in {"PROVISIONING", "DELETING"}
  BY <1>0, <1>1 DEF PassOK
<1>3. ReadyIsReal' /\ DeletedForGood'
  BY <1>0, <1>2 DEF ReadyIsReal, DeletedForGood
<1>4. CASE ApplyNamespace(p)
  <2>1. rec[p].pc = "apply"
    BY <1>4 DEF ApplyNamespace
  <2>2. rec'[p].pc = "upsert" /\ rec'[p].row = rec[p].row /\ ns'.state = "active" /\ ns'.ours
    BY <1>4, Applies
  <2>3. PassOK(p)'
    BY <1>0, <2>1, <2>2 DEF PassOK, OnProject
  <2> QED
    BY <1>0, <1>3, <2>2, <2>3 DEF PassInv
<1>5. CASE Upsert(p)
  <2>1. rec[p].pc = "upsert"
    BY <1>5 DEF Upsert
  <2>2. rec'[p].pc \in {"upsert", "failed"} /\ rec'[p].row = rec[p].row /\ ns'.state = ns.state /\ ns'.ours = ns.ours
    BY <1>5, Upserts
  <2>3. PassOK(p)'
    BY <1>0, <2>1, <2>2 DEF PassOK, OnProject
  <2> QED
    BY <1>0, <1>3, <2>2, <2>3 DEF PassInv
<1>6. CASE DeleteNamespace(p)
  <2>1. rec[p].pc = "delete"
    BY <1>6 DEF DeleteNamespace
  <2>2. /\ rec'[p] = Idle \/ (rec'[p].pc \in {"gone", "note"} /\ rec'[p].row = rec[p].row)
        /\ ns'.ours = ns.ours
        /\ UNCHANGED ns \/ (ns.state = "active" /\ ns'.state = "terminating" /\ ns.ours)
    BY <1>6, Removes
  <2>3. PassOK(p)'
    BY <1>0, <2>1, <2>2, IdlePc DEF PassOK, OnProject
  <2>4. ns'.state = "absent" => ~ns'.ours
    BY <2>2 DEF PassInv
  <2> QED
    BY <1>0, <1>3, <2>3, <2>4 DEF PassInv
<1> QED
  BY <1>4, <1>5, <1>6

(* Every step keeps it. *)
LEMMA PassStep == ASSUME TypeOK, PassInv, OneReconciler, [Next]_vars PROVE PassInv'
<1>1. CASE Requests
  BY <1>1, PassRequests
<1>2. CASE Passes
  <2>1. ASSUME NEW p \in Reconcilers, Load(p) \/ ProjectPass(p) PROVE PassInv'
    BY <2>1, PassSaves, PassLooks, PassWrites DEF ProjectPass
  <2>2. ASSUME NEW p \in Reconcilers, NEW d \in Deployments, LoadDep(p, d) PROVE PassInv'
    <3>1. PICK w : w = [pc |-> "settle", dep |-> d, row |-> dep[d]]
      OBVIOUS
    <3>2. w.pc \notin OnProject
      BY <3>1 DEF OnProject
    <3>3. \A q \in Reconcilers : rec'[q] = IF q = p THEN w ELSE rec[q]
      BY <2>2, <3>1 DEF LoadDep, TypeOK
    <3> QED
      BY <2>2, <3>2, <3>3, Leaves DEF LoadDep, history
  <2>3. ASSUME NEW p \in Reconcilers, NEW s \in DeploymentStatus, SaveDep(p, s) PROVE PassInv'
    <3>1. UNCHANGED <<project, ns, disturbed>>
      BY <2>3 DEF SaveDep
    <3>2. rec'[p].pc \in {"idle", "settle"} /\ \A q \in Reconcilers \ {p} : rec'[q] = rec[q]
      BY <2>3, SavesDep
    <3>3. \A q \in Reconcilers : rec'[q].pc \notin OnProject \/ rec'[q] = rec[q]
      BY <3>2 DEF OnProject
    <3> QED
      BY <3>1, <3>3, Leaves
  <2>4. ASSUME NEW p \in Reconcilers, LeaveDep(p) PROVE PassInv'
    <3>1. UNCHANGED <<project, ns, disturbed>> /\ Stop(p)
      BY <2>4 DEF LeaveDep, history
    <3>2. rec'[p] = Idle /\ \A q \in Reconcilers \ {p} : rec'[q] = rec[q]
      BY <3>1, Ends
    <3> QED
      BY <3>1, <3>2, IdlePc, Leaves
  <2>5. ASSUME NEW d \in Deployments, RolloutSucceeds(d) \/ RolloutRolledBack(d) PROVE PassInv'
    BY <2>5, Leaves DEF RolloutSucceeds, RolloutRolledBack, history
  <2> QED
    BY <1>2, <2>1, <2>2, <2>3, <2>4, <2>5 DEF Passes
<1>3. CASE Cluster
  <2>1. ASSUME NEW p \in Reconcilers, ApiError(p) \/ Crash(p) PROVE PassInv'
    <3>1. /\ UNCHANGED <<project, ns, disturbed>> /\ \A q \in Reconcilers \ {p} : rec'[q] = rec[q]
          /\ \/ rec'[p] = Idle
             \/ rec[p].pc \in {"apply", "upsert"} /\ rec'[p].pc = "failed" /\ rec'[p].row = rec[p].row
      BY <2>1, Breaks DEF history
    <3>2. ASSUME NEW q \in Reconcilers PROVE PassOK(q)'
      <4>1. PassOK(q)
        BY DEF PassInv
      <4>2. CASE rec'[q] = rec[q]
        BY <3>1, <4>1, <4>2 DEF PassOK, Holds
      <4>3. CASE rec'[q] = Idle
        BY <4>3, IdlePc DEF PassOK
      <4>4. CASE rec[q].pc \in {"apply", "upsert"} /\ rec'[q].pc = "failed" /\ rec'[q].row = rec[q].row
        BY <3>1, <4>1, <4>4 DEF PassOK, OnProject
      <4> QED
        BY <3>1, <4>2, <4>3, <4>4
    <3> QED
      BY <3>1, <3>2 DEF PassInv, ReadyIsReal, DeletedForGood, Holds
  <2>2. ASSUME NamespaceGone \/ NamespaceDeleted \/ NamespaceTaken
                 \/ \E k \in Kinds, how \in {"missing", "drifted", "foreign"} : Edit(k, how)
        PROVE  PassInv'
    <3>1. /\ ns'.ours => ns.ours
          /\ disturbed => disturbed'
          /\ disturbed' \/ ns.state = "terminating"
          /\ ns'.state = "absent" => ~ns'.ours
          /\ UNCHANGED <<project, rec>>
      BY <2>2, Disturbs
    <3>2. ReadyIsReal' /\ DeletedForGood'
      BY <3>1 DEF PassInv, ReadyIsReal, DeletedForGood, Holds
    <3>3. ASSUME NEW p \in Reconcilers PROVE PassOK(p)'
      BY <3>1 DEF PassInv, PassOK, Holds
    <3> QED
      BY <3>1, <3>2, <3>3 DEF PassInv
  <2> QED
    BY <1>3, <2>1, <2>2 DEF Cluster
<1>4. CASE UNCHANGED vars
  BY <1>4, Leaves DEF vars, history
<1> QED
  BY <1>1, <1>2, <1>3, <1>4 DEF Next

(* It holds at the start. *)
LEMMA PassInit == ASSUME Init PROVE PassInv
<1>1. \A p \in Reconcilers : PassOK(p)
  BY IdlePc DEF Init, PassOK
<1>2. ns.state = "absent" => ~ns.ours
  BY DEF Init, NoNamespace, Foreign, Provisioned
<1>3. ReadyIsReal /\ DeletedForGood
  <2>1. CASE project = [status |-> "PENDING", quota |-> 0, noted |-> FALSE]
    BY <2>1 DEF ReadyIsReal, DeletedForGood
  <2>2. CASE project = [status |-> "READY", quota |-> 0, noted |-> FALSE] /\ ns = Provisioned(0)
    BY <2>2 DEF ReadyIsReal, DeletedForGood, Holds, Provisioned
  <2> QED
    BY <2>1, <2>2 DEF Init
<1> QED
  BY <1>1, <1>2, <1>3 DEF PassInv

(* With one reconciler the row is well formed, READY is what a pass saw     *)
(* and nobody touched since, a DELETED project has no namespace, and the    *)
(* quota holds: ProjectReconciler.reconcile, _verify and _finish_delete.    *)
THEOREM ProjectIsConsistent == ASSUME OneReconciler PROVE Spec => []Consistent
<1>1. TypeOK /\ QuotaInv /\ PassInv /\ [Next]_vars => TypeOK' /\ QuotaInv' /\ PassInv'
  BY TypeStep, QuotaStep, PassStep
<1>2. Init => TypeOK /\ QuotaInv /\ PassInv
  BY InitOK, PassInit
<1>3. TypeOK /\ QuotaInv /\ PassInv => Consistent
  BY DEF QuotaInv, PassInv, Consistent
<1> QED
  BY <1>1, <1>2, <1>3, PTL DEF Spec

(* A write to a namespace of somebody else. *)
LEMMA ForeignStep ==
  ASSUME TypeOK, PassInv, [Next]_vars, ns.state # "absent", ~ns.ours, ns' # ns
  PROVE  \/ faults' > faults \/ ns.state = "terminating"
         \/ Filling /\ disturbed /\ ns'.state = ns.state /\ ~ns'.ours
<1>1. ~ UNCHANGED vars
  BY DEF vars
<1>2. ~Requests
  BY DEF Requests, RequestDelete, QuotaCommit, DesireCommit, CanaryCommit, QuotaRead, DeployRead, RollbackRead,
         CanaryRead, CreateDeployment, DeleteDeployment
<1>3. CASE Passes
  <2>1. PICK p \in Reconcilers : Load(p) \/ ProjectPass(p)
    BY <1>3 DEF Passes, LeaveDep, LoadDep, SaveDep, RolloutSucceeds, RolloutRolledBack
  <2>2. ~(Load(p) \/ Observe(p) \/ ApplyRefused(p) \/ CheckGone(p) \/ Verify(p))
    BY DEF Load, Observe, ApplyRefused, CheckGone, Verify
  <2>3. ~(MoveDrifted(p) \/ MoveProvisioning(p) \/ MoveReady(p) \/ MoveFailed(p) \/ MoveDeleted(p) \/ Note(p))
    BY SavesProject
  <2>4. ~ApplyNamespace(p) /\ ~DeleteNamespace(p)
    BY Removes DEF ApplyNamespace
  <2>5. Upsert(p)
    BY <2>1, <2>2, <2>3, <2>4 DEF ProjectPass
  <2>6. Filling
    BY <2>5 DEF Upsert, Filling
  <2>7. disturbed
    BY <2>5 DEF PassInv, PassOK, Upsert, OnProject
  <2> QED
    BY <2>5, <2>6, <2>7, Upserts
<1>4. CASE Cluster
  <2>1. ~(\E p \in Reconcilers : ApiError(p) \/ Crash(p))
    BY DEF ApiError, Crash
  <2>2. NamespaceGone \/ NamespaceDeleted \/ NamespaceTaken
          \/ \E k \in Kinds, how \in {"missing", "drifted", "foreign"} : Edit(k, how)
    BY <1>4, <2>1 DEF Cluster
  <2> QED
    BY <2>2, Disturbs
<1> QED
  BY <1>1, <1>2, <1>3, <1>4 DEF Next

(* With one reconciler no pass fills or deletes a namespace of somebody     *)
(* else, except an apply that was under way when the project's own was      *)
(* deleted and its name taken.                                              *)
THEOREM ForeignStaysUntouched == ASSUME OneReconciler PROVE Spec => ForeignUntouched
<1>1. TypeOK /\ PassInv /\ [Next]_vars => TypeOK' /\ PassInv'
  BY TypeStep, PassStep
<1>2. Init => TypeOK /\ PassInv
  BY InitOK, PassInit
<1>3. TypeOK /\ PassInv /\ [Next]_vars =>
        [ns.state # "absent" /\ ~ns.ours /\ ns' # ns =>
           \/ faults' > faults \/ ns.state = "terminating"
           \/ Filling /\ disturbed /\ ns'.state = ns.state /\ ~ns'.ours]_vars
  BY ForeignStep
<1> QED
  BY <1>1, <1>2, <1>3, PTL DEF Spec, ForeignUntouched

=============================================================================
