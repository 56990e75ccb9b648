-------------------------- MODULE ModelRegistryProofs --------------------------
(***************************************************************************)
(* Theorems about ModelRegistry, for every set of versions in the registry, *)
(* every number of requests and reconcilers, and every bound.              *)
(***************************************************************************)
EXTENDS ModelRegistry, TLAPS, FiniteSetTheorems, SequenceTheorems, WellFoundedInduction

(* The number a request is about to take is one of those in use, or the next. *)
NumbersInReach ==
  \A c \in Clients :
    client[c].pc = "register" => client[c].number \in 1 .. Cardinality(Known) + 1

(* A promotion holds the row it read, alone, until it commits.               *)
LocksHeld ==
  \A c \in Clients : client[c].pc = "crown" =>
    /\ version[client[c].ref].status = client[c].status
    /\ \A d \in Clients : client[d].pc = "crown" /\ client[d].ref = client[c].ref => d = c

-----------------------------------------------------------------------------
(* Smallest and largest elements.                                          *)

(* A non-empty set of natural numbers has a least element: the intervals    *)
(* 0 .. n of its elements have one that is contained in no smaller one.      *)
LEMMA Least ==
  ASSUME NEW S \in SUBSET Nat, S # {}
  PROVE  \E m \in S : \A n \in S : m <= n
<1> DEFINE F == {0 .. n : n \in S}
<1>1. F \subseteq FiniteSubsetsOf(Nat) /\ F # {}
  <2>1. ASSUME NEW n \in S PROVE 0 .. n \in FiniteSubsetsOf(Nat)
    <3>1. n \in Int /\ 0 .. n \subseteq Nat
      OBVIOUS
    <3>2. QED
      BY <3>1, FS_Interval DEF FiniteSubsetsOf
  <2>2. QED
    BY <2>1
<1>2. PICK I \in F : \A J \in F : <<J, I>> \notin StrictSubsetOrdering(Nat)
  <2>1. IsWellFoundedOn(StrictSubsetOrdering(Nat), FiniteSubsetsOf(Nat))
    BY FS_StrictSubsetOrderingWellFounded
  <2>2. QED
    BY <1>1, <2>1, WFMin
<1>3. PICK m \in S : I = 0 .. m
  OBVIOUS
<1>4. ASSUME NEW n \in S, n < m PROVE FALSE
  <2>1. 0 .. n \subseteq 0 .. m /\ 0 .. n # 0 .. m
    BY <1>4
  <2>2. <<0 .. n, I>> \in StrictSubsetOrdering(Nat)
    BY <1>3, <2>1 DEF StrictSubsetOrdering
  <2>3. QED
    BY <1>2, <2>2
<1>5. QED
  BY <1>4

(* The newest of a set of versions is one of them.                          *)
LEMMA NewestIsOne ==
  ASSUME NEW S \in SUBSET Refs, S # {}, NEW n \in Nat,
         \A r \in S : version[r].number \in 0 .. n
  PROVE  /\ Newest(S) \in S
         /\ \A r \in S : version[r].number <= version[Newest(S)].number
<1> DEFINE T == {n - version[r].number : r \in S}
<1>1. T \in SUBSET Nat /\ T # {}
  OBVIOUS
<1>2. PICK m \in T : \A k \in T : m <= k
  BY <1>1, Least
<1>3. PICK r \in S : m = n - version[r].number
  OBVIOUS
<1>4. ASSUME NEW s \in S PROVE version[s].number <= version[r].number
  <2>1. n - version[s].number \in T
    OBVIOUS
  <2>2. m <= n - version[s].number
    BY <1>2, <2>1
  <2>3. QED
    BY <1>3, <2>2
<1>5. QED
  BY <1>4 DEF Newest

-----------------------------------------------------------------------------
(* Types.                                                                  *)

(* An actor at a step other than "idle" holds a record of that step.         *)
LEMMA MemoryTyped ==
  ASSUME TypeOK
  PROVE  /\ \A c \in Clients :
              /\ client[c].pc = "register" => client[c] \in Registering
              /\ client[c].pc = "start"    => client[c] \in Starting
              /\ client[c].pc = "finish"   => client[c] \in Finishing
              /\ client[c].pc = "crown"    => client[c] \in Crowning
         /\ \A l \in Leaders :
              pass[l].pc \in {"read", "write", "verify"} => pass[l] \in Looking
BY DEF TypeOK, Idle, Request, Registering, Starting, Finishing, Crowning, Pass, Looking, Recording

(* The rows that exist, and how many they are.                              *)
LEMMA KnownFinite ==
  ASSUME TypeOK
  PROVE  /\ IsFiniteSet(Known) /\ Cardinality(Known) \in Nat
         /\ Known # {} => Cardinality(Known) \in Nat \ {0}
         /\ \A r \in Refs : r \in Known <=> version[r] \in Version
<1>1. Known \in SUBSET Refs
  BY DEF Known
<1>2. IsFiniteSet(Known) /\ Cardinality(Known) \in Nat
  BY <1>1, RegistryAssumption, FS_Subset, FS_CardinalityType
<1>3. Known # {} => Cardinality(Known) # 0
  BY <1>2, FS_EmptySet
<1>4. \A r \in Refs : r \in Known <=> version[r] \in Version
  BY DEF TypeOK, Known, Version, Unknown
<1>5. QED
  BY <1>2, <1>3, <1>4

(* The number of every row lies within 0 .. their count.                     *)
LEMMA NumbersBounded ==
  ASSUME TypeOK, NumbersAreGapless
  PROVE  \A r \in Refs : version[r].number \in 0 .. Cardinality(Known)
<1>1. ASSUME NEW r \in Known PROVE version[r].number \in 1 .. Cardinality(Known)
  BY <1>1 DEF NumbersAreGapless
<1>2. ASSUME NEW r \in Refs, r \notin Known PROVE version[r].number = 0
  BY <1>2 DEF Known, Unknown
<1>3. QED
  BY <1>1, <1>2, KnownFinite

(* NextVersion is one more than the number of rows.                         *)
LEMMA NextIsNew ==
  ASSUME TypeOK, NumbersAreGapless
  PROVE  NextVersion = Cardinality(Known) + 1
<1> DEFINE n == Cardinality(Known)
<1>1. CASE Known = {}
  BY <1>1, FS_EmptySet DEF NextVersion
<1>2. CASE Known # {}
  <2>1. n \in Nat \ {0} /\ Known \in SUBSET Refs
    BY <1>2, KnownFinite DEF Known
  <2>2. PICK r \in Known : version[r].number = n
    BY <2>1 DEF NumbersAreGapless
  <2>3. \A s \in Known : version[s].number \in 0 .. n
    BY <2>1, NumbersBounded
  <2>4. /\ Newest(Known) \in Known
        /\ version[r].number <= version[Newest(Known)].number
    BY <1>2, <2>1, <2>3, NewestIsOne
  <2>5. version[Newest(Known)].number = n
    BY <2>1, <2>2, <2>3, <2>4
  <2>6. QED
    BY <1>2, <2>5 DEF NextVersion
<1>3. QED
  BY <1>1, <1>2

(* What the aliases should be is a version or none.                         *)
LEMMA DesiredTyped ==
  ASSUME TypeOK, NumbersAreGapless
  PROVE  Desired \in [Alias -> Refs \cup {None}]
<1>1. ASSUME NEW S \in SUBSET Refs, S # {} PROVE Newest(S) \in S
  BY <1>1, NumbersBounded, KnownFinite, NewestIsOne
<1>2. \A status \in ModelStatus : In(status) \in SUBSET Refs
  BY DEF In
<1>3. QED
  BY <1>1, <1>2 DEF Desired, ModelStatus, Alias

(* Where a pass goes on is a pass.                                          *)
LEMMA OnwardTyped ==
  ASSUME NEW p \in Looking
  PROVE  Onward(p) \in Pass \cup {Idle}
<1>1. [p EXCEPT !.pc = "read", !.at = "candidate"] \in Looking
  BY DEF Looking, Alias
<1>2. QED
  BY <1>1 DEF Onward, Pass, Recording

(* A resumed evaluation is one that runs.                                   *)
LEMMA ResumedRuns ==
  ASSUME TypeOK, NEW r \in Refs, Running(r) # {}
  PROVE  Resumed(r) \in Running(r) /\ Resumed(r) \in Nat \ {0}
<1>1. Running(r) \in SUBSET (Nat \ {0})
  BY DEF TypeOK, Running
<1>2. PICK i \in Running(r) : \A j \in Running(r) : i <= j
  BY <1>1, Least
<1>3. QED
  BY <1>1, <1>2 DEF Resumed

(* A row that exists can be given another status.                           *)
LEMMA StatusTyped ==
  ASSUME TypeOK, NEW r \in Refs, version[r].status # "UNKNOWN", NEW s \in ModelStatus
  PROVE  [version[r] EXCEPT !.status = s] \in Version
<1>1. version[r] \in Version
  BY DEF TypeOK, Unknown
<1>2. QED
  BY <1>1 DEF Version

(* Every action keeps the types; the two that look for the newest row need    *)
(* to know how the rows are numbered, and a promotion that its row is there.  *)
LEMMA TypeStep ==
  TypeOK /\ NumbersAreGapless /\ NumbersInReach /\ LocksHeld /\ [Next]_vars => TypeOK'
<1> SUFFICES ASSUME TypeOK, NumbersAreGapless, NumbersInReach, LocksHeld, [Next]_vars
             PROVE  TypeOK'
  OBVIOUS
<1> USE DEF rows, bounds, Does, Goes
<1>1. CASE UNCHANGED vars
  BY <1>1 DEF TypeOK, vars
<1>2. ASSUME NEW c \in Clients, NEW r \in Refs, Discover(c, r) PROVE TypeOK'
  <2>1. NextVersion \in Nat
    BY NextIsNew, KnownFinite
  <2>2. [pc |-> "register", ref |-> r, number |-> NextVersion] \in Request
    BY <2>1 DEF Request, Registering
  <2>3. QED
    BY <1>2, <2>2 DEF TypeOK, Discover
<1>3. ASSUME NEW c \in Clients, Register(c) PROVE TypeOK'
  <2>1. client[c] \in Registering /\ client[c].number \in Nat \ {0}
    BY <1>3, MemoryTyped, KnownFinite DEF Register, NumbersInReach
  <2>2. [number |-> client[c].number, status |-> "REGISTERED"] \in Version
    BY <2>1 DEF Version, ModelStatus
  <2>3. version' \in [Refs -> Version \cup {Unknown}]
    BY <1>3, <2>1, <2>2 DEF TypeOK, Register, Registering
  <2>4. QED
    BY <1>3, <2>3 DEF TypeOK, Register
<1>4. ASSUME NEW c \in Clients, NEW r \in Refs, EvaluateRead(c, r) PROVE TypeOK'
  BY <1>4 DEF TypeOK, EvaluateRead, Request, Starting
<1>5. ASSUME NEW c \in Clients, EvaluateStart(c) PROVE TypeOK'
  <2> DEFINE r == client[c].ref
  <2>1. r \in Refs
    BY <1>5, MemoryTyped DEF EvaluateStart, Starting
  <2>2. /\ evaluations[r] \in Seq(Evaluation) /\ "RUNNING" \in Evaluation
        /\ Append(evaluations[r], "RUNNING") \in Seq(Evaluation)
        /\ Len(evaluations[r]) + 1 \in Nat \ {0}
    BY <2>1 DEF TypeOK, Evaluation
  <2>3. evaluations' \in [Refs -> Seq(Evaluation)]
    BY <1>5, <2>1, <2>2 DEF TypeOK, EvaluateStart
  <2>4. version' \in [Refs -> Version \cup {Unknown}]
    <3>1. version[r].status = "REGISTERED"
            => [version[r] EXCEPT !.status = "EVALUATING"] \in Version
      BY <2>1, StatusTyped DEF ModelStatus
    <3>2. QED
      BY <1>5, <2>1, <3>1 DEF TypeOK, EvaluateStart
  <2>5. client' \in [Clients -> Request \cup {Idle}]
    <3>1. \A i \in Nat \ {0} : [pc |-> "finish", ref |-> r, index |-> i] \in Request
      BY <2>1 DEF Request, Finishing
    <3>2. Running(r) # {} => Resumed(r) \in Nat \ {0}
      BY <2>1, ResumedRuns
    <3>3. QED
      BY <1>5, <2>2, <3>1, <3>2 DEF TypeOK, EvaluateStart
  <2>6. QED
    BY <1>5, <2>3, <2>4, <2>5 DEF TypeOK, EvaluateStart
<1>6. ASSUME NEW c \in Clients, EvaluateFinish(c) PROVE TypeOK'
  <2> DEFINE r == client[c].ref
             i == client[c].index
  <2>1. r \in Refs /\ i \in 1 .. Len(evaluations[r]) /\ version[r].status = "EVALUATING"
    BY <1>6, MemoryTyped DEF EvaluateFinish, Finishing, Pending, Running, TypeOK
  <2>2. PICK passed \in BOOLEAN :
          /\ evaluations' = [evaluations EXCEPT ![r][i] = IF passed THEN "PASSED" ELSE "FAILED"]
          /\ version' = [version EXCEPT ![r].status = IF passed THEN "CANDIDATE" ELSE "REJECTED"]
    BY <1>6 DEF EvaluateFinish
  <2>3. evaluations' \in [Refs -> Seq(Evaluation)]
    <3>1. \A e \in Evaluation : [evaluations[r] EXCEPT ![i] = e] \in Seq(Evaluation)
      BY <2>1, ExceptSeq DEF TypeOK
    <3>2. QED
      BY <2>1, <2>2, <3>1 DEF TypeOK, Evaluation
  <2>4. version' \in [Refs -> Version \cup {Unknown}]
    <3>1. \A s \in ModelStatus : [version[r] EXCEPT !.status = s] \in Version
      BY <2>1, StatusTyped
    <3>2. QED
      BY <2>1, <2>2, <3>1 DEF TypeOK, ModelStatus
  <2>5. QED
    BY <1>6, <2>3, <2>4 DEF TypeOK, EvaluateFinish
<1>7. ASSUME NEW c \in Clients, NEW r \in Refs, Promote(c, r) PROVE TypeOK'
  <2>1. In("CHAMPION") \subseteq Refs
    BY DEF In
  <2>2. QED
    BY <1>7, <2>1 DEF TypeOK, Promote, Request, Crowning
<1>8. ASSUME NEW c \in Clients, Crown(c) PROVE TypeOK'
  <2>1. client[c] \in Crowning
    BY <1>8, MemoryTyped DEF Crown
  <2>2. [version |-> client[c].ref, previous |-> client[c].previous] \in Promotion
    BY <2>1 DEF Crowning, Promotion
  <2>3. promotions' \in Seq(Promotion)
    BY <1>8, <2>2 DEF TypeOK, Crown
  <2>4. version' \in [Refs -> Version \cup {Unknown}]
    <3>1. ASSUME NEW r \in Refs, r = client[c].ref \/ r = client[c].previous
          PROVE  \A s \in ModelStatus : [version[r] EXCEPT !.status = s] \in Version
      <4>1. version[r].status # "UNKNOWN"
        BY <1>8, <2>1, <3>1, RegistryAssumption
        DEF Crown, Crowning, LocksHeld, Undisputed, In
      <4>2. QED
        BY <4>1, StatusTyped
    <3>2. QED
      BY <1>8, <3>1 DEF TypeOK, Crown, ModelStatus
  <2>5. QED
    BY <1>8, <2>3, <2>4 DEF TypeOK, Crown
<1>9. ASSUME NEW c \in Clients, GiveUp(c) PROVE TypeOK'
  BY <1>9 DEF TypeOK, GiveUp
<1>10. ASSUME NEW r \in Refs, Reject(r) PROVE TypeOK'
  <2>1. [version[r] EXCEPT !.status = "REJECTED"] \in Version
    BY <1>10, StatusTyped DEF Reject, ModelStatus
  <2>2. QED
    BY <1>10, <2>1 DEF TypeOK, Reject
<1>11. ASSUME NEW l \in Leaders, AliasStep(l) PROVE TypeOK'
  <2>1. CASE AliasLoad(l)
    BY <2>1, DesiredTyped DEF TypeOK, AliasLoad, Pass, Looking, Alias
  <2>2. CASE AliasRead(l)
    <3>1. pass[l] \in Looking
      BY <2>2, MemoryTyped DEF AliasRead
    <3>2. /\ Onward(pass[l]) \in Pass \cup {Idle}
          /\ \A b \in BOOLEAN : [pass[l] EXCEPT !.pc = "write", !.moved = b] \in Looking
      BY <3>1, OnwardTyped DEF Looking
    <3>3. (pass[l].moved \/ alias[pass[l].at] # None) \in BOOLEAN
      OBVIOUS
    <3>4. QED
      BY <2>2, <3>2, <3>3 DEF TypeOK, AliasRead, Pass
  <2>3. CASE AliasWrite(l)
    BY <2>3, MemoryTyped DEF TypeOK, AliasWrite, Written, Pass, Looking
  <2>4. CASE AliasVerify(l)
    <3>1. pass[l] \in Looking
      BY <2>4, MemoryTyped DEF AliasVerify
    <3>2. [pass[l] EXCEPT !.wrote = TRUE] \in Looking
      BY <3>1 DEF Looking
    <3>3. QED
      BY <2>4, <3>2, OnwardTyped DEF TypeOK, AliasVerify, Pass, Recording
  <2>5. CASE AliasRecord(l)
    BY <2>5 DEF TypeOK, AliasRecord, Pass, Recording
  <2>6. QED
    BY <1>11, <2>1, <2>2, <2>3, <2>4, <2>5 DEF AliasStep
<1>12. ASSUME NEW l \in Leaders, AliasFault(l) PROVE TypeOK'
  <2>1. faults' \in 0 .. MaxFaults
    BY <1>12, RegistryAssumption DEF TypeOK, AliasFault
  <2>2. pass' \in [Leaders -> Pass \cup {Idle}]
    <3>1. [pc |-> "failed"] \in Pass
      BY DEF Pass, Recording
    <3>2. pass' = [pass EXCEPT ![l] = [pc |-> "failed"]] \/ pass' = [pass EXCEPT ![l] = Idle]
      BY <1>12 DEF AliasFault
    <3>3. QED
      BY <3>1, <3>2 DEF TypeOK
  <2>3. QED
    BY <1>12, <2>1, <2>2 DEF TypeOK, AliasFault
<1>13. CASE AliasEdit
  <2>1. edits' \in 0 .. MaxEdits
    BY <1>13, RegistryAssumption DEF TypeOK, AliasEdit
  <2>2. QED
    BY <1>13, <2>1 DEF TypeOK, AliasEdit
<1>14. QED
  BY <1>1, <1>2, <1>3, <1>4, <1>5, <1>6, <1>7, <1>8, <1>9, <1>10, <1>11, <1>12, <1>13
  DEF Next, ClientStep

-----------------------------------------------------------------------------
(* What a step can do to the rows.                                          *)

(* How the status of a version changes before it is crowned.                 *)
Early ==
  { <<"REGISTERED", "EVALUATING">>, <<"EVALUATING", "CANDIDATE">>,
    <<"EVALUATING", "REJECTED">>, <<"CANDIDATE", "REJECTED">> }

(* A step adds a row, commits a promotion, moves one version early, or        *)
(* leaves the versions and the promotions alone.                           *)
LEMMA RowStep ==
  ASSUME TypeOK, [Next]_vars
  PROVE  \/ \E c \in Clients : Register(c) \/ Crown(c)
         \/ UNCHANGED <<version, promotions>>
         \/ /\ UNCHANGED promotions
            /\ \E r \in Refs, s \in ModelStatus :
                 /\ <<version[r].status, s>> \in Early
                 /\ version[r].status = "CANDIDATE" => ~ Locked(r)
                 /\ version' = [version EXCEPT ![r].status = s]
<1> DEFINE Moved == \E r \in Refs, s \in ModelStatus :
             /\ <<version[r].status, s>> \in Early
             /\ version[r].status = "CANDIDATE" => ~ Locked(r)
             /\ version' = [version EXCEPT ![r].status = s]
<1> USE DEF rows, bounds
<1>1. CASE UNCHANGED vars
  BY <1>1 DEF vars
<1>2. ASSUME NEW c \in Clients, EvaluateStart(c)
      PROVE  UNCHANGED promotions /\ (UNCHANGED version \/ Moved)
  <2>1. client[c].ref \in Refs
    BY <1>2, MemoryTyped DEF EvaluateStart, Starting
  <2>2. QED
    BY <1>2, <2>1 DEF EvaluateStart, Early, ModelStatus
<1>3. ASSUME NEW c \in Clients, EvaluateFinish(c) PROVE UNCHANGED promotions /\ Moved
  <2>1. client[c].ref \in Refs /\ version[client[c].ref].status = "EVALUATING"
    BY <1>3, MemoryTyped DEF EvaluateFinish, Finishing, Pending
  <2>2. PICK s \in {"CANDIDATE", "REJECTED"} :
          version' = [version EXCEPT ![client[c].ref].status = s]
    BY <1>3 DEF EvaluateFinish
  <2>3. QED
    BY <1>3, <2>1, <2>2 DEF EvaluateFinish, Early, ModelStatus
<1>4. ASSUME NEW r \in Refs, Reject(r) PROVE UNCHANGED promotions /\ Moved
  BY <1>4 DEF Reject, Early, ModelStatus
<1>5. ASSUME NEW c \in Clients, NEW r \in Refs,
             Discover(c, r) \/ EvaluateRead(c, r) \/ Promote(c, r) \/ GiveUp(c)
      PROVE  UNCHANGED <<version, promotions>>
  BY <1>5 DEF Discover, EvaluateRead, Promote, GiveUp
<1>6. ASSUME NEW c \in Clients, GiveUp(c) PROVE UNCHANGED <<version, promotions>>
  BY <1>6 DEF GiveUp
<1>7. ASSUME NEW l \in Leaders, AliasStep(l) \/ AliasFault(l) PROVE UNCHANGED <<version, promotions>>
  BY <1>7 DEF AliasStep, AliasLoad, AliasRead, AliasWrite, AliasVerify, AliasRecord, AliasFault
<1>8. CASE AliasEdit
  BY <1>8 DEF AliasEdit
<1>9. QED
  BY <1>1, <1>2, <1>3, <1>4, <1>5, <1>6, <1>7, <1>8 DEF Next, ClientStep

(* Moving a version changes its status and nothing else.                     *)
LEMMA MoveIsStatus ==
  ASSUME TypeOK, NEW r \in Refs, NEW s \in ModelStatus, version[r].status # "UNKNOWN",
         version' = [version EXCEPT ![r].status = s]
  PROVE  /\ \A q \in Refs : /\ version'[q].number = version[q].number
                            /\ version'[q].status = IF q = r THEN s ELSE version[q].status
         /\ Known' = Known
<1>1. version[r] \in Version /\ version'[r] \in Version
  BY StatusTyped DEF TypeOK, Unknown
<1>2. \A q \in Refs : version'[q] = IF q = r THEN [version[r] EXCEPT !.status = s] ELSE version[q]
  BY DEF TypeOK
<1>3. Known' = Known
  BY <1>1, <1>2 DEF Known, Version, Unknown
<1>4. QED
  BY <1>1, <1>2, <1>3 DEF Version

-----------------------------------------------------------------------------
(* The chain of champions.                                                 *)

(* A step that commits no promotion leaves champions and archived versions.   *)
LEMMA SameCrowns ==
  ASSUME TypeOK, [Next]_vars, \A c \in Clients : ~ Crown(c)
  PROVE  /\ UNCHANGED promotions
         /\ In("CHAMPION")' = In("CHAMPION") /\ In("ARCHIVED")' = In("ARCHIVED")
<1>1. CASE UNCHANGED <<version, promotions>>
  BY <1>1 DEF In
<1>2. ASSUME NEW c \in Clients, Register(c)
      PROVE  /\ UNCHANGED promotions
             /\ In("CHAMPION")' = In("CHAMPION") /\ In("ARCHIVED")' = In("ARCHIVED")
  <2>1. client[c].ref \in Refs
    BY <1>2, MemoryTyped DEF Register, Registering
  <2>2. ~ Taken(client[c]) => version[client[c].ref].status = "UNKNOWN"
    BY <2>1 DEF Taken, Known, Unknown
  <2>3. QED
    BY <1>2, <2>1, <2>2 DEF Register, In, TypeOK
<1>3. ASSUME UNCHANGED promotions, NEW r \in Refs, NEW s \in ModelStatus,
             <<version[r].status, s>> \in Early, version' = [version EXCEPT ![r].status = s]
      PROVE  In("CHAMPION")' = In("CHAMPION") /\ In("ARCHIVED")' = In("ARCHIVED")
  <2>1. version[r].status \notin {"UNKNOWN", "CHAMPION", "ARCHIVED"} /\ s \notin {"CHAMPION", "ARCHIVED"}
    BY <1>3 DEF Early
  <2>2. \A q \in Refs : version'[q].status = IF q = r THEN s ELSE version[q].status
    BY <1>3, <2>1, MoveIsStatus
  <2>3. QED
    BY <2>1, <2>2 DEF In
<1>4. QED
  BY <1>1, <1>2, <1>3, RowStep

LEMMA ChainStep == TypeOK /\ PromotionsChain /\ [Next]_vars => PromotionsChain'
<1> SUFFICES ASSUME TypeOK, PromotionsChain, [Next]_vars PROVE PromotionsChain'
  OBVIOUS
<1>1. CASE \A c \in Clients : ~ Crown(c)
  BY <1>1, SameCrowns DEF PromotionsChain
<1>2. ASSUME NEW c \in Clients, Crown(c) PROVE PromotionsChain'
  <2> DEFINE n == Len(promotions)
             ref == client[c].ref
             previous == client[c].previous
             new == [version |-> ref, previous |-> previous]
             last == IF n = 0 THEN None ELSE promotions[n].version
             S == {promotions[i].version : i \in DOMAIN promotions}
  <2>1. /\ ref \in Refs /\ previous \in Refs \cup {None} /\ new \in Promotion
        /\ n \in Nat /\ DOMAIN promotions = 1 .. n
        /\ \A i \in 1 .. n : promotions[i].version \in Refs
    <3>1. client[c] \in Crowning
      BY <1>2, MemoryTyped DEF Crown
    <3>2. promotions \in Seq(Promotion)
      BY DEF TypeOK
    <3>3. n \in Nat /\ DOMAIN promotions = 1 .. n /\ \A i \in 1 .. n : promotions[i] \in Promotion
      BY <3>2
    <3>4. QED
      BY <3>1, <3>3 DEF Crowning, Promotion
  <2>2. /\ promotions' = Append(promotions, new)
        /\ Len(promotions') = n + 1 /\ DOMAIN promotions' = 1 .. n + 1
        /\ promotions'[n + 1] = new
        /\ \A i \in 1 .. n : promotions'[i] = promotions[i]
    BY <1>2, <2>1 DEF Crown, TypeOK
  <2>3. /\ In("CHAMPION") = {previous} \ {None} /\ In("CHAMPION") = {last} \ {None}
        /\ In("ARCHIVED") = S \ In("CHAMPION")
    BY <1>2 DEF Crown, Undisputed, PromotionsChain
  <2>4. previous = last
    BY <2>1, <2>3, RegistryAssumption
  <2>5. /\ In("CHAMPION")' = {ref}
        /\ In("ARCHIVED")' = (In("ARCHIVED") \cup ({previous} \ {None})) \ {ref}
    <3>1. \A r \in Refs : version'[r].status = IF r = ref THEN "CHAMPION"
                                              ELSE IF r = previous THEN "ARCHIVED"
                                              ELSE version[r].status
      BY <1>2, <2>1 DEF Crown, TypeOK, Version, Unknown
    <3>2. QED
      BY <2>1, <2>3, <3>1, RegistryAssumption DEF In
  <2>6. {previous} \ {None} \subseteq S
    BY <2>1, <2>4
  <2>7. {promotions'[i].version : i \in DOMAIN promotions'} = S \cup {ref}
    BY <2>1, <2>2
  <2>8. In("ARCHIVED")' = {promotions'[i].version : i \in DOMAIN promotions'} \ In("CHAMPION")'
    BY <2>3, <2>5, <2>6, <2>7
  <2>9. ASSUME NEW i \in DOMAIN promotions'
        PROVE  promotions'[i].previous = IF i - 1 = 0 THEN None ELSE promotions'[i - 1].version
    <3>1. CASE i = n + 1
      <4>1. promotions'[i].previous = last
        <5>1. promotions'[i] = new
          BY <2>2, <3>1
        <5>2. new.previous = previous
          OBVIOUS
        <5>3. QED
          BY <5>1, <5>2, <2>4
      <4>2. i - 1 = n /\ (n # 0 => promotions'[i - 1] = promotions[n])
        <5>1. i - 1 = n /\ (n # 0 => n \in 1 .. n)
          BY <2>1, <3>1
        <5>2. QED
          BY <2>2, <5>1
      <4>3. QED
        BY <4>1, <4>2
    <3>2. CASE i \in 1 .. n
      <4>1. promotions[i].previous = IF i - 1 = 0 THEN None ELSE promotions[i - 1].version
        BY <2>1, <3>2 DEF PromotionsChain
      <4>2. QED
        BY <2>2, <3>2, <4>1
    <3>3. QED
      BY <2>1, <2>2, <3>1, <3>2
  <2>10. In("CHAMPION")' = {IF Len(promotions') = 0 THEN None
                            ELSE promotions'[Len(promotions')].version} \ {None}
    BY <2>1, <2>2, <2>5, RegistryAssumption
  <2>11. QED
    BY <2>8, <2>9, <2>10 DEF PromotionsChain
<1>3. QED
  BY <1>1, <1>2

-----------------------------------------------------------------------------
(* Locks.                                                                  *)

(* A committing promotion crowns a version that is there, retires another,    *)
(* and changes nothing else.                                               *)
LEMMA CrownStatuses ==
  ASSUME TypeOK, LocksHeld, NEW c \in Clients, Crown(c)
  PROVE  /\ client[c].ref \in Refs /\ version[client[c].ref].status \in {"CANDIDATE", "ARCHIVED"}
         /\ client[c].previous # client[c].ref
         /\ client[c].previous \in Refs => version[client[c].previous].status = "CHAMPION"
         /\ \A r \in Refs :
              /\ version'[r].number = version[r].number
              /\ version'[r].status = IF r = client[c].ref THEN "CHAMPION"
                                      ELSE IF r = client[c].previous THEN "ARCHIVED"
                                      ELSE version[r].status
         /\ Known' = Known
<1> DEFINE ref == client[c].ref
           previous == client[c].previous
<1>1. client[c] \in Crowning
  BY MemoryTyped DEF Crown
<1>2. ref \in Refs /\ version[ref].status \in {"CANDIDATE", "ARCHIVED"}
  BY <1>1 DEF Crown, LocksHeld, Crowning
<1>3. previous \in Refs => version[previous].status = "CHAMPION"
  BY RegistryAssumption DEF Crown, Undisputed, In
<1>4. previous # ref
  BY <1>2, <1>3
<1>5. version' = [r \in Refs |->
         IF r = ref THEN [version[r] EXCEPT !.status = "CHAMPION"]
         ELSE IF r = previous THEN [version[r] EXCEPT !.status = "ARCHIVED"]
         ELSE version[r]]
  BY DEF Crown
<1>6. ASSUME NEW r \in Refs, r \in {ref, previous}
      PROVE  version[r] \in Version /\ version'[r] \in Version
  <2>1. version[r].status # "UNKNOWN"
    BY <1>2, <1>3, <1>6
  <2>2. \A s \in ModelStatus : [version[r] EXCEPT !.status = s] \in Version
    BY <2>1, StatusTyped
  <2>3. version'[r] \in Version
    BY <1>5, <1>6, <2>2 DEF ModelStatus
  <2>4. QED
    BY <2>1, <2>3 DEF TypeOK, Unknown
<1>7. ASSUME NEW r \in Refs
      PROVE  /\ version'[r].number = version[r].number
             /\ version'[r].status = IF r = ref THEN "CHAMPION"
                                     ELSE IF r = previous THEN "ARCHIVED" ELSE version[r].status
             /\ r \in Known' <=> r \in Known
  <2>1. CASE r \in {ref, previous}
    BY <1>5, <1>6, <2>1 DEF Version, Known, Unknown
  <2>2. CASE r \notin {ref, previous}
    BY <1>5, <2>2 DEF Known
  <2>3. QED
    BY <2>1, <2>2
<1>8. QED
  BY <1>2, <1>3, <1>4, <1>7 DEF Known

(* A step moves one request at most, and only Promote to a promotion.        *)
LEMMA RequestStep ==
  ASSUME TypeOK, [Next]_vars
  PROVE  \/ UNCHANGED client
         \/ \E c \in Clients : /\ \A d \in Clients \ {c} : client'[d] = client[d]
                               /\ client'[c].pc # "crown"
         \/ \E c \in Clients, r \in Refs : Promote(c, r)
<1> DEFINE Leaves(c) == /\ \A d \in Clients \ {c} : client'[d] = client[d]
                        /\ client'[c].pc # "crown"
<1> USE DEF Does, TypeOK
<1>1. CASE UNCHANGED vars
  BY <1>1 DEF vars
<1>2. ASSUME NEW c \in Clients, NEW r \in Refs, Discover(c, r) PROVE Leaves(c)
  BY <1>2 DEF Discover
<1>3. ASSUME NEW c \in Clients, Register(c) PROVE Leaves(c)
  BY <1>3 DEF Register, Idle
<1>4. ASSUME NEW c \in Clients, NEW r \in Refs, EvaluateRead(c, r) PROVE Leaves(c)
  BY <1>4 DEF EvaluateRead
<1>5. ASSUME NEW c \in Clients, EvaluateStart(c) PROVE Leaves(c)
  BY <1>5 DEF EvaluateStart, Idle
<1>6. ASSUME NEW c \in Clients, EvaluateFinish(c) PROVE Leaves(c)
  BY <1>6 DEF EvaluateFinish, Idle
<1>7. ASSUME NEW c \in Clients, Crown(c) PROVE Leaves(c)
  BY <1>7 DEF Crown, Idle
<1>8. ASSUME NEW c \in Clients, GiveUp(c) PROVE Leaves(c)
  BY <1>8 DEF GiveUp, Idle
<1>9. ASSUME NEW r \in Refs, Reject(r) PROVE UNCHANGED client
  BY <1>9 DEF Reject
<1>10. ASSUME NEW l \in Leaders, AliasStep(l) \/ AliasFault(l) PROVE UNCHANGED client
  BY <1>10 DEF AliasStep, AliasLoad, AliasRead, AliasWrite, AliasVerify, AliasRecord, AliasFault
<1>11. CASE AliasEdit
  BY <1>11 DEF AliasEdit
<1>12. QED
  BY <1>1, <1>2, <1>3, <1>4, <1>5, <1>6, <1>7, <1>8, <1>9, <1>10, <1>11 DEF Next, ClientStep

(* A promotion under way was so before the step, or has just taken its lock.  *)
LEMMA LocksStep == TypeOK /\ LocksHeld /\ [Next]_vars => LocksHeld'
<1> SUFFICES ASSUME TypeOK, LocksHeld, [Next]_vars PROVE LocksHeld'
  OBVIOUS
<1> USE DEF rows, bounds, Does
<1>1. ASSUME NEW c \in Clients, NEW r \in Refs, Promote(c, r) PROVE LocksHeld'
  <2>1. /\ client'[c].ref = r /\ client'[c].status = version[r].status
        /\ \A d \in Clients : d # c => client'[d] = client[d]
        /\ UNCHANGED version
    BY <1>1 DEF Promote, TypeOK
  <2>2. \A d \in Clients : client[d].pc = "crown" => client[d].ref # r
    BY <1>1 DEF Promote, Locked
  <2>3. QED
    BY <2>1, <2>2 DEF LocksHeld
<1>2. ASSUME \A c \in Clients, r \in Refs : ~ Promote(c, r) PROVE LocksHeld'
  <2>1. ASSUME NEW d \in Clients, client'[d].pc = "crown"
        PROVE  client'[d] = client[d] /\ ~ Crown(d)
    <3>1. CASE UNCHANGED client
      BY <2>1, <3>1 DEF Crown, TypeOK, Idle
    <3>2. ASSUME NEW c \in Clients, \A e \in Clients \ {c} : client'[e] = client[e],
                 client'[c].pc # "crown"
          PROVE  client'[d] = client[d] /\ ~ Crown(d)
      BY <2>1, <3>2 DEF Crown, TypeOK, Idle
    <3>3. QED
      BY <1>2, <3>1, <3>2, RequestStep
  <2>2. ASSUME NEW d \in Clients, client[d].pc = "crown", ~ Crown(d)
        PROVE  version'[client[d].ref].status = version[client[d].ref].status
    <3> DEFINE q == client[d].ref
    <3>1. q \in Refs /\ version[q].status \in {"CANDIDATE", "ARCHIVED"}
      BY <2>2, MemoryTyped DEF LocksHeld, Crowning
    <3>2. ASSUME NEW c \in Clients, Register(c) PROVE version'[q].status = version[q].status
      <4>1. client[c].ref \in Refs
        BY <3>2, MemoryTyped DEF Register, Registering
      <4>2. ~ Taken(client[c]) => client[c].ref # q
        BY <3>1, <4>1 DEF Taken, Known, Unknown
      <4>3. QED
        BY <3>1, <3>2, <4>1, <4>2 DEF Register, TypeOK
    <3>3. ASSUME NEW c \in Clients, Crown(c) PROVE version'[q].status = version[q].status
      <4>1. client[c].ref # q
        BY <2>2, <3>3 DEF LocksHeld, Crown
      <4>2. QED
        BY <3>1, <3>3, <4>1, CrownStatuses
    <3>4. ASSUME NEW r \in Refs, NEW s \in ModelStatus, <<version[r].status, s>> \in Early,
                 version[r].status = "CANDIDATE" => ~ Locked(r),
                 version' = [version EXCEPT ![r].status = s]
          PROVE  version'[q].status = version[q].status
      <4>1. r # q
        BY <2>2, <3>1, <3>4 DEF Early, Locked
      <4>2. QED
        BY <3>1, <3>4, <4>1 DEF TypeOK
    <3>5. QED
      BY <3>2, <3>3, <3>4, RowStep
  <2>3. QED
    BY <2>1, <2>2 DEF LocksHeld
<1>3. QED
  BY <1>1, <1>2

-----------------------------------------------------------------------------
(* Version numbers.                                                        *)

(* A request about to register has just read the next number, or was about to. *)
LEMMA RegisterStep ==
  ASSUME TypeOK, NumbersAreGapless, [Next]_vars, NEW c \in Clients, client'[c].pc = "register"
  PROVE  client'[c] = client[c] \/ client'[c].number = Cardinality(Known) + 1
<1> USE DEF Does, TypeOK
<1>1. CASE UNCHANGED client
  BY <1>1
<1>2. ASSUME NEW d \in Clients, NEW r \in Refs, Discover(d, r)
      PROVE  client'[c] = client[c] \/ client'[c].number = Cardinality(Known) + 1
  BY <1>2, NextIsNew DEF Discover
<1>3. ASSUME NEW d \in Clients, NEW r \in Refs, EvaluateRead(d, r) \/ Promote(d, r)
      PROVE  client'[c] = client[c]
  BY <1>3 DEF EvaluateRead, Promote
<1>4. ASSUME NEW d \in Clients, Register(d) \/ EvaluateFinish(d) \/ Crown(d) \/ GiveUp(d)
      PROVE  client'[c] = client[c]
  BY <1>4 DEF Register, EvaluateFinish, Crown, GiveUp, Idle
<1>5. ASSUME NEW d \in Clients, EvaluateStart(d) PROVE client'[c] = client[c]
  BY <1>5 DEF EvaluateStart, Idle
<1>6. QED
  BY <1>1, <1>2, <1>3, <1>4, <1>5
  DEF Next, vars, ClientStep, Reject, AliasStep, AliasLoad, AliasRead, AliasWrite, AliasVerify,
      AliasRecord, AliasFault, AliasEdit

(* Rows are added with the next number and never renumbered or removed.      *)
LEMMA NumberStep ==
  TypeOK /\ LocksHeld /\ NumbersAreGapless /\ NumbersInReach /\ [Next]_vars
    => NumbersAreGapless' /\ NumbersInReach'
<1> SUFFICES ASSUME TypeOK, LocksHeld, NumbersAreGapless, NumbersInReach, [Next]_vars
             PROVE  NumbersAreGapless' /\ NumbersInReach'
  OBVIOUS
<1> DEFINE n == Cardinality(Known)
<1>1. n \in Nat /\ IsFiniteSet(Known)
  BY KnownFinite
<1>2. CASE \A c \in Clients : ~ Register(c)
  <2>1. Known' = Known /\ \A r \in Refs : version'[r].number = version[r].number
    <3>1. CASE UNCHANGED <<version, promotions>>
      BY <3>1 DEF Known
    <3>2. ASSUME NEW r \in Refs, NEW s \in ModelStatus, <<version[r].status, s>> \in Early,
                 version' = [version EXCEPT ![r].status = s]
          PROVE  Known' = Known /\ \A q \in Refs : version'[q].number = version[q].number
      BY <3>2, MoveIsStatus DEF Early
    <3>3. QED
      BY <1>2, <3>1, <3>2, RowStep, CrownStatuses
  <2>2. NumbersAreGapless'
    BY <2>1 DEF NumbersAreGapless, Known
  <2>3. ASSUME NEW c \in Clients, client'[c].pc = "register"
        PROVE  client'[c].number \in 1 .. n + 1
    BY <1>1, <2>3, RegisterStep DEF NumbersInReach
  <2>4. QED
    BY <2>1, <2>2, <2>3 DEF NumbersInReach
<1>3. ASSUME NEW c \in Clients, Register(c) PROVE NumbersAreGapless' /\ NumbersInReach'
  <2> DEFINE q == client[c]
  <2>1. /\ q.ref \in Refs /\ q.number \in 1 .. n + 1
        /\ \A d \in Clients : client'[d].pc = "register" => client'[d] = client[d]
    BY <1>3, MemoryTyped DEF Register, Registering, NumbersInReach, Does, TypeOK, Idle
  <2>2. CASE Taken(q)
    BY <1>3, <2>1, <2>2 DEF Register, NumbersAreGapless, NumbersInReach, Known
  <2>3. CASE ~ Taken(q)
    <3>1. q.ref \notin Known /\ \A r \in Known : version[r].number # q.number
      BY <2>3 DEF Taken
    <3>2. q.number \notin 1 .. n
      BY <3>1 DEF NumbersAreGapless
    <3>3. q.number = n + 1
      BY <1>1, <2>1, <3>2
    <3>4. \A r \in Refs : version'[r] = IF r = q.ref
                                         THEN [number |-> q.number, status |-> "REGISTERED"]
                                         ELSE version[r]
      BY <1>3, <2>1, <2>3 DEF Register, TypeOK
    <3>5. Known' = Known \cup {q.ref}
      BY <2>1, <3>4 DEF Known, Unknown
    <3>6. Cardinality(Known') = n + 1
      BY <1>1, <3>1, <3>5, FS_AddElement
    <3>7. {version'[r].number : r \in Known'} = {version[r].number : r \in Known} \cup {n + 1}
      <4>1. version'[q.ref].number = n + 1 /\ \A r \in Known : version'[r] = version[r]
        <5>1. version'[q.ref].number = q.number
          BY <2>1, <3>4
        <5>2. \A r \in Known : r \in Refs /\ r # q.ref
          BY <3>1 DEF Known
        <5>3. QED
          BY <3>3, <3>4, <5>1, <5>2
      <4>2. QED
        BY <3>5, <4>1
    <3>8. NumbersAreGapless'
      BY <1>1, <3>6, <3>7 DEF NumbersAreGapless
    <3>9. NumbersInReach'
      BY <1>1, <2>1, <3>6 DEF NumbersInReach
    <3>10. QED
      BY <3>8, <3>9
  <2>4. QED
    BY <2>2, <2>3
<1>4. QED
  BY <1>2, <1>3

-----------------------------------------------------------------------------
(* Verdicts.                                                               *)

Finished(evals) == {i \in DOMAIN evals : evals[i] # "RUNNING"}

(* What EvaluationDecides says of one version.                              *)
Decided(status, evals) ==
  IF status \in {"UNKNOWN", "REGISTERED", "EVALUATING"} THEN Finished(evals) = {}
  ELSE \E i \in DOMAIN evals : Finished(evals) = {i} /\ (evals[i] = "FAILED" => status = "REJECTED")

LEMMA DecidedEach ==
  EvaluationDecides <=> \A r \in Refs : Decided(version[r].status, evaluations[r])
BY DEF EvaluationDecides, Decided, Finished

(* An evaluation that runs decides nothing.                                  *)
LEMMA RunningDecidesNothing ==
  ASSUME NEW evals \in Seq(Evaluation), NEW status, Decided(status, evals)
  PROVE  Decided(status, Append(evals, "RUNNING"))
<1> DEFINE more == Append(evals, "RUNNING")
<1>1. /\ DOMAIN evals = 1 .. Len(evals) /\ DOMAIN more = 1 .. Len(evals) + 1
      /\ \A i \in 1 .. Len(evals) : more[i] = evals[i]
      /\ more[Len(evals) + 1] = "RUNNING" /\ Len(evals) \in Nat
  BY DEF Evaluation
<1>2. Finished(more) = Finished(evals)
  BY <1>1 DEF Finished
<1>3. DOMAIN evals \subseteq DOMAIN more /\ \A i \in DOMAIN evals : more[i] = evals[i]
  BY <1>1
<1>4. QED
  BY <1>2, <1>3 DEF Decided

(* The first verdict decides.                                               *)
LEMMA VerdictDecides ==
  ASSUME NEW evals \in Seq(Evaluation), NEW i \in 1 .. Len(evals), Decided("EVALUATING", evals)
  PROVE  /\ Decided("CANDIDATE", [evals EXCEPT ![i] = "PASSED"])
         /\ Decided("REJECTED", [evals EXCEPT ![i] = "FAILED"])
<1>1. Finished(evals) = {}
  BY DEF Decided
<1>2. ASSUME NEW e \in {"PASSED", "FAILED"}
      PROVE  LET judged == [evals EXCEPT ![i] = e]
             IN  i \in DOMAIN judged /\ judged[i] = e /\ Finished(judged) = {i}
  BY <1>1 DEF Finished
<1>3. QED
  BY <1>2 DEF Decided

(* Statuses that leave a decision as it is.                                  *)
LEMMA StatusKeepsDecision ==
  ASSUME NEW evals, NEW s, NEW t, Decided(s, evals),
         \/ s \in {"UNKNOWN", "REGISTERED", "EVALUATING"} /\ t \in {"REGISTERED", "EVALUATING"}
         \/ s \in {"CANDIDATE", "ARCHIVED", "CHAMPION"} /\ t \in {"REJECTED", "ARCHIVED", "CHAMPION"}
  PROVE  Decided(t, evals)
BY DEF Decided

LEMMA VerdictStep == TypeOK /\ LocksHeld /\ EvaluationDecides /\ [Next]_vars => EvaluationDecides'
<1> SUFFICES ASSUME TypeOK, LocksHeld, EvaluationDecides, [Next]_vars PROVE EvaluationDecides'
  OBVIOUS
<1> USE DEF rows, bounds
<1>0. \A r \in Refs : Decided(version[r].status, evaluations[r])
  BY DecidedEach
<1>1. SUFFICES ASSUME NEW r \in Refs PROVE Decided(version'[r].status, evaluations'[r])
  BY DEF EvaluationDecides, Decided, Finished
<1>2. Decided(version[r].status, evaluations[r]) /\ evaluations[r] \in Seq(Evaluation)
  BY <1>0 DEF TypeOK
<1>3. CASE UNCHANGED <<version, evaluations>>
  BY <1>2, <1>3
<1>4. ASSUME NEW c \in Clients, Register(c) PROVE Decided(version'[r].status, evaluations'[r])
  <2>1. \/ version'[r] = version[r]
        \/ version[r].status = "UNKNOWN" /\ version'[r].status = "REGISTERED"
    BY <1>4, MemoryTyped DEF Register, Registering, TypeOK, Taken, Known, Unknown
  <2>2. QED
    BY <1>2, <1>4, <2>1, StatusKeepsDecision DEF Register
<1>5. ASSUME NEW c \in Clients, EvaluateStart(c) PROVE Decided(version'[r].status, evaluations'[r])
  <2>1. \/ evaluations'[r] = evaluations[r]
        \/ evaluations'[r] = Append(evaluations[r], "RUNNING")
    BY <1>5, MemoryTyped DEF EvaluateStart, Starting, TypeOK
  <2>2. \/ version'[r].status = version[r].status
        \/ version[r].status = "REGISTERED" /\ version'[r].status = "EVALUATING"
    <3>1. CASE UNCHANGED version
      BY <3>1
    <3>2. CASE /\ version[client[c].ref].status = "REGISTERED"
               /\ version' = [version EXCEPT ![client[c].ref].status = "EVALUATING"]
      <4>1. client[c].ref \in Refs
        BY <1>5, MemoryTyped DEF EvaluateStart, Starting
      <4>2. QED
        BY <3>2, <4>1, MoveIsStatus DEF ModelStatus
    <3>3. QED
      BY <1>5, <3>1, <3>2 DEF EvaluateStart
  <2>3. Decided(version'[r].status, evaluations[r])
    BY <1>2, <2>2, StatusKeepsDecision
  <2>4. QED
    BY <1>2, <2>1, <2>3, RunningDecidesNothing
<1>6. ASSUME NEW c \in Clients, EvaluateFinish(c) PROVE Decided(version'[r].status, evaluations'[r])
  <2> DEFINE q == client[c]
  <2>1. /\ q.ref \in Refs /\ q.index \in 1 .. Len(evaluations[q.ref])
        /\ version[q.ref].status = "EVALUATING"
    BY <1>6, MemoryTyped DEF EvaluateFinish, Finishing, Pending, Running, TypeOK
  <2>2. PICK v \in {<<"PASSED", "CANDIDATE">>, <<"FAILED", "REJECTED">>} :
          /\ evaluations' = [evaluations EXCEPT ![q.ref][q.index] = v[1]]
          /\ version' = [version EXCEPT ![q.ref].status = v[2]]
    BY <1>6 DEF EvaluateFinish
  <2>3. version'[r].status = IF r = q.ref THEN v[2] ELSE version[r].status
    <3>1. v[2] \in ModelStatus
      BY DEF ModelStatus
    <3>2. QED
      BY <2>1, <2>2, <3>1, MoveIsStatus
  <2>4. CASE r # q.ref
    BY <1>2, <2>2, <2>3, <2>4 DEF TypeOK
  <2>5. CASE r = q.ref
    <3>1. evaluations'[r] = [evaluations[r] EXCEPT ![q.index] = v[1]]
      BY <2>2, <2>5 DEF TypeOK
    <3>2. /\ evaluations[r] \in Seq(Evaluation) /\ q.index \in 1 .. Len(evaluations[r])
          /\ Decided("EVALUATING", evaluations[r])
      BY <1>2, <2>1, <2>5
    <3>3. /\ Decided("CANDIDATE", [evaluations[r] EXCEPT ![q.index] = "PASSED"])
          /\ Decided("REJECTED", [evaluations[r] EXCEPT ![q.index] = "FAILED"])
      <4> HIDE DEF q
      <4>1. QED
        BY <3>2, VerdictDecides
    <3>4. CASE v = <<"PASSED", "CANDIDATE">>
      BY <2>3, <2>5, <3>1, <3>3, <3>4
    <3>5. CASE v = <<"FAILED", "REJECTED">>
      BY <2>3, <2>5, <3>1, <3>3, <3>5
    <3>6. QED
      BY <3>4, <3>5
  <2>6. QED
    BY <2>4, <2>5
<1>7. ASSUME NEW c \in Clients, Crown(c) PROVE Decided(version'[r].status, evaluations'[r])
  <2>1. \/ version'[r].status = version[r].status
        \/ version[r].status \in {"CANDIDATE", "ARCHIVED", "CHAMPION"}
           /\ version'[r].status \in {"ARCHIVED", "CHAMPION"}
    BY <1>7, CrownStatuses
  <2>2. QED
    BY <1>2, <1>7, <2>1, StatusKeepsDecision DEF Crown
<1>8. ASSUME NEW q \in Refs, Reject(q) PROVE Decided(version'[r].status, evaluations'[r])
  <2>1. \/ version'[r].status = version[r].status
        \/ version[r].status = "CANDIDATE" /\ version'[r].status = "REJECTED"
    BY <1>8, MoveIsStatus DEF Reject, ModelStatus
  <2>2. QED
    BY <1>2, <1>8, <2>1, StatusKeepsDecision DEF Reject
<1>9. QED
  BY <1>3, <1>4, <1>5, <1>6, <1>7, <1>8
  DEF Next, vars, ClientStep, Discover, EvaluateRead, Promote, GiveUp, AliasStep, AliasLoad, AliasRead,
      AliasWrite, AliasVerify, AliasRecord, AliasFault, AliasEdit

-----------------------------------------------------------------------------
(* The theorems.                                                           *)

IInv ==
  /\ TypeOK
  /\ LocksHeld
  /\ NumbersAreGapless /\ NumbersInReach
  /\ EvaluationDecides
  /\ PromotionsChain

LEMMA InvInit == Init => IInv
<1> SUFFICES ASSUME Init PROVE IInv
  OBVIOUS
<1>1. TypeOK
  <2>1. << >> \in Seq(Evaluation) /\ << >> \in Seq(Promotion)
    OBVIOUS
  <2>2. 0 \in 0 .. MaxEdits /\ 0 \in 0 .. MaxFaults
    BY RegistryAssumption
  <2>3. QED
    BY <2>1, <2>2 DEF Init, TypeOK
<1>2. Known = {} /\ \A status \in ModelStatus : In(status) = {}
  BY DEF Init, Known, In, Unknown, ModelStatus
<1>3. LocksHeld /\ NumbersInReach
  BY DEF Init, LocksHeld, NumbersInReach, Idle
<1>4. NumbersAreGapless
  BY <1>2, FS_EmptySet DEF NumbersAreGapless
<1>5. EvaluationDecides
  BY DEF Init, EvaluationDecides, Unknown
<1>6. PromotionsChain
  BY <1>2, RegistryAssumption DEF Init, PromotionsChain, ModelStatus
<1>7. QED
  BY <1>1, <1>3, <1>4, <1>5, <1>6 DEF IInv

LEMMA InvCorrect == Spec => []IInv
<1>1. IInv /\ [Next]_vars => IInv'
  BY TypeStep, LocksStep, NumberStep, VerdictStep, ChainStep DEF IInv
<1>2. QED
  BY InvInit, <1>1, PTL DEF Spec

(* Every variable keeps its type, whatever requests meet.                    *)
THEOREM TypeCorrect == Spec => []TypeOK
<1>1. IInv => TypeOK
  BY DEF IInv
<1>2. QED
  BY <1>1, InvCorrect, PTL

(* The numbers of the versions are 1, 2, 3, ...: requests that discover at     *)
(* once never take the same one, and none is left out (_register and the      *)
(* unique constraints of model_versions).                                   *)
THEOREM NumbersHaveNoGaps == Spec => []NumbersAreGapless
<1>1. IInv => NumbersAreGapless
  BY DEF IInv
<1>2. QED
  BY <1>1, InvCorrect, PTL

(* One finished evaluation decides a version, whatever requests evaluate it at *)
(* once, and no version that failed is ever a candidate or a champion         *)
(* (EvaluationService._finish under its two compare-and-swaps).              *)
THEOREM VerdictStands == Spec => []EvaluationDecides
<1>1. IInv => EvaluationDecides
  BY DEF IInv
<1>2. QED
  BY <1>1, InvCorrect, PTL

(* The promotions on record are the history of the champion, without a gap:    *)
(* each names the one it replaced and the last names the one there is         *)
(* (_make_champion and the unique index on CHAMPION).                        *)
THEOREM ChampionsAreAChain == Spec => []PromotionsChain
<1>1. IInv => PromotionsChain
  BY DEF IInv
<1>2. QED
  BY <1>1, InvCorrect, PTL

=============================================================================
