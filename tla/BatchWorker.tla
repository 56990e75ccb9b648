----------------------------- MODULE BatchWorker -----------------------------
(* The batch inference worker (batch_inference/worker.py): it reads the pinned       *)
(* input, predicts with the pinned model and publishes one object whose key is that  *)
(* of the execution. Several attempts at one execution may run, one after another    *)
(* or at once; the store loses answers, the client repeats the call, and somebody    *)
(* with access to the buckets replaces the input or the output.                      *)
EXTENDS Naturals

CONSTANTS
  Attempts,
  Inputs,        \* contents the input object may have
  Pin,           \* the content the dataset version was registered with
  HasChecksum,   \* whether the dataset version records a checksum
  Outputs,       \* contents of an output object
  Forecasts,     \* per input, the outputs the model may produce for it; none if it does not fit
  Size,          \* of each output
  Retries,       \* times the client repeats a call whose answer it did not get
  MaxChanges     \* bound: objects replaced or removed by others

Nothing == "nothing"
Absent  == [body |-> Nothing, claims |-> Nothing]
Objects == [body : Outputs, claims : Outputs]      \* claims: the checksum in the metadata

VARIABLES
  input,      \* what the input object holds
  intact,     \* the files of the model are the ones its manifest lists
  object,     \* the output object
  worker,     \* per attempt: pc; read, made: what it read and predicted; tries; seen: the
              \* ETag it was told; found: history, what the key held when it reported
  changes, tampered     \* changes so far; whether one concerned the output

vars == <<input, intact, object, worker, changes, tampered>>

New == [pc |-> "idle", read |-> Nothing, made |-> Nothing, tries |-> 0, seen |-> Nothing, found |-> Nothing]

Init ==
  /\ input \in Inputs /\ intact = TRUE /\ object = Absent
  /\ worker = [a \in Attempts |-> New]
  /\ changes = 0 /\ tampered = FALSE

Moves(a, w) == worker' = [worker EXCEPT ![a] = w] /\ UNCHANGED <<changes, tampered>>
Failed(a)   == Moves(a, [worker[a] EXCEPT !.pc = "failed"])
Reported(w) == [w EXCEPT !.pc = "done", !.found = object'.body]

(* The input differs from the pinned dataset; without a checksum nobody can tell.   *)
Differs_Never(body) == FALSE
Differs(body)       == HasChecksum /\ body # Pin

Download(a) ==
  /\ worker[a].pc = "idle"
  /\ IF Differs(input) THEN Failed(a)
     ELSE Moves(a, [worker[a] EXCEPT !.pc = "load", !.read = input])
  /\ UNCHANGED <<input, intact, object>>

(* Every file of the model is compared with its manifest.                           *)
Load(a) ==
  /\ worker[a].pc = "load"
  /\ IF intact THEN Moves(a, [worker[a] EXCEPT !.pc = "predict"]) ELSE Failed(a)
  /\ UNCHANGED <<input, intact, object>>

(* Columns, types and nulls are those of the pinned dataset.                        *)
Fits(body) == Forecasts[body] # {}

(* One prediction per row, within the limits on rows and bytes.                     *)
Predict(a) ==
  /\ worker[a].pc = "predict"
  /\ IF ~Fits(worker[a].read) THEN Failed(a)
     ELSE \E o \in Forecasts[worker[a].read] : Moves(a, [worker[a] EXCEPT !.pc = "put", !.made = o])
  /\ UNCHANGED <<input, intact, object>>

(* The store takes an object only where there is none (If-None-Match).              *)
MayPut_Always == TRUE
MayPut       == object = Absent

(* The put, applied by the store; the answer may be lost, and the client repeats    *)
(* the call and learns that there is an object: its own.                            *)
Put(a) ==
  /\ worker[a].pc = "put" /\ MayPut
  /\ object' = [body |-> worker[a].made, claims |-> worker[a].made]
  /\ \/ Moves(a, Reported(worker[a]))
     \/ worker[a].tries < Retries /\ Moves(a, [worker[a] EXCEPT !.tries = @ + 1])
     \/ worker[a].tries = Retries /\ Failed(a)
  /\ UNCHANGED <<input, intact>>

(* There is an object already.                                                      *)
Refused(a) ==
  /\ worker[a].pc = "put" /\ ~MayPut
  /\ Moves(a, [worker[a] EXCEPT !.pc = "head"])
  /\ UNCHANGED <<input, intact, object>>

(* What its metadata and size say of an object.                                     *)
Conflicts(w) == object.claims # w.made \/ Size[object.body] # Size[w.made]

(* HEAD: the object must look like ours. The store may give no ETag.                *)
LookAtHead(a) ==
  /\ worker[a].pc = "head"
  /\ IF object = Absent \/ Conflicts(worker[a]) THEN Failed(a)
     ELSE \E tag \in {object.body, Nothing} : Moves(a, [worker[a] EXCEPT !.pc = "verify", !.seen = tag])
  /\ UNCHANGED <<input, intact, object>>

(* The bytes are read again and must be ours.                                       *)
Same_ByName(w) == TRUE
Same(w)        == object.body = w.made

(* GET, if the ETag still matches.                                                  *)
Verify(a) ==
  /\ worker[a].pc = "verify"
  /\ UNCHANGED <<input, intact, object>>
  /\ LET w == worker[a]
     IN IF object = Absent \/ w.seen \notin {object.body, Nothing} \/ Conflicts(w) \/ ~Same(w)
        THEN Failed(a) ELSE Moves(a, Reported(w))

(* A crash, a lost pod, or an error in any call that is not repeated any more.      *)
Crash(a) ==
  /\ worker[a].pc \in {"idle", "load", "predict", "put", "head", "verify"}
  /\ Failed(a)
  /\ UNCHANGED <<input, intact, object>>

Others ==
  /\ changes < MaxChanges /\ changes' = changes + 1
  /\ \/ /\ input' \in Inputs \ {input} /\ UNCHANGED <<intact, object, tampered>>
     \/ /\ intact /\ intact' = FALSE /\ UNCHANGED <<input, object, tampered>>
     \/ /\ object' \in (Objects \cup {Absent}) \ {object} /\ tampered' = TRUE /\ UNCHANGED <<input, intact>>
  /\ UNCHANGED worker

Step(a) == Download(a) \/ Load(a) \/ Predict(a) \/ Put(a) \/ Refused(a) \/ LookAtHead(a) \/ Verify(a)
Next == Others \/ \E a \in Attempts : Step(a) \/ Crash(a)

(* Calls have timeouts and a bounded number of repetitions.                          *)
Spec == Init /\ [][Next]_vars /\ \A a \in Attempts : WF_vars(Step(a))

Done == {a \in Attempts : worker[a].pc = "done"}

(* SAFETY. What an attempt reports is what the key held when it reported, even if    *)
(* others write there and forge the metadata; as long as they do not, all attempts   *)
(* of an execution report one result, the one that is stored, although the model may *)
(* predict differently each time; and with a checksum it follows from the pinned     *)
(* input, whatever became of the input object.                                       *)
ResultIsStored ==
  /\ \A a \in Done : worker[a].found = worker[a].made
  /\ ~tampered => \A a \in Done : object.body = worker[a].made
  /\ HasChecksum => \A a \in Done : worker[a].made \in Forecasts[Pin]

=============================================================================
