-------------------------- MODULE StorageInitializer --------------------------
(* The init container that fetches a model before its server starts               *)
(* (services/storage-initializer-go/main.go): it lists the objects under a prefix  *)
(* page by page, a bounded pool of workers downloads them into a hidden directory  *)
(* of the volume, and the finished top-level entries are renamed into place.       *)
(* Meanwhile objects are replaced, calls fail, the container is asked to stop or   *)
(* is killed, and the kubelet starts it again on the same volume.                  *)
EXTENDS FiniteSets, SequencesExt

CONSTANTS
  Listing,       \* names under the prefix, in the order of the store: each a sequence of path components
  PageSize,      \* how many of them a page lists
  Bodies,      \* contents an object may have
  Stores,        \* what the bucket may hold at first
  Size,          \* bytes of each content
  MaxObjects,    \* S3_MAX_OBJECTS
  MaxBytes,      \* S3_MAX_DOWNLOAD_BYTES
  Workers,       \* S3_MAX_FILE_CONCURRENCY of them
  MaxRuns,       \* bound: starts of the container
  MaxChanges     \* bound: objects replaced or removed

ObjectNames  == ToSet(Listing)
Absent == "absent"
Exact  == <<>>                 \* the name, under the prefix, of an object whose key is the prefix
Top(name) == IF name = Exact THEN "base" ELSE Head(name)

VARIABLES
  bucket,     \* per name, what its object holds
  pc,         \* where the program is: see the actions; "off", "failed", "succeeded", "killed" between runs
  page,       \* how many names were listed
  items,      \* the objects listed so far
  todo,       \* listed objects no worker has taken yet
  worker,     \* per worker, the object it downloads, if any
  left,       \* workers that have returned
  failed,     \* some worker reported a failure
  cancelled,  \* the context is cancelled
  stage,      \* files in the hidden directory; it exists while staged
  staged,
  placed,     \* files in place
  starts, changes, kills

vars == <<bucket, pc, page, items, todo, worker, left, failed, cancelled,
          stage, staged, placed, starts, changes, kills>>
pool == <<todo, worker, left, failed, cancelled>>
disk == <<stage, staged, placed>>
env  == <<bucket, starts, changes, kills>>

Ended == {"off", "failed", "succeeded", "killed"}

Init ==
  /\ bucket \in Stores
  /\ pc = "off" /\ page = 0 /\ items = {}
  /\ todo = {} /\ worker = [w \in Workers |-> {}] /\ left = Workers /\ failed = FALSE /\ cancelled = FALSE
  /\ stage = {} /\ staged = FALSE /\ placed = {}
  /\ starts = 0 /\ changes = 0 /\ kills = 0

(* The volume must be empty; a hidden directory left behind counts too.           *)
EmptyVolume_Visible == placed = {}
EmptyVolume         == ~staged /\ placed = {}

(* An init container is started again until it succeeds, on the same volume.       *)
Start ==
  /\ pc \in Ended \ {"succeeded"} /\ starts < MaxRuns
  /\ starts' = starts + 1
  /\ pc' = IF EmptyVolume THEN "list" ELSE "failed"
  /\ page' = 0 /\ items' = {}
  /\ todo' = {} /\ worker' = [w \in Workers |-> {}] /\ left' = Workers /\ failed' = FALSE /\ cancelled' = FALSE
  /\ UNCHANGED <<disk, bucket, changes, kills>>

Fail == pc' = "failed" /\ UNCHANGED <<page, items, pool, disk, env>>

Listed(last) ==
  {[name |-> Listing[i], version |-> bucket[Listing[i]]] :
     i \in {j \in page + 1 .. last : bucket[Listing[j]] # Absent}}

TotalSize(set) == FoldSet(LAMBDA item, sum : Size[item.version] + sum, 0, set)
TooLarge(set) == Cardinality(set) > MaxObjects \/ TotalSize(set) > MaxBytes

(* A file would also have to be a directory.                                       *)
Collides(set) ==
  \E x, y \in set : x # y /\ Len(x.name) < Len(y.name) /\ IsPrefix(x.name, y.name)

(* One page of the listing. An object whose key is the whole prefix is the model,  *)
(* whatever else begins with it; it comes first.                                   *)
List ==
  /\ pc = "list" /\ page < Len(Listing)
  /\ LET last == IF page + PageSize < Len(Listing) THEN page + PageSize ELSE Len(Listing)
         new  == Listed(last)
         alone == {item \in new : item.name = Exact}
     IN IF (alone = {} /\ TooLarge(items \cup new)) \/ TotalSize(alone) > MaxBytes THEN Fail
        ELSE /\ page'  = IF alone = {} THEN last ELSE Len(Listing)
             /\ items' = IF alone = {} THEN items \cup new ELSE alone
             /\ UNCHANGED <<pc, pool, disk, env>>

(* The whole list is checked, the hidden directory made and the workers started.   *)
Stage ==
  /\ pc = "list" /\ page = Len(Listing)
  /\ IF items = {} \/ Collides(items) THEN Fail
     ELSE /\ pc' = "download" /\ todo' = items
          /\ left' = {}
          /\ staged' = TRUE
          /\ UNCHANGED <<page, items, worker, failed, cancelled, stage, placed, env>>

(* A worker that finds the context cancelled leaves with what it was handed.        *)
Take(w) ==
  /\ pc = "download" /\ w \notin left /\ worker[w] = {}
  /\ \E item \in todo :
       /\ todo' = todo \ {item}
       /\ IF cancelled THEN left' = left \cup {w} /\ UNCHANGED worker
          ELSE worker' = [worker EXCEPT ![w] = {item}] /\ UNCHANGED left
  /\ UNCHANGED <<pc, page, items, failed, cancelled, disk, env>>

(* The object still is the one that was listed (If-Match, length).                  *)
Unchanged_Size(item) == bucket[item.name] # Absent /\ Size[bucket[item.name]] = Size[item.version]
Unchanged(item)      == bucket[item.name] = item.version

Downloaded(w) ==
  /\ pc = "download"
  /\ \E item \in worker[w] :
       Unchanged(item) /\ stage' = stage \cup {[item EXCEPT !.version = bucket[item.name]]}
  /\ worker' = [worker EXCEPT ![w] = {}]
  /\ UNCHANGED <<pc, page, items, todo, left, failed, cancelled, staged, placed, env>>

(* What a worker does about its own failure, for the others.                        *)
Reported_Quietly ==
  failed' = TRUE /\ UNCHANGED cancelled
Reported ==
  failed' = TRUE /\ cancelled' = TRUE

(* The object changed, the call failed or the context ended under it; half a file   *)
(* stays in the hidden directory.                                                   *)
Broke(w) ==
  /\ pc = "download" /\ worker[w] # {}
  /\ worker' = [worker EXCEPT ![w] = {}] /\ left' = left \cup {w}
  /\ Reported
  /\ UNCHANGED <<pc, page, items, todo, disk, env>>

StopDispatch ==
  /\ pc = "download" /\ cancelled /\ todo # {}
  /\ todo' = {}
  /\ UNCHANGED <<pc, page, items, worker, left, failed, cancelled, disk, env>>

Spoilt_ByUs  == failed
Spoilt       == failed \/ cancelled

(* Everything was dispatched and every worker is done.                              *)
Wait ==
  /\ pc = "download" /\ todo = {} /\ \A w \in Workers : worker[w] = {}
  /\ pc' = IF Spoilt THEN "clean" ELSE "publish"
  /\ UNCHANGED <<page, items, pool, disk, env>>

Entries == {Top(item.name) : item \in stage}

Publish ==
  /\ pc = "publish"
  /\ IF stage = {} THEN /\ pc' = "succeeded" /\ staged' = FALSE /\ UNCHANGED <<stage, placed>>
     ELSE \E e \in Entries :
       LET moved == {item \in stage : Top(item.name) = e}
       IN /\ stage' = stage \ moved /\ placed' = placed \cup moved
          /\ UNCHANGED <<pc, staged>>
  /\ UNCHANGED <<page, items, pool, env>>

(* A rename fails: what was published is removed again.                             *)
RolledBack_Kept == placed
RolledBack      == {}

Rollback ==
  /\ pc = "publish" /\ stage # {}
  /\ placed' = RolledBack /\ pc' = "clean"
  /\ UNCHANGED <<page, items, pool, stage, staged, env>>

Clean ==
  /\ pc = "clean"
  /\ stage' = {} /\ staged' = FALSE /\ pc' = "failed"
  /\ UNCHANGED <<page, items, pool, placed, env>>

(* SIGTERM or the overall timeout: a listing call fails with it, as it may by       *)
(* itself; downloads see it through the context; publishing does not look any more. *)
Cancel ==
  \/ pc = "list" /\ Fail
  \/ /\ pc = "download" /\ ~cancelled
     /\ cancelled' = TRUE
     /\ UNCHANGED <<pc, page, items, todo, worker, left, failed, disk, env>>

(* SIGKILL: the volume stays as it is.                                              *)
Kill ==
  /\ pc \notin Ended
  /\ pc' = "killed" /\ kills' = kills + 1
  /\ UNCHANGED <<page, items, pool, disk, bucket, starts, changes>>

Replace ==
  /\ changes < MaxChanges /\ pc \in {"list", "download"}
  /\ \E n \in ObjectNames, v \in Bodies \cup {Absent} : v # bucket[n] /\ bucket' = [bucket EXCEPT ![n] = v]
  /\ changes' = changes + 1
  /\ UNCHANGED <<pc, page, items, pool, disk, starts, kills>>

Work(w) == Take(w) \/ Downloaded(w) \/ Broke(w)
Step == List \/ Stage \/ StopDispatch \/ Wait \/ Publish \/ Rollback \/ Clean

Next == Start \/ Step \/ Cancel \/ Kill \/ Replace \/ \E w \in Workers : Work(w)

(* Calls end: every one has a timeout. Nobody has to cancel, kill or restart.       *)
Fairness == WF_vars(Step) /\ \A w \in Workers : WF_vars(Work(w))

Spec == Init /\ [][Next]_vars /\ Fairness

(* SAFETY. A server that is let start finds exactly the files that were listed,     *)
(* with the contents that were listed and nothing half done beside them; a run that *)
(* fails by itself leaves nothing, and so does not stand in the way of the next one. *)
ModelIsWhole ==
  /\ pc = "succeeded" => placed = items /\ items # {} /\ ~staged
  /\ pc = "failed" /\ kills = 0 => EmptyVolume

(* LIVENESS. Whatever fails or is cancelled while workers and the dispatcher wait   *)
(* for each other, a run comes to an end.                                           *)
EveryDownloadEnds == []<>(pc \in Ended)

=============================================================================
