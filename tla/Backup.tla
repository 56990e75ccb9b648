-------------------------------- MODULE Backup --------------------------------
(* Backup and restore of the control plane's database (scripts/                      *)
(* controlplane_backup.py): processes that may fail or be killed at every step write  *)
(* a dump and a manifest into one directory while the platform writes to the          *)
(* database; others restore them while somebody may write to the target.              *)
EXTENDS Naturals

CONSTANTS
  Backups, Restores,      \* processes; all of them use the same directory and target
  Contents,               \* what a database may hold
  Counts,                 \* its schema heads and row counts
  MaxWrites               \* bound on the writes of others

Nothing == "nothing"
Part    == "part"         \* a file, or a database, that is not complete

VARIABLES
  live, target,           \* the two databases
  directory,              \* [exists, dump, manifest]
  backup, restore,        \* the processes
  writes

vars == <<live, target, directory, backup, restore, writes>>

NoManifest == [state |-> Nothing, dump |-> Nothing, counts |-> 0]

Init ==
  /\ live \in Contents /\ target = Nothing
  /\ directory = [exists |-> FALSE, dump |-> Nothing, manifest |-> NoManifest]
  /\ backup = [b \in Backups |-> [pc |-> "begin", snapshot |-> Nothing, counts |-> 0, digest |-> Nothing, seen |-> {}]]
  /\ restore = [r \in Restores |-> [pc |-> "begin", manifest |-> NoManifest, loaded |-> Nothing]]
  /\ writes = 0

Goes(b, x) == backup' = [backup EXCEPT ![b] = x]
Back(r, x) == restore' = [restore EXCEPT ![r] = x]

-----------------------------------------------------------------------------
(* A backup. *)

(* The directory must be new; this is before anything is cleaned up after a failure.  *)
Mkdir(b) ==
  /\ backup[b].pc = "begin"
  /\ IF directory.exists THEN Goes(b, [backup[b] EXCEPT !.pc = "refused"]) /\ UNCHANGED directory
     ELSE /\ directory' = [directory EXCEPT !.exists = TRUE]
          /\ Goes(b, [backup[b] EXCEPT !.pc = "snapshot", !.seen = {live}])
  /\ UNCHANGED <<live, target, restore, writes>>

(* A session exports its snapshot and stays open.                                     *)
Snapshot(b) ==
  /\ backup[b].pc = "snapshot"
  /\ Goes(b, [backup[b] EXCEPT !.pc = "dump", !.snapshot = live])
  /\ UNCHANGED <<live, target, directory, restore, writes>>

(* The file is made, pg_dump fills it from the snapshot.                              *)
Touch(b) ==
  /\ backup[b].pc = "dump"
  /\ directory' = [directory EXCEPT !.dump = Part]
  /\ Goes(b, [backup[b] EXCEPT !.pc = "dumping"])
  /\ UNCHANGED <<live, target, restore, writes>>

Dump(b) ==
  /\ backup[b].pc = "dumping"
  /\ directory' = [directory EXCEPT !.dump = backup[b].snapshot]
  /\ Goes(b, [backup[b] EXCEPT !.pc = "count"])
  /\ UNCHANGED <<live, target, restore, writes>>

(* Schema heads and counts, of the same snapshot.                                     *)
Counted_Live(b) == Counts[live]
Counted(b) == Counts[backup[b].snapshot]

Count(b) ==
  /\ backup[b].pc = "count"
  /\ Goes(b, [backup[b] EXCEPT !.pc = "digest", !.counts = Counted(b)])
  /\ UNCHANGED <<live, target, directory, restore, writes>>

Digest(b) ==
  /\ backup[b].pc = "digest"
  /\ Goes(b, [backup[b] EXCEPT !.pc = "manifest", !.digest = directory.dump])
  /\ UNCHANGED <<live, target, directory, restore, writes>>

(* The manifest comes last: made, then written.                                       *)
TouchManifest(b) ==
  /\ backup[b].pc = "manifest"
  /\ directory' = [directory EXCEPT !.manifest.state = Part]
  /\ Goes(b, [backup[b] EXCEPT !.pc = "write"])
  /\ UNCHANGED <<live, target, restore, writes>>

WriteManifest(b) ==
  /\ backup[b].pc = "write"
  /\ directory' = [directory EXCEPT !.manifest = [state |-> "whole", dump |-> backup[b].digest, counts |-> backup[b].counts]]
  /\ Goes(b, [backup[b] EXCEPT !.pc = "done"])
  /\ UNCHANGED <<live, target, restore, writes>>

Running(b) == backup[b].pc \in {"snapshot", "dump", "dumping", "count", "digest", "manifest", "write"}

(* A tool, the session or the disk fails: the manifest goes, the dump stays as it is. *)
Fail(b) ==
  /\ Running(b)
  /\ directory' = [directory EXCEPT !.manifest = NoManifest]
  /\ Goes(b, [backup[b] EXCEPT !.pc = "failed"])
  /\ UNCHANGED <<live, target, restore, writes>>

(* SIGKILL, or the host goes.                                                         *)
Kill(b) ==
  /\ Running(b) /\ Goes(b, [backup[b] EXCEPT !.pc = "killed"])
  /\ UNCHANGED <<live, target, directory, restore, writes>>

-----------------------------------------------------------------------------
(* A restore. *)

Genuine_AnyDump == TRUE
Genuine == directory.dump = directory.manifest.dump

(* The manifest is whole, the digest is that of the dump, and the archive is readable. *)
Readable ==
  /\ directory.manifest.state = "whole"
  /\ Genuine
  /\ directory.dump \in Contents

Verify(r) ==
  /\ restore[r].pc = "begin" /\ directory.exists
  /\ Back(r, [restore[r] EXCEPT !.pc = IF Readable THEN "verified" ELSE "failed", !.manifest = directory.manifest])
  /\ UNCHANGED <<live, target, directory, backup, writes>>

Look(r) ==
  /\ restore[r].pc = "verified"
  /\ Back(r, [restore[r] EXCEPT !.pc = IF target = Nothing THEN "load" ELSE "failed"])
  /\ UNCHANGED <<live, target, directory, backup, writes>>

(* pg_restore: one transaction that ends at the first error.                          *)
Loaded_InParts == {directory.dump, Part}
Loaded == {directory.dump}

Load(r) ==
  /\ restore[r].pc = "load"
  /\ \/ /\ target = Nothing /\ target' \in Loaded
        /\ Back(r, IF target' = Part THEN [restore[r] EXCEPT !.pc = "failed"]
                   ELSE [restore[r] EXCEPT !.pc = "compare", !.loaded = target'])
     \/ Back(r, [restore[r] EXCEPT !.pc = "failed"]) /\ UNCHANGED target
  /\ UNCHANGED <<live, directory, backup, writes>>

(* The heads and the counts of what is there now.                                     *)
Compare(r) ==
  /\ restore[r].pc = "compare"
  /\ Back(r, [restore[r] EXCEPT !.pc = IF target \in Contents /\ Counts[target] = restore[r].manifest.counts THEN "restored" ELSE "failed"])
  /\ UNCHANGED <<live, target, directory, backup, writes>>

-----------------------------------------------------------------------------
(* Others. *)

Write ==
  /\ writes < MaxWrites /\ writes' = writes + 1
  /\ live' \in Contents \ {live}
  /\ backup' = [b \in Backups |-> IF Running(b) THEN [backup[b] EXCEPT !.seen = @ \cup {live'}] ELSE backup[b]]
  /\ UNCHANGED <<target, directory, restore>>

(* A platform is started on the target, or writes to it.                              *)
Interfere ==
  /\ writes < MaxWrites /\ writes' = writes + 1
  /\ target' \in Contents \ {target}
  /\ UNCHANGED <<live, directory, backup, restore>>

(* The dump is damaged or mixed up with another where it is kept; not between the     *)
(* check of its digest and the restore, which read the file twice.                    *)
Damage ==
  /\ writes < MaxWrites /\ writes' = writes + 1
  /\ directory.dump # Nothing /\ ~\E b \in Backups : Running(b)
  /\ ~\E r \in Restores : restore[r].pc \in {"verified", "load"}
  /\ directory' = [directory EXCEPT !.dump = CHOOSE c \in Contents : c # directory.dump]
  /\ UNCHANGED <<live, target, backup, restore>>

Run(b) ==
  \/ Mkdir(b) \/ Snapshot(b) \/ Touch(b) \/ Dump(b) \/ Count(b) \/ Digest(b)
  \/ TouchManifest(b) \/ WriteManifest(b) \/ Fail(b) \/ Kill(b)
Next ==
  \/ \E b \in Backups : Run(b)
  \/ \E r \in Restores : Verify(r) \/ Look(r) \/ Load(r) \/ Compare(r)
  \/ Write \/ Interfere \/ Damage

Spec == Init /\ [][Next]_vars

-----------------------------------------------------------------------------

Done == {b \in Backups : backup[b].pc = "done"}

(* SAFETY. What a backup reported as complete is what the database held at one moment *)
(* of that backup, with the counts of that moment, whatever was written meanwhile and *)
(* whoever else tried the same directory; what failed or was killed before its end    *)
(* passes for no backup; what is reported as restored was loaded from a complete one, *)
(* and the target never holds a part of one.                                          *)
BackupsRestore ==
  /\ \A b \in Done :
       LET made == directory.manifest
       IN made.state = "whole" /\ made.dump \in backup[b].seen /\ made.counts = Counts[made.dump]
  /\ Readable => \E b \in Done : directory.dump \in backup[b].seen
  /\ \A r \in Restores : restore[r].loaded # Nothing =>
       \E b \in Done : restore[r].loaded \in backup[b].seen
  /\ target # Part

=============================================================================
