------------------------------- MODULE Backup -------------------------------
(***************************************************************************)
(* The offline commands of admin.rs: backup of a data directory into a     *)
(* snapshot, restore of the snapshot into another directory, and the scan  *)
(* of a directory, between runs of the server on either directory.         *)
(*                                                                         *)
(* A directory holds meta.redb and part files named by their content.      *)
(* Both commands copy file by file and can be killed, or fail, in the      *)
(* middle of one: that file is then torn.  Neither leaves a mark that says *)
(* how far it came.  The server is reduced to what it does to a directory  *)
(* as a whole; ObjectStore has the details.                                *)
(***************************************************************************)
EXTENDS FiniteSets, Naturals

CONSTANTS
  Buckets, Parts,
  NoFile, Torn,       \* what meta.redb can be besides a database
  MaxOps, MaxFaults   \* bounds on the server's changes, on interruptions

VARIABLES
  dir,     \* "source", "snapshot" and "target": [meta, file]
  server,  \* the directory a server runs on, or "none"
  deleted, \* buckets deleted since it started: a put may still be under way
  backup,  \* [pc, todo, missing, quiet]
  restore, \* [pc, todo, sound, excused, leftover, lost]
  ops, faults

vars == <<dir, server, deleted, backup, restore, ops, faults>>

\* What meta.redb says: the buckets, and which parts the manifests under each
\* bucket name refer to.
Databases == [buckets : SUBSET Buckets, refs : SUBSET (Buckets \X Parts)]
Empty == [buckets |-> {}, refs |-> {}]
Files == [Parts -> {"absent", "torn", "whole"}]

\* A database is not mistaken for a file that is missing or cut short.
ASSUME BackupAssumption ==
  /\ NoFile \notin Databases /\ Torn \notin Databases /\ NoFile # Torn
  /\ MaxOps \in Nat /\ MaxFaults \in Nat

PartsOf(refs) == {ref[2] : ref \in refs}

\* The manifests that can be reached: those of a bucket that exists.
Listed(db) == {ref \in db.refs : ref[1] \in db.buckets}

Present(d) == {h \in Parts : dir[d].file[h] # "absent"}

\* What scan_rebuild reports: files that do not hash to their name.  It does not
\* open the database, so a part that is not there is not reported.
Corrupted(d) == {h \in Parts : dir[d].file[h] = "torn"}

Init ==
  /\ dir = [d \in {"source", "snapshot", "target"} |->
              [meta |-> IF d = "source" THEN Empty ELSE NoFile,
               file |-> [h \in Parts |-> "absent"]]]
  /\ server = "none" /\ deleted = {}
  /\ backup = [pc |-> "idle", todo |-> {}, missing |-> {}, quiet |-> FALSE]
  /\ restore = [pc |-> "idle", todo |-> {}, sound |-> FALSE, excused |-> {},
                leftover |-> {}, lost |-> {}]
  /\ ops = 0 /\ faults = 0

------------------------------------------------------------------------------
(* The server.                                                             *)

\* The server opens the database or creates one, and keeps it locked.  The lock
\* that backup takes is released before it copies anything.
StartServer(d) ==
  /\ server = "none"
  /\ dir[d].meta # Torn
  /\ server' = d /\ deleted' = {}
  /\ dir' = IF dir[d].meta = NoFile THEN [dir EXCEPT ![d].meta = Empty] ELSE dir
  /\ backup' = [backup EXCEPT !.quiet = @ /\ ~ (d = "source" /\ backup.pc \in {"meta", "parts"})]
  /\ UNCHANGED <<restore, ops, faults>>

StopServer ==
  /\ server # "none"
  /\ server' = "none" /\ deleted' = {}
  /\ UNCHANGED <<dir, backup, restore, ops, faults>>

\* A server whose database was overwritten in use fails every request.
Serving == server # "none" /\ dir[server].meta \in Databases

Change(meta, file) ==
  /\ ops < MaxOps
  /\ ops' = ops + 1
  /\ dir' = [dir EXCEPT ![server] = [meta |-> meta, file |-> file]]
  /\ UNCHANGED <<server, backup, restore, faults>>

CreateBucket(b) ==
  /\ Serving
  /\ Change([dir[server].meta EXCEPT !.buckets = @ \cup {b}], dir[server].file)
  /\ UNCHANGED deleted

\* delete_bucket refuses a bucket that has manifests.
DeleteBucket(b) ==
  /\ Serving
  /\ b \in dir[server].meta.buckets
  /\ ~ \E ref \in dir[server].meta.refs : ref[1] = b
  /\ Change([dir[server].meta EXCEPT !.buckets = @ \ {b}], dir[server].file)
  /\ deleted' = deleted \cup {b}

\* A body is stored unless a file with its name is there already, whatever that
\* file holds.  The handler looked for the bucket first, or for the manifest of an
\* upload; the manifest is stored even if the bucket has been deleted since.
Put(b, h) ==
  /\ Serving
  /\ \/ b \in dir[server].meta.buckets \cup deleted
     \/ \E ref \in dir[server].meta.refs : ref[1] = b
  /\ Change([dir[server].meta EXCEPT !.refs = @ \cup {<<b, h>>}],
            [dir[server].file EXCEPT ![h] = IF @ = "absent" THEN "whole" ELSE @])
  /\ UNCHANGED deleted

\* The file of a part that lost its last reference is removed, at once or later.
Delete(b, h) ==
  /\ Serving
  /\ <<b, h>> \in dir[server].meta.refs
  /\ LET refs == dir[server].meta.refs \ {<<b, h>>}
     IN \E gone \in SUBSET ({h} \ PartsOf(refs)) :
          Change([dir[server].meta EXCEPT !.refs = refs],
                 [k \in Parts |-> IF k \in gone THEN "absent" ELSE dir[server].file[k]])
  /\ UNCHANGED deleted

\* A part file disappears: a damaged disk, or the race of two requests that
\* ObjectStore shows and that Put and Delete here, being atomic, do not.
LosePart(d, h) ==
  /\ dir[d].file[h] # "absent"
  /\ faults < MaxFaults
  /\ faults' = faults + 1
  /\ dir' = [dir EXCEPT ![d].file[h] = "absent"]
  /\ restore' = IF d = "target" THEN [restore EXCEPT !.lost = @ \cup {h}] ELSE restore
  /\ UNCHANGED <<server, deleted, backup, ops>>

------------------------------------------------------------------------------
(* backup.                                                                 *)

\* Mutant of BackupList: empties the snapshot first.
BackupListAfresh ==
  /\ backup.pc \in {"idle", "done", "failed"}
  /\ server # "source"
  /\ backup' = [pc |-> "meta", todo |-> PartsOf(Listed(dir["source"].meta)),
                missing |-> {}, quiet |-> TRUE]
  /\ restore' = [restore EXCEPT !.sound = @ /\ restore.pc # "parts"]
  /\ dir' = [dir EXCEPT !["snapshot"].file = [h \in Parts |-> "absent"]]
  /\ UNCHANGED <<server, deleted, ops, faults>>

\* The parts that the manifests of the listed buckets refer to, read while the
\* lock is held; it cannot be had while a server runs on the directory.
BackupList ==
  /\ backup.pc \in {"idle", "done", "failed"}
  /\ server # "source"
  /\ backup' = [pc |-> "meta", todo |-> PartsOf(Listed(dir["source"].meta)),
                missing |-> {}, quiet |-> TRUE]
  /\ restore' = [restore EXCEPT !.sound = @ /\ restore.pc # "parts"]
  /\ UNCHANGED <<dir, server, deleted, ops, faults>>

\* The copy of meta.redb; of a database in use it may be anything.
BackupMeta ==
  /\ backup.pc = "meta"
  /\ \E meta \in {dir["source"].meta} \cup (IF server = "source" THEN {Torn} ELSE {}) :
       dir' = [dir EXCEPT !["snapshot"].meta = meta]
  /\ backup' = [backup EXCEPT !.pc = "parts"]
  /\ UNCHANGED <<server, deleted, restore, ops, faults>>

\* Mutant of BackupPart: does not copy a part that the snapshot has already.
BackupPartOnce(h) ==
  /\ backup.pc = "parts" /\ h \in backup.todo
  /\ IF dir["source"].file[h] = "absent"
     THEN /\ backup' = [backup EXCEPT !.todo = @ \ {h}, !.missing = @ \cup {h}]
          /\ UNCHANGED dir
     ELSE /\ backup' = [backup EXCEPT !.todo = @ \ {h}]
          /\ dir' = IF dir["snapshot"].file[h] # "absent" THEN dir
                    ELSE [dir EXCEPT !["snapshot"].file[h] = dir["source"].file[h]]
  /\ UNCHANGED <<server, deleted, restore, ops, faults>>

\* The copy of one part, over whatever the snapshot has under its name.
BackupPart(h) ==
  /\ backup.pc = "parts" /\ h \in backup.todo
  /\ IF dir["source"].file[h] = "absent"
     THEN /\ backup' = [backup EXCEPT !.todo = @ \ {h}, !.missing = @ \cup {h}]
          /\ UNCHANGED dir
     ELSE /\ backup' = [backup EXCEPT !.todo = @ \ {h}]
          /\ dir' = [dir EXCEPT !["snapshot"].file[h] = dir["source"].file[h]]
  /\ UNCHANGED <<server, deleted, restore, ops, faults>>

BackupDone ==
  /\ backup.pc = "parts" /\ backup.todo = {}
  /\ backup' = [backup EXCEPT !.pc = "done"]
  /\ UNCHANGED <<dir, server, deleted, restore, ops, faults>>

\* Killed, or failed with an I/O error, in the middle of a file.
BackupInterrupted ==
  /\ faults < MaxFaults
  /\ faults' = faults + 1
  /\ \/ /\ backup.pc = "meta"
        /\ dir' = [dir EXCEPT !["snapshot"].meta = Torn]
     \/ /\ backup.pc = "parts"
        /\ \E h \in backup.todo : dir' = [dir EXCEPT !["snapshot"].file[h] = "torn"]
  /\ backup' = [backup EXCEPT !.pc = "failed"]
  /\ UNCHANGED <<server, deleted, restore, ops>>

------------------------------------------------------------------------------
(* restore.                                                                *)

\* restore wants a snapshot, and a target without a database.
RestoreRefused == dir["snapshot"].meta = NoFile \/ dir["target"].meta # NoFile

\* restore looks once.  It takes no lock.
RestoreCheck ==
  /\ restore.pc \notin {"checked", "parts"} /\ ~ RestoreRefused
  /\ restore' = [restore EXCEPT !.pc = "checked"]
  /\ UNCHANGED <<dir, server, deleted, backup, ops, faults>>

\* The copy of meta.redb, over a database that a server has created meanwhile; of
\* one that is in use anything may become.  sound: the last backup into this
\* snapshot ended well and had the source to itself, and no server has the target
\* open.  excused: parts that backup reported missing, or that only manifests
\* without a bucket refer to.  leftover: parts that an earlier backup left torn
\* and the last one had no reason to copy again.
RestoreMeta ==
  /\ restore.pc = "checked"
  /\ \E meta \in {dir["snapshot"].meta} \cup (IF server = "target" THEN {Torn} ELSE {}) :
       dir' = [dir EXCEPT !["target"].meta = meta]
  /\ restore' =
       LET sound == backup.pc = "done" /\ backup.quiet /\ server # "target"
           listed == IF sound THEN PartsOf(Listed(dir["snapshot"].meta)) ELSE {}
           named == IF sound THEN PartsOf(dir["snapshot"].meta.refs) ELSE {}
       IN [pc |-> "parts", todo |-> Present("snapshot"), sound |-> sound,
           excused |-> backup.missing \cup (named \ listed),
           leftover |-> Corrupted("snapshot") \ listed, lost |-> {}]
  /\ UNCHANGED <<server, deleted, backup, ops, faults>>

\* Mutant of RestorePart: does not copy over a file.
RestorePartOnce(h) ==
  /\ restore.pc = "parts" /\ h \in restore.todo
  /\ dir' = IF dir["target"].file[h] # "absent" THEN dir
            ELSE [dir EXCEPT !["target"].file[h] = dir["snapshot"].file[h]]
  /\ restore' = [restore EXCEPT !.todo = @ \ {h}]
  /\ UNCHANGED <<server, deleted, backup, ops, faults>>

\* copy_tree: every file under parts/, in the order of the directory.
RestorePart(h) ==
  /\ restore.pc = "parts" /\ h \in restore.todo
  /\ dir' = [dir EXCEPT !["target"].file[h] = dir["snapshot"].file[h]]
  /\ restore' = [restore EXCEPT !.todo = @ \ {h}]
  /\ UNCHANGED <<server, deleted, backup, ops, faults>>

\* The operator removes the database that restore complains about, to restore
\* again, and leaves the part files where they are.
ClearTarget ==
  /\ server # "target" /\ restore.pc \notin {"checked", "parts"}
  /\ dir["target"].meta # NoFile
  /\ dir' = [dir EXCEPT !["target"].meta = NoFile]
  /\ restore' = [restore EXCEPT !.pc = "idle"]
  /\ UNCHANGED <<server, deleted, backup, ops, faults>>

RestoreDone ==
  /\ restore.pc = "parts" /\ restore.todo = {}
  /\ restore' = [restore EXCEPT !.pc = "done"]
  /\ UNCHANGED <<dir, server, deleted, backup, ops, faults>>

\* Killed, or failed with an I/O error, in the middle of a file or before the first.
RestoreInterrupted ==
  /\ faults < MaxFaults
  /\ faults' = faults + 1
  /\ \/ /\ restore.pc = "checked"
        /\ \E meta \in {dir["target"].meta, Torn} : dir' = [dir EXCEPT !["target"].meta = meta]
     \/ /\ restore.pc = "parts"
        /\ \E h \in restore.todo : dir' = [dir EXCEPT !["target"].file[h] = "torn"]
  /\ restore' = [restore EXCEPT !.pc = "failed"]
  /\ UNCHANGED <<server, deleted, backup, ops>>

------------------------------------------------------------------------------
Next ==
  \/ \E d \in {"source", "target"} : StartServer(d)
  \/ StopServer
  \/ \E b \in Buckets : CreateBucket(b) \/ DeleteBucket(b)
  \/ \E b \in Buckets, h \in Parts : Put(b, h) \/ Delete(b, h)
  \/ \E h \in Parts : \/ LosePart("source", h) \/ LosePart("target", h)
                      \/ BackupPart(h) \/ RestorePart(h)
  \/ BackupList \/ BackupMeta \/ BackupDone \/ BackupInterrupted
  \/ RestoreCheck \/ RestoreMeta \/ RestoreDone \/ RestoreInterrupted \/ ClearTarget

Spec == Init /\ [][Next]_vars

------------------------------------------------------------------------------
(* Properties.                                                             *)

\* Every variable has its type, and what restore has still to copy is there to be
\* copied: no command removes a file from a snapshot, whatever runs beside it.
TypeOK ==
  /\ dir \in [{"source", "snapshot", "target"} ->
                [meta : Databases \cup {NoFile, Torn}, file : Files]]
  /\ server \in {"none", "source", "target"} /\ deleted \subseteq Buckets
  /\ backup \in [pc : {"idle", "meta", "parts", "done", "failed"}, todo : SUBSET Parts,
                 missing : SUBSET Parts, quiet : BOOLEAN]
  /\ restore \in [pc : {"idle", "checked", "parts", "done", "failed"}, todo : SUBSET Parts,
                  sound : BOOLEAN, excused : SUBSET Parts, leftover : SUBSET Parts,
                  lost : SUBSET Parts]
  /\ restore.pc = "parts" => restore.todo \subseteq Present("snapshot")
  /\ ops \in 0 .. MaxOps /\ faults \in 0 .. MaxFaults

\* When backup has ended well and no server was started on the source meanwhile,
\* the snapshot can be restored: its database opens, and every part that a
\* listed bucket refers to is there whole or was reported missing, also when an
\* interrupted backup had left torn files in the same snapshot.
SnapshotComplete ==
  backup.pc = "done" /\ backup.quiet
    => /\ dir["snapshot"].meta \in Databases
       /\ \A h \in PartsOf(Listed(dir["snapshot"].meta)) :
            dir["snapshot"].file[h] = "whole" \/ h \in backup.missing

\* After a restore of such a snapshot has ended, also one that repeats an
\* interrupted one, and while a server goes on from there, every object that the
\* target lists has its part whole.  Three kinds of parts are excepted: the excused
\* ones, the leftovers, which a scan reports, and those that are not there because
\* they were lost on the target since: neither restore nor the server's atomic
\* operations cause that, a damaged disk or the race of requests in ObjectStore
\* does.
RestoredIsWhole ==
  restore.pc = "done" /\ restore.sound
    => /\ dir["target"].meta \in Databases
       /\ \A h \in PartsOf(Listed(dir["target"].meta)) \ restore.excused :
            \/ dir["target"].file[h] = "whole"
            \/ h \in restore.leftover \cap Corrupted("target")
            \/ h \in restore.lost \ Present("target")

==============================================================================
