---------------------------- MODULE BackupProofs ----------------------------
(***************************************************************************)
(* That a backup which ended well can be restored, and that a restored     *)
(* directory has its parts, for every number of buckets, parts, changes,   *)
(* losses and interruptions.                                               *)
(***************************************************************************)
EXTENDS Backup, TLAPS

Dirs == {"source", "snapshot", "target"}
Metas == Databases \cup {NoFile, Torn}
Directories == [meta : Metas, file : Files]

------------------------------------------------------------------------------
(* The inductive invariant.                                                *)

Backups == [pc : {"idle", "meta", "parts", "done", "failed"}, todo : SUBSET Parts,
            missing : SUBSET Parts, quiet : BOOLEAN]
Restores == [pc : {"idle", "checked", "parts", "done", "failed"}, todo : SUBSET Parts,
             sound : BOOLEAN, excused : SUBSET Parts, leftover : SUBSET Parts,
             lost : SUBSET Parts]

\* What TypeOK says of each variable by itself.
Typed ==
  /\ dir \in [Dirs -> Directories]
  /\ server \in {"none", "source", "target"} /\ deleted \subseteq Buckets
  /\ backup \in Backups
  /\ restore \in Restores
  /\ ops \in 0 .. MaxOps /\ faults \in 0 .. MaxFaults

\* The source has a database and whole parts: only commands tear files, and none
\* writes to the source.
SourceOK ==
  /\ dir["source"].meta \in Databases
  /\ \A h \in Parts : dir["source"].file[h] # "torn"

\* A backup that has the source to itself, before and after its copy of meta.redb.
BackupOK ==
  /\ backup.pc = "meta" /\ backup.quiet =>
       /\ server # "source"
       /\ backup.todo = PartsOf(Listed(dir["source"].meta))
  /\ backup.pc \in {"parts", "done"} /\ backup.quiet =>
       /\ dir["snapshot"].meta \in Databases
       /\ \A h \in PartsOf(Listed(dir["snapshot"].meta)) :
            \/ dir["snapshot"].file[h] = "whole"
            \/ h \in backup.missing
            \/ backup.pc = "parts" /\ h \in backup.todo

\* What restore has still to copy is in the snapshot, and so is every part that
\* an interrupted restore left torn in the target: files of a snapshot stay.
CopiesOK ==
  /\ restore.pc = "parts" => \A h \in restore.todo : dir["snapshot"].file[h] # "absent"
  /\ \A h \in Parts : dir["target"].file[h] = "torn" => dir["snapshot"].file[h] # "absent"

\* While a restore of a sound snapshot runs, the snapshot is that of the backup
\* which made it sound.
SoundOK ==
  restore.pc = "parts" /\ restore.sound =>
    /\ backup.pc = "done" /\ backup.quiet
    /\ \A h \in Parts : dir["snapshot"].file[h] = "torn"
                          => h \in restore.leftover \cup restore.excused

\* A part that the target refers to, under a bucket or under none, is there, is
\* still to be copied or was lost; one that is torn is a leftover or is still to be copied.
RestoreOK ==
  restore.pc \in {"parts", "done"} /\ restore.sound =>
    /\ dir["target"].meta \in Databases
    /\ \A h \in PartsOf(dir["target"].meta.refs) \ restore.excused :
         \/ dir["target"].file[h] # "absent"
         \/ restore.pc = "parts" /\ h \in restore.todo
         \/ h \in restore.lost
    /\ \A h \in Parts \ restore.excused :
         dir["target"].file[h] = "torn"
           => h \in restore.leftover \/ (restore.pc = "parts" /\ h \in restore.todo)

BackupInv == Typed /\ SourceOK /\ BackupOK /\ CopiesOK /\ SoundOK /\ RestoreOK

------------------------------------------------------------------------------
(* A directory after one of its files was written.                         *)

\* meta.redb of directory d is written.
LEMMA SetMeta ==
  ASSUME Typed, NEW d \in Dirs, NEW m \in Metas, dir' = [dir EXCEPT ![d].meta = m]
  PROVE  /\ dir' \in [Dirs -> Directories]
         /\ dir'[d].meta = m /\ dir'[d].file = dir[d].file
         /\ \A e \in Dirs : e # d => dir'[e] = dir[e]
<1>1. dir \in [Dirs -> Directories]
  BY DEF Typed
<1>2. dir' = [dir EXCEPT ![d] = [dir[d] EXCEPT !.meta = m]]
  OBVIOUS
<1>3. dir[d] \in Directories
  BY <1>1
<1> DEFINE r == [dir[d] EXCEPT !.meta = m]
<1>4. r \in Directories /\ r.meta = m /\ r.file = dir[d].file
  BY <1>3 DEF Directories
<1> HIDE DEF r
<1>5. dir' = [dir EXCEPT ![d] = r]
  BY <1>2 DEF r
<1> QED
  BY <1>1, <1>4, <1>5

\* The file of part h in directory d is written.
LEMMA SetFile ==
  ASSUME Typed, NEW d \in Dirs, NEW h \in Parts, NEW v \in {"absent", "torn", "whole"},
         dir' = [dir EXCEPT ![d].file[h] = v]
  PROVE  /\ dir' \in [Dirs -> Directories]
         /\ dir'[d].meta = dir[d].meta
         /\ dir'[d].file[h] = v /\ \A k \in Parts : k # h => dir'[d].file[k] = dir[d].file[k]
         /\ \A e \in Dirs : e # d => dir'[e] = dir[e]
<1>1. dir \in [Dirs -> Directories]
  BY DEF Typed
<1> DEFINE f == [dir[d].file EXCEPT ![h] = v]
           r == [dir[d] EXCEPT !.file = f]
<1>2. dir' = [dir EXCEPT ![d] = r]
  OBVIOUS
<1>3. dir[d] \in Directories
  BY <1>1
<1>4. dir[d].file \in Files
  BY <1>3 DEF Directories
<1>5. f \in Files /\ f[h] = v /\ \A k \in Parts : k # h => f[k] = dir[d].file[k]
  BY <1>4 DEF Files
<1> HIDE DEF f
<1>6. r \in Directories /\ r.meta = dir[d].meta /\ r.file = f
  BY <1>3, <1>5 DEF Directories
<1> HIDE DEF r
<1> QED
  BY <1>1, <1>2, <1>5, <1>6

\* The type invariant in the terms of this module.
LEMMA Types ==
  ASSUME Typed
  PROVE  /\ dir \in [Dirs -> Directories]
         /\ \A d \in Dirs : /\ dir[d].meta \in Metas /\ dir[d].file \in Files
                            /\ \A h \in Parts : dir[d].file[h] \in {"absent", "torn", "whole"}
         /\ backup.todo \in SUBSET Parts /\ backup.missing \in SUBSET Parts
         /\ restore.todo \in SUBSET Parts
<1>1. dir \in [Dirs -> Directories]
  BY DEF Typed
<1>2. \A d \in Dirs : dir[d].meta \in Metas /\ dir[d].file \in Files
  BY <1>1 DEF Directories
<1>3. \A d \in Dirs, h \in Parts : dir[d].file[h] \in {"absent", "torn", "whole"}
  BY <1>2 DEF Files
<1>4. /\ backup.todo \in SUBSET Parts /\ backup.missing \in SUBSET Parts
      /\ restore.todo \in SUBSET Parts
  BY DEF Typed, Backups, Restores
<1> QED
  BY <1>1, <1>2, <1>3, <1>4

\* The manifests of a database refer to parts, and the listed ones are among them.
LEMMA PartsOfDatabase ==
  ASSUME NEW db \in Databases
  PROVE  /\ db.refs \subseteq Buckets \X Parts /\ db.buckets \subseteq Buckets
         /\ PartsOf(db.refs) \subseteq Parts
         /\ PartsOf(Listed(db)) \subseteq PartsOf(db.refs)
<1>1. db.refs \subseteq Buckets \X Parts /\ db.buckets \subseteq Buckets
  BY DEF Databases
<1>2. ASSUME NEW h \in PartsOf(db.refs)
      PROVE  h \in Parts
  BY <1>1, <1>2 DEF PartsOf
<1>3. Listed(db) \subseteq db.refs
  BY DEF Listed
<1>4. ASSUME NEW h \in PartsOf(Listed(db))
      PROVE  h \in PartsOf(db.refs)
  BY <1>3, <1>4 DEF PartsOf
<1> QED
  BY <1>1, <1>2, <1>4

------------------------------------------------------------------------------
(* The server.                                                             *)

\* Starting and stopping a server: a backup of the source is then no longer quiet.
LEMMA StartStopOK ==
  ASSUME BackupInv, (\E d \in {"source", "target"} : StartServer(d)) \/ StopServer
  PROVE  BackupInv'
<1>1. CASE StopServer
  <2>1. server' = "none" /\ deleted' = {} /\ UNCHANGED <<dir, backup, restore, ops, faults>>
    BY <1>1 DEF StopServer
  <2> QED
    BY <2>1 DEF BackupInv, Typed, SourceOK, BackupOK, CopiesOK, SoundOK, RestoreOK
<1>2. ASSUME NEW d \in {"source", "target"}, StartServer(d)
      PROVE  BackupInv'
  <2>1. /\ server' = d /\ deleted' = {} /\ dir[d].meta # Torn
        /\ UNCHANGED <<restore, ops, faults>>
        /\ dir' = IF dir[d].meta = NoFile THEN [dir EXCEPT ![d].meta = Empty] ELSE dir
        /\ backup' = [backup EXCEPT !.quiet = @ /\ ~ (d = "source"
                                                  /\ backup.pc \in {"meta", "parts"})]
    BY <1>2 DEF StartServer
  <2>2. Empty \in Databases /\ d \in Dirs /\ Empty \in Metas /\ Empty.refs = {}
    BY DEF Empty, Databases, Dirs, Metas
  <2>3. /\ dir' \in [Dirs -> Directories]
        /\ dir'[d].meta \in Databases /\ dir'[d].file = dir[d].file
        /\ dir[d].meta # NoFile => dir' = dir
        /\ \A e \in Dirs : e # d => dir'[e] = dir[e]
    <3>1. dir[d].meta \in Metas
      BY <2>2, Types DEF BackupInv
    <3>2. CASE dir[d].meta = NoFile
      <4>1. dir' = [dir EXCEPT ![d].meta = Empty]
        BY <2>1, <3>2
      <4> QED
        BY <2>2, <3>2, <4>1, SetMeta DEF BackupInv
    <3>3. CASE dir[d].meta # NoFile
      BY <2>1, <2>2, <3>1, <3>3, Types DEF BackupInv, Metas
    <3> QED
      BY <3>2, <3>3
  <2>4. /\ backup'.pc = backup.pc /\ backup'.todo = backup.todo
        /\ backup'.missing = backup.missing
        /\ backup'.quiet \in BOOLEAN
        /\ backup'.quiet => backup.quiet
        /\ backup'.quiet /\ backup.pc \in {"meta", "parts"} => d # "source"
        /\ backup.pc \notin {"meta", "parts"} /\ backup.quiet => backup'.quiet
    BY <2>1 DEF BackupInv, Typed, Backups
  <2>5. backup' \in Backups
    BY <2>1, <2>4 DEF BackupInv, Typed, Backups
  <2>6. Typed'
    BY <2>1, <2>3, <2>5 DEF BackupInv, Typed
  <2>7. /\ dir'["snapshot"] = dir["snapshot"] /\ dir'["target"].file = dir["target"].file
        /\ dir'["source"] = dir["source"]
    <3>1. dir["source"].meta # NoFile
      BY BackupAssumption DEF BackupInv, SourceOK
    <3> QED
      BY <2>3, <3>1 DEF Dirs
  <2>8. SourceOK' /\ CopiesOK'
    BY <2>1, <2>3, <2>7 DEF BackupInv, SourceOK, CopiesOK
  <2>9. BackupOK'
    BY <2>1, <2>4, <2>7 DEF BackupInv, BackupOK
  <2>10. SoundOK'
    BY <2>1, <2>4, <2>7 DEF BackupInv, SoundOK
  <2>11. RestoreOK'
    <3>1. dir["target"].meta \in Databases => dir'["target"].meta = dir["target"].meta
      BY <2>3, BackupAssumption DEF Dirs
    <3> QED
      BY <2>1, <2>7, <3>1 DEF BackupInv, RestoreOK
  <2> QED
    BY <2>6, <2>8, <2>9, <2>10, <2>11 DEF BackupInv
<1> QED
  BY <1>1, <1>2

\* A change by the server that tears nothing, and after which a part that is
\* referred to and absent was so before.
LEMMA ChangeOK ==
  ASSUME BackupInv, NEW m \in Databases, NEW f \in Files, Change(m, f), Serving,
         deleted' \subseteq Buckets,
         \A h \in Parts : f[h] = "torn" => dir[server].file[h] = "torn",
         \A h \in PartsOf(m.refs) :
           f[h] = "absent" => /\ h \in PartsOf(dir[server].meta.refs)
                              /\ dir[server].file[h] = "absent"
  PROVE  BackupInv'
<1>1. /\ server \in {"source", "target"} /\ ops' = ops + 1 /\ ops < MaxOps
      /\ dir' = [dir EXCEPT ![server] = [meta |-> m, file |-> f]]
      /\ UNCHANGED <<server, backup, restore, faults>>
  BY DEF Change, Serving, BackupInv, Typed
<1> DEFINE r == [meta |-> m, file |-> f]
<1>2. r \in Directories /\ r.meta = m /\ r.file = f
  BY DEF Directories, Metas
<1> HIDE DEF r
<1>3. /\ dir' \in [Dirs -> Directories] /\ dir'[server].meta = m /\ dir'[server].file = f
      /\ \A e \in Dirs : e # server => dir'[e] = dir[e]
  BY <1>1, <1>2, Types DEF r, BackupInv, Dirs
<1>4. Typed'
  <2>1. ops' \in 0 .. MaxOps
    BY <1>1, BackupAssumption DEF BackupInv, Typed
  <2> QED
    BY <1>1, <1>3, <2>1 DEF BackupInv, Typed
<1>5. /\ dir'["snapshot"] = dir["snapshot"]
      /\ server # "target" => dir'["target"] = dir["target"]
      /\ server # "source" => dir'["source"] = dir["source"]
  BY <1>1, <1>3 DEF Dirs
<1>6. SourceOK'
  BY <1>1, <1>3, <1>5 DEF BackupInv, SourceOK
<1>7. BackupOK'
  BY <1>1, <1>5 DEF BackupInv, BackupOK
<1>8. CopiesOK' /\ SoundOK'
  BY <1>1, <1>3, <1>5 DEF BackupInv, CopiesOK, SoundOK
<1>9. RestoreOK'
  <2>1. CASE server # "target"
    BY <1>1, <1>5, <2>1 DEF BackupInv, RestoreOK
  <2>2. CASE server = "target"
    BY <1>1, <1>3, <2>2 DEF BackupInv, RestoreOK
  <2> QED
    BY <2>1, <2>2
<1> QED
  BY <1>4, <1>6, <1>7, <1>8, <1>9 DEF BackupInv

\* What a request does to the directory it is served from is such a change.
LEMMA RequestOK ==
  ASSUME BackupInv, NEW b \in Buckets,
         CreateBucket(b) \/ DeleteBucket(b) \/ (\E h \in Parts : Put(b, h) \/ Delete(b, h))
  PROVE  BackupInv'
<1> DEFINE db == dir[server].meta
           g == dir[server].file
<1>1. server \in Dirs
  BY DEF BackupInv, Typed, Serving, CreateBucket, DeleteBucket, Put, Delete, Dirs
<1>2. Serving /\ db \in Databases /\ g \in Files /\ deleted' \subseteq Buckets
  BY <1>1, Types DEF BackupInv, Typed, Serving, CreateBucket, DeleteBucket, Put, Delete
<1>3. db.refs \subseteq Buckets \X Parts /\ db.buckets \subseteq Buckets
  BY <1>2, PartsOfDatabase
<1>4. CASE CreateBucket(b) \/ DeleteBucket(b)
  <2> DEFINE add == [db EXCEPT !.buckets = @ \cup {b}]
             del == [db EXCEPT !.buckets = @ \ {b}]
  <2>1. /\ add \in Databases /\ add.refs = db.refs
        /\ del \in Databases /\ del.refs = db.refs
    BY <1>2, <1>3 DEF Databases
  <2>2. Change(add, g) \/ Change(del, g)
    BY <1>4 DEF CreateBucket, DeleteBucket
  <2> HIDE DEF add, del
  <2> QED
    BY <1>2, <2>1, <2>2, ChangeOK
<1>5. ASSUME NEW h \in Parts, Put(b, h)
      PROVE  BackupInv'
  <2> DEFINE m == [db EXCEPT !.refs = @ \cup {<<b, h>>}]
             f == [g EXCEPT ![h] = IF @ = "absent" THEN "whole" ELSE @]
  <2>1. m \in Databases /\ m.refs = db.refs \cup {<<b, h>>}
    BY <1>2, <1>3 DEF Databases
  <2>2. /\ f \in Files /\ f[h] = (IF g[h] = "absent" THEN "whole" ELSE g[h])
        /\ \A k \in Parts : k # h => f[k] = g[k]
    BY <1>2 DEF Files
  <2>3. Change(m, f)
    BY <1>5 DEF Put
  <2>4. \A k \in PartsOf(m.refs) : k = h \/ k \in PartsOf(db.refs)
    BY <2>1 DEF PartsOf
  <2>5. PartsOf(m.refs) \subseteq Parts
    BY <2>1, PartsOfDatabase
  <2> HIDE DEF m, f
  <2>6. \A k \in Parts : f[k] = "torn" => g[k] = "torn"
    BY <2>2
  <2>7. \A k \in PartsOf(m.refs) : f[k] = "absent" => k \in PartsOf(db.refs) /\ g[k] = "absent"
    BY <2>2, <2>4, <2>5
  <2> QED
    BY <1>2, <2>1, <2>2, <2>3, <2>6, <2>7, ChangeOK
<1>6. ASSUME NEW h \in Parts, Delete(b, h)
      PROVE  BackupInv'
  <2> DEFINE refs == db.refs \ {<<b, h>>}
             m == [db EXCEPT !.refs = refs]
  <2>1. PICK gone \in SUBSET ({h} \ PartsOf(refs)) :
          Change(m, [k \in Parts |-> IF k \in gone THEN "absent" ELSE g[k]])
    BY <1>6 DEF Delete
  <2> DEFINE f == [k \in Parts |-> IF k \in gone THEN "absent" ELSE g[k]]
  <2>2. m \in Databases /\ m.refs = refs
    BY <1>2, <1>3 DEF Databases
  <2>3. PartsOf(refs) \subseteq PartsOf(db.refs)
    BY DEF PartsOf
  <2>4. f \in Files /\ \A k \in Parts : f[k] = (IF k \in gone THEN "absent" ELSE g[k])
    BY <1>2 DEF Files
  <2>5. PartsOf(m.refs) \subseteq Parts
    BY <2>2, PartsOfDatabase
  <2>6. Change(m, f) /\ \A k \in PartsOf(m.refs) : k \notin gone
    BY <2>1, <2>2
  <2> HIDE DEF m, f, refs
  <2>7. \A k \in Parts : f[k] = "torn" => g[k] = "torn"
    BY <2>4
  <2>8. \A k \in PartsOf(m.refs) : f[k] = "absent" => k \in PartsOf(db.refs) /\ g[k] = "absent"
    BY <2>2, <2>3, <2>4, <2>5, <2>6
  <2> QED
    BY <1>2, <2>2, <2>4, <2>6, <2>7, <2>8, ChangeOK
<1> QED
  BY <1>4, <1>5, <1>6

\* A part file that disappears: no command has claimed that one of the source is
\* there, and one of the target is noted as lost.
LEMMA LosePartOK ==
  ASSUME BackupInv, NEW d \in {"source", "target"}, NEW h \in Parts, LosePart(d, h)
  PROVE  BackupInv'
<1>1. /\ faults < MaxFaults /\ faults' = faults + 1
      /\ dir' = [dir EXCEPT ![d].file[h] = "absent"]
      /\ restore' = IF d = "target" THEN [restore EXCEPT !.lost = @ \cup {h}] ELSE restore
      /\ UNCHANGED <<server, deleted, backup, ops>>
  BY DEF LosePart
<1>2. /\ dir' \in [Dirs -> Directories]
      /\ dir'[d].meta = dir[d].meta
      /\ dir'[d].file[h] = "absent"
      /\ \A k \in Parts : k # h => dir'[d].file[k] = dir[d].file[k]
      /\ \A e \in Dirs : e # d => dir'[e] = dir[e]
  <2>1. d \in Dirs /\ Typed
    BY DEF Dirs, BackupInv
  <2> QED
    BY <1>1, <2>1, SetFile
<1>3. /\ dir'["snapshot"] = dir["snapshot"]
      /\ d = "source" => dir'["target"] = dir["target"] /\ restore' = restore
      /\ d = "target" => dir'["source"] = dir["source"]
  BY <1>1, <1>2 DEF Dirs
<1>4. /\ restore' \in Restores /\ restore'.pc = restore.pc /\ restore'.sound = restore.sound
      /\ restore'.todo = restore.todo /\ restore'.excused = restore.excused
      /\ restore'.leftover = restore.leftover
      /\ d = "target" => restore'.lost = restore.lost \cup {h}
  <2>1. CASE d = "target"
    BY <1>1, <2>1 DEF BackupInv, Typed, Restores
  <2>2. CASE d # "target"
    BY <1>1, <2>2 DEF BackupInv, Typed
  <2> QED
    BY <2>1, <2>2
<1>5. Typed'
  <2>1. faults' \in 0 .. MaxFaults
    BY <1>1, BackupAssumption DEF BackupInv, Typed
  <2> QED
    BY <1>1, <1>2, <1>4, <2>1 DEF BackupInv, Typed
<1>6. SourceOK' /\ BackupOK'
  BY <1>1, <1>2, <1>3 DEF BackupInv, SourceOK, BackupOK
<1>7. CopiesOK' /\ SoundOK'
  BY <1>1, <1>2, <1>3, <1>4 DEF BackupInv, CopiesOK, SoundOK
<1>8. RestoreOK'
  <2>1. CASE d = "source"
    BY <1>3, <2>1 DEF BackupInv, RestoreOK
  <2>2. CASE d = "target"
    <3> SUFFICES ASSUME restore.pc \in {"parts", "done"}, restore.sound
                 PROVE  RestoreOK'
      BY <1>4 DEF RestoreOK
    <3>1. PartsOf(dir["target"].meta.refs) \subseteq Parts /\ dir["target"].meta \in Databases
      BY PartsOfDatabase DEF BackupInv, RestoreOK
    <3> QED
      BY <1>2, <1>4, <2>2, <3>1 DEF BackupInv, RestoreOK
  <2> QED
    BY <2>1, <2>2
<1> QED
  BY <1>5, <1>6, <1>7, <1>8 DEF BackupInv

------------------------------------------------------------------------------
(* backup.                                                                 *)

\* The beginning and the end of a backup.  A restore that runs beside a new backup
\* is no longer sound.
LEMMA BackupControlOK ==
  ASSUME BackupInv, BackupList \/ BackupDone
  PROVE  BackupInv'
<1>1. CASE BackupList
  <2>1. /\ server # "source" /\ UNCHANGED <<dir, server, deleted, ops, faults>>
        /\ backup' = [pc |-> "meta", todo |-> PartsOf(Listed(dir["source"].meta)),
                      missing |-> {}, quiet |-> TRUE]
        /\ restore' = [restore EXCEPT !.sound = @ /\ restore.pc # "parts"]
    BY <1>1 DEF BackupList
  <2>2. PartsOf(Listed(dir["source"].meta)) \subseteq Parts
    BY PartsOfDatabase DEF BackupInv, SourceOK
  <2>3. /\ backup'.pc = "meta" /\ backup'.todo = PartsOf(Listed(dir["source"].meta))
        /\ backup' \in Backups
    BY <2>1, <2>2 DEF Backups
  <2>4. /\ restore'.pc = restore.pc /\ restore'.todo = restore.todo
        /\ restore'.excused = restore.excused /\ restore'.leftover = restore.leftover
        /\ restore'.lost = restore.lost /\ restore'.sound \in BOOLEAN
        /\ restore'.sound => restore.sound /\ restore.pc # "parts"
    BY <2>1 DEF BackupInv, Typed, Backups, Restores
  <2>5. restore' \in Restores
    BY <2>1, <2>4 DEF BackupInv, Typed, Restores
  <2>6. Typed' /\ SourceOK'
    BY <2>1, <2>3, <2>5 DEF BackupInv, Typed, SourceOK
  <2>7. BackupOK'
    BY <2>1, <2>3 DEF BackupOK
  <2>8. CopiesOK' /\ SoundOK' /\ RestoreOK'
    BY <2>1, <2>4 DEF BackupInv, CopiesOK, SoundOK, RestoreOK
  <2> QED
    BY <2>6, <2>7, <2>8 DEF BackupInv
<1>2. CASE BackupDone
  <2>1. /\ backup.pc = "parts" /\ backup.todo = {}
        /\ backup' = [backup EXCEPT !.pc = "done"]
        /\ UNCHANGED <<dir, server, deleted, restore, ops, faults>>
    BY <1>2 DEF BackupDone
  <2>2. /\ backup'.pc = "done" /\ backup'.quiet = backup.quiet
        /\ backup'.missing = backup.missing
        /\ backup' \in Backups
    BY <2>1 DEF BackupInv, Typed, Backups
  <2>3. Typed' /\ SourceOK'
    BY <2>1, <2>2 DEF BackupInv, Typed, SourceOK
  <2>4. BackupOK'
    BY <2>1, <2>2 DEF BackupInv, BackupOK
  <2>5. CopiesOK' /\ SoundOK' /\ RestoreOK'
    BY <2>1, <2>2 DEF BackupInv, CopiesOK, SoundOK, RestoreOK
  <2> QED
    BY <2>3, <2>4, <2>5 DEF BackupInv
<1> QED
  BY <1>1, <1>2

\* Backup writes to the snapshot only, removes nothing there, and no sound restore
\* runs meanwhile.
LEMMA SnapshotWritten ==
  ASSUME BackupInv, backup.pc \in {"meta", "parts"},
         dir' \in [Dirs -> Directories],
         dir'["source"] = dir["source"], dir'["target"] = dir["target"],
         \A h \in Parts : dir'["snapshot"].file[h] = "absent" => dir["snapshot"].file[h] = "absent",
         UNCHANGED <<server, deleted, restore, ops>>, faults' \in 0 .. MaxFaults,
         backup' \in Backups
  PROVE  Typed' /\ SourceOK' /\ CopiesOK' /\ SoundOK' /\ RestoreOK'
<1>1. Typed'
  BY DEF BackupInv, Typed
<1>2. SourceOK'
  BY DEF BackupInv, Typed, SourceOK
<1>3. CopiesOK'
  BY Types DEF BackupInv, CopiesOK
<1>4. SoundOK' /\ RestoreOK'
  BY DEF BackupInv, SoundOK, RestoreOK
<1> QED
  BY <1>1, <1>2, <1>3, <1>4

\* The copy of meta.redb is the database that was listed, if the source is quiet.
LEMMA BackupMetaOK ==
  ASSUME BackupInv, BackupMeta
  PROVE  BackupInv'
<1>1. /\ backup.pc = "meta" /\ backup' = [backup EXCEPT !.pc = "parts"]
      /\ UNCHANGED <<server, deleted, restore, ops, faults>>
  BY DEF BackupMeta
<1>2. PICK meta \in {dir["source"].meta} \cup (IF server = "source" THEN {Torn} ELSE {}) :
        dir' = [dir EXCEPT !["snapshot"].meta = meta]
  BY DEF BackupMeta
<1>3. meta \in Metas /\ (server # "source" => meta = dir["source"].meta)
  BY <1>2 DEF Metas, BackupInv, SourceOK
<1>4. /\ dir' \in [Dirs -> Directories]
      /\ dir'["snapshot"].meta = meta /\ dir'["snapshot"].file = dir["snapshot"].file
      /\ dir'["source"] = dir["source"] /\ dir'["target"] = dir["target"]
  BY <1>2, <1>3, SetMeta DEF BackupInv, Dirs
<1>5. /\ backup'.pc = "parts" /\ backup'.quiet = backup.quiet
      /\ backup'.missing = backup.missing /\ backup'.todo = backup.todo
      /\ backup' \in Backups
  BY <1>1 DEF BackupInv, Typed, Backups
<1>6. Typed' /\ SourceOK' /\ CopiesOK' /\ SoundOK' /\ RestoreOK'
  <2>1. faults' \in 0 .. MaxFaults
    BY <1>1 DEF BackupInv, Typed
  <2> QED
    BY <1>1, <1>4, <1>5, <2>1, SnapshotWritten
<1>7. BackupOK'
  BY <1>1, <1>3, <1>4, <1>5 DEF BackupInv, BackupOK, SourceOK
<1> QED
  BY <1>6, <1>7 DEF BackupInv

\* A part is copied whole, or is noted as missing.
LEMMA BackupPartOK ==
  ASSUME BackupInv, NEW h \in Parts, BackupPart(h)
  PROVE  BackupInv'
<1>1. /\ backup.pc = "parts" /\ h \in backup.todo
      /\ UNCHANGED <<server, deleted, restore, ops, faults>>
  BY DEF BackupPart
<1>2. /\ backup'.pc = "parts" /\ backup'.quiet = backup.quiet
      /\ backup'.todo = backup.todo \ {h}
      /\ \/ /\ dir' = dir /\ backup'.missing = backup.missing \cup {h}
         \/ /\ dir["source"].file[h] # "absent" /\ backup'.missing = backup.missing
            /\ dir' = [dir EXCEPT !["snapshot"].file[h] = dir["source"].file[h]]
      /\ backup' \in Backups
  <2>1. CASE dir["source"].file[h] = "absent"
    <3>1. dir' = dir /\ backup' = [backup EXCEPT !.todo = @ \ {h}, !.missing = @ \cup {h}]
      BY <2>1 DEF BackupPart
    <3> QED
      BY <1>1, <3>1 DEF BackupInv, Typed, Backups
  <2>2. CASE dir["source"].file[h] # "absent"
    <3>1. /\ backup' = [backup EXCEPT !.todo = @ \ {h}]
          /\ dir' = [dir EXCEPT !["snapshot"].file[h] = dir["source"].file[h]]
      BY <2>2 DEF BackupPart
    <3>2. /\ backup'.pc = "parts" /\ backup'.quiet = backup.quiet
          /\ backup'.todo = backup.todo \ {h} /\ backup'.missing = backup.missing
          /\ backup' \in Backups
      BY <1>1, <3>1 DEF BackupInv, Typed, Backups
    <3> QED
      BY <2>2, <3>1, <3>2
  <2> QED
    BY <2>1, <2>2
<1>3. /\ dir' \in [Dirs -> Directories]
      /\ dir'["snapshot"].meta = dir["snapshot"].meta
      /\ \A k \in Parts : k # h => dir'["snapshot"].file[k] = dir["snapshot"].file[k]
      /\ dir'["snapshot"].file[h] = "whole" \/ (dir' = dir /\ h \in backup'.missing)
      /\ dir'["source"] = dir["source"] /\ dir'["target"] = dir["target"]
  <2>1. CASE dir' = dir /\ backup'.missing = backup.missing \cup {h}
    BY <2>1, Types DEF BackupInv
  <2>2. CASE /\ dir["source"].file[h] # "absent"
             /\ dir' = [dir EXCEPT !["snapshot"].file[h] = dir["source"].file[h]]
    <3>1. dir["source"].file[h] = "whole"
      BY <2>2, Types DEF BackupInv, SourceOK, Dirs
    <3> QED
      BY <2>2, <3>1, SetFile DEF BackupInv, Dirs
  <2> QED
    BY <1>2, <2>1, <2>2
<1>4. Typed' /\ SourceOK' /\ CopiesOK' /\ SoundOK' /\ RestoreOK'
  <2>1. faults' \in 0 .. MaxFaults
    BY <1>1 DEF BackupInv, Typed
  <2> QED
    BY <1>1, <1>2, <1>3, <2>1, SnapshotWritten
<1>5. BackupOK'
  <2>1. backup.missing \subseteq backup'.missing
    BY <1>2
  <2>2. ASSUME backup'.quiet
        PROVE  /\ dir'["snapshot"].meta \in Databases
               /\ \A k \in PartsOf(Listed(dir'["snapshot"].meta)) :
                    \/ dir'["snapshot"].file[k] = "whole"
                    \/ k \in backup'.missing
                    \/ k \in backup'.todo
    <3>1. /\ dir["snapshot"].meta \in Databases
          /\ \A k \in PartsOf(Listed(dir["snapshot"].meta)) :
               \/ dir["snapshot"].file[k] = "whole"
               \/ k \in backup.missing
               \/ k \in backup.todo
      BY <1>1, <1>2, <2>2 DEF BackupInv, BackupOK
    <3>2. PartsOf(Listed(dir["snapshot"].meta)) \subseteq Parts
      BY <3>1, PartsOfDatabase
    <3> QED
      BY <1>2, <1>3, <2>1, <3>1, <3>2
  <2> QED
    BY <1>2, <2>2 DEF BackupOK
<1> QED
  BY <1>4, <1>5 DEF BackupInv

\* An interrupted backup tears a file of the snapshot and claims nothing.
LEMMA BackupInterruptedOK ==
  ASSUME BackupInv, BackupInterrupted
  PROVE  BackupInv'
<1>1. /\ faults < MaxFaults /\ faults' = faults + 1
      /\ backup' = [backup EXCEPT !.pc = "failed"] /\ UNCHANGED <<server, deleted, restore, ops>>
      /\ backup.pc \in {"meta", "parts"}
  BY DEF BackupInterrupted
<1>2. /\ dir' \in [Dirs -> Directories]
      /\ \A k \in Parts : \/ dir'["snapshot"].file[k] = dir["snapshot"].file[k]
                          \/ dir'["snapshot"].file[k] = "torn"
      /\ dir'["source"] = dir["source"] /\ dir'["target"] = dir["target"]
  <2>1. CASE dir' = [dir EXCEPT !["snapshot"].meta = Torn]
    BY <2>1, SetMeta DEF BackupInv, Dirs, Metas
  <2>2. ASSUME NEW h \in backup.todo, dir' = [dir EXCEPT !["snapshot"].file[h] = "torn"]
        PROVE  <1>2!:
    <3>1. h \in Parts
      BY Types DEF BackupInv
    <3> QED
      BY <2>2, <3>1, SetFile DEF BackupInv, Dirs
  <2> QED
    BY <2>1, <2>2 DEF BackupInterrupted
<1>3. /\ backup'.pc = "failed"
      /\ backup' \in Backups
  BY <1>1 DEF BackupInv, Typed, Backups
<1>4. Typed' /\ SourceOK' /\ CopiesOK' /\ SoundOK' /\ RestoreOK'
  <2>1. faults' \in 0 .. MaxFaults
    BY <1>1, BackupAssumption DEF BackupInv, Typed
  <2> QED
    BY <1>1, <1>2, <1>3, <2>1, SnapshotWritten
<1>5. BackupOK'
  BY <1>3 DEF BackupOK
<1> QED
  BY <1>4, <1>5 DEF BackupInv

------------------------------------------------------------------------------
(* restore.                                                                *)

\* Restore, and the operator, write to the target.
LEMMA TargetWritten ==
  ASSUME BackupInv, dir' \in [Dirs -> Directories],
         dir'["source"] = dir["source"], dir'["snapshot"] = dir["snapshot"],
         UNCHANGED <<server, deleted, backup, ops>>, faults' \in 0 .. MaxFaults, restore' \in Restores
  PROVE  Typed' /\ SourceOK' /\ BackupOK'
<1>1. Typed'
  BY DEF BackupInv, Typed
<1>2. SourceOK'
  BY DEF BackupInv, Typed, SourceOK
<1>3. BackupOK'
  BY DEF BackupInv, BackupOK
<1> QED
  BY <1>1, <1>2, <1>3

\* A restore that has only looked claims nothing.
LEMMA RestoreCheckOK ==
  ASSUME BackupInv, RestoreCheck
  PROVE  BackupInv'
<1>1. /\ restore' = [restore EXCEPT !.pc = "checked"]
      /\ UNCHANGED <<dir, server, deleted, backup, ops, faults>>
  BY DEF RestoreCheck
<1>2. restore'.pc = "checked" /\ restore' \in Restores
  BY <1>1 DEF BackupInv, Typed, Restores
<1>3. Typed' /\ SourceOK' /\ BackupOK'
  BY <1>1, <1>2 DEF BackupInv, Typed, SourceOK, BackupOK
<1>4. CopiesOK' /\ SoundOK' /\ RestoreOK'
  BY <1>1, <1>2 DEF BackupInv, CopiesOK, SoundOK, RestoreOK
<1> QED
  BY <1>3, <1>4 DEF BackupInv

\* The copy of meta.redb.  Of a sound snapshot every part that is referred to is
\* there, or is excused; a torn one is a leftover or was reported missing.
LEMMA RestoreMetaOK ==
  ASSUME BackupInv, RestoreMeta
  PROVE  BackupInv'
<1> DEFINE sound == backup.pc = "done" /\ backup.quiet /\ server # "target"
           db == dir["snapshot"].meta
           listed == IF sound THEN PartsOf(Listed(db)) ELSE {}
           named == IF sound THEN PartsOf(db.refs) ELSE {}
           r == [pc |-> "parts", todo |-> Present("snapshot"), sound |-> sound,
                 excused |-> backup.missing \cup (named \ listed),
                 leftover |-> Corrupted("snapshot") \ listed, lost |-> {}]
<1>1. restore' = r /\ UNCHANGED <<server, deleted, backup, ops, faults>>
  BY DEF RestoreMeta
<1>2. PICK meta \in {db} \cup (IF server = "target" THEN {Torn} ELSE {}) :
        dir' = [dir EXCEPT !["target"].meta = meta]
  BY DEF RestoreMeta
<1>3. meta \in Metas /\ (sound => meta = db)
  BY <1>2, Types DEF BackupInv, Dirs, Metas
<1>4. /\ dir' \in [Dirs -> Directories]
      /\ dir'["target"].meta = meta /\ dir'["target"].file = dir["target"].file
      /\ dir'["source"] = dir["source"] /\ dir'["snapshot"] = dir["snapshot"]
  BY <1>2, <1>3, SetMeta DEF BackupInv, Dirs
<1>5. ASSUME sound
      PROVE  /\ db \in Databases /\ PartsOf(db.refs) \subseteq Parts
             /\ \A h \in PartsOf(Listed(db)) :
                  dir["snapshot"].file[h] = "whole" \/ h \in backup.missing
  <2>1. /\ db \in Databases
        /\ \A h \in PartsOf(Listed(db)) :
             dir["snapshot"].file[h] = "whole" \/ h \in backup.missing
    BY <1>5 DEF BackupInv, BackupOK
  <2> QED
    BY <2>1, PartsOfDatabase
<1>6. listed \subseteq named \/ ~ sound
  BY <1>5, PartsOfDatabase
<1>7. /\ restore'.pc = "parts" /\ restore'.todo = Present("snapshot")
      /\ restore'.sound = sound
      /\ restore'.excused = backup.missing \cup (named \ listed)
      /\ restore'.leftover = Corrupted("snapshot") \ listed /\ restore'.lost = {}
  BY <1>1
<1>8. restore' \in Restores
  <2>1. backup.missing \subseteq Parts /\ named \ listed \subseteq Parts
    BY <1>5, Types DEF BackupInv
  <2>2. Present("snapshot") \subseteq Parts /\ Corrupted("snapshot") \ listed \subseteq Parts
    BY DEF Present, Corrupted
  <2>3. sound \in BOOLEAN
    BY DEF BackupInv, Typed, Backups
  <2> HIDE DEF named, listed, sound
  <2> QED
    BY <1>1, <2>1, <2>2, <2>3 DEF Restores
<1>9. Typed' /\ SourceOK' /\ BackupOK'
  <2>1. faults' \in 0 .. MaxFaults
    BY <1>1 DEF BackupInv, Typed
  <2> QED
    BY <1>1, <1>4, <1>8, <2>1, TargetWritten
<1>10. CopiesOK'
  BY <1>4, <1>7 DEF BackupInv, CopiesOK, Present
<1>11. SoundOK'
  <2>1. ASSUME sound, NEW h \in Parts, dir["snapshot"].file[h] = "torn"
        PROVE  h \in restore'.leftover \cup restore'.excused
    <3>1. h \in Corrupted("snapshot")
      BY <2>1 DEF Corrupted
    <3>2. h \in listed => h \in backup.missing
      BY <1>5, <2>1
    <3> HIDE DEF named, listed
    <3> QED
      BY <1>7, <3>1, <3>2
  <2> QED
    BY <1>1, <1>4, <1>7, <2>1 DEF SoundOK
<1>12. RestoreOK'
  <2>1. ASSUME sound, NEW h \in PartsOf(db.refs), h \notin restore'.excused
        PROVE  h \in restore'.todo
    <3>1. h \in Parts /\ h \in listed /\ h \notin backup.missing
      BY <1>5, <1>7, <2>1
    <3>2. dir["snapshot"].file[h] = "whole"
      BY <1>5, <2>1, <3>1
    <3> QED
      BY <1>7, <3>1, <3>2 DEF Present
  <2>2. ASSUME NEW h \in Parts, dir["target"].file[h] = "torn"
        PROVE  h \in restore'.todo
    BY <1>7, <2>2 DEF BackupInv, CopiesOK, Present
  <2> QED
    BY <1>3, <1>4, <1>5, <1>7, <2>1, <2>2 DEF RestoreOK
<1> QED
  BY <1>9, <1>10, <1>11, <1>12 DEF BackupInv

\* A part is copied over whatever the target has: it is whole, or torn as a leftover.
LEMMA RestorePartOK ==
  ASSUME BackupInv, NEW h \in Parts, RestorePart(h)
  PROVE  BackupInv'
<1>1. /\ restore.pc = "parts" /\ h \in restore.todo
      /\ dir' = [dir EXCEPT !["target"].file[h] = dir["snapshot"].file[h]]
      /\ restore' = [restore EXCEPT !.todo = @ \ {h}]
      /\ UNCHANGED <<server, deleted, backup, ops, faults>>
  BY DEF RestorePart
<1>2. dir["snapshot"].file[h] \in {"torn", "whole"}
  BY <1>1, Types DEF BackupInv, CopiesOK, Dirs
<1>3. /\ dir' \in [Dirs -> Directories]
      /\ dir'["target"].meta = dir["target"].meta
      /\ dir'["target"].file[h] = dir["snapshot"].file[h]
      /\ \A k \in Parts : k # h => dir'["target"].file[k] = dir["target"].file[k]
      /\ dir'["source"] = dir["source"] /\ dir'["snapshot"] = dir["snapshot"]
  BY <1>1, <1>2, SetFile DEF BackupInv, Dirs
<1>4. /\ restore'.pc = "parts" /\ restore'.todo = restore.todo \ {h}
      /\ restore'.sound = restore.sound /\ restore'.excused = restore.excused
      /\ restore'.leftover = restore.leftover /\ restore'.lost = restore.lost
      /\ restore' \in Restores
  BY <1>1 DEF BackupInv, Typed, Restores
<1>5. Typed' /\ SourceOK' /\ BackupOK'
  <2>1. faults' \in 0 .. MaxFaults
    BY <1>1 DEF BackupInv, Typed
  <2> QED
    BY <1>1, <1>3, <1>4, <2>1, TargetWritten
<1>6. CopiesOK'
  BY <1>1, <1>2, <1>3, <1>4 DEF BackupInv, CopiesOK
<1>7. SoundOK'
  BY <1>1, <1>3, <1>4 DEF BackupInv, SoundOK
<1>8. RestoreOK'
  <2> SUFFICES ASSUME restore.sound
               PROVE  RestoreOK'
    BY <1>4 DEF RestoreOK
  <2>1. /\ dir["target"].meta \in Databases
        /\ \A k \in PartsOf(dir["target"].meta.refs) \ restore.excused :
             dir["target"].file[k] # "absent" \/ k \in restore.todo \/ k \in restore.lost
        /\ \A k \in Parts \ restore.excused :
             dir["target"].file[k] = "torn" => k \in restore.leftover \/ k \in restore.todo
    BY <1>1 DEF BackupInv, RestoreOK
  <2>2. PartsOf(dir["target"].meta.refs) \subseteq Parts
    BY <2>1, PartsOfDatabase
  <2>3. dir["snapshot"].file[h] = "torn" => h \in restore.leftover \cup restore.excused
    BY <1>1 DEF BackupInv, SoundOK
  <2>4. ASSUME NEW k \in PartsOf(dir["target"].meta.refs) \ restore.excused
        PROVE  \/ dir'["target"].file[k] # "absent"
               \/ k \in restore'.todo
               \/ k \in restore'.lost
    BY <1>2, <1>3, <1>4, <2>1, <2>2
  <2>5. ASSUME NEW k \in Parts \ restore.excused, dir'["target"].file[k] = "torn"
        PROVE  k \in restore.leftover \/ k \in restore'.todo
    BY <1>3, <1>4, <2>1, <2>3, <2>5
  <2> QED
    BY <1>3, <1>4, <2>1, <2>4, <2>5 DEF RestoreOK
<1> QED
  BY <1>5, <1>6, <1>7, <1>8 DEF BackupInv

\* The end of a restore.
LEMMA RestoreDoneOK ==
  ASSUME BackupInv, RestoreDone
  PROVE  BackupInv'
<1>1. /\ restore.pc = "parts" /\ restore.todo = {}
      /\ restore' = [restore EXCEPT !.pc = "done"]
      /\ UNCHANGED <<dir, server, deleted, backup, ops, faults>>
  BY DEF RestoreDone
<1>2. /\ restore'.pc = "done" /\ restore'.sound = restore.sound
      /\ restore'.excused = restore.excused /\ restore'.leftover = restore.leftover
      /\ restore'.lost = restore.lost /\ restore' \in Restores
  BY <1>1 DEF BackupInv, Typed, Restores
<1>3. Typed' /\ SourceOK' /\ BackupOK'
  <2>1. faults' \in 0 .. MaxFaults
    BY <1>1 DEF BackupInv, Typed
  <2> QED
    BY <1>1, <1>2, <2>1, TargetWritten, Types DEF BackupInv
<1>4. CopiesOK' /\ SoundOK'
  BY <1>1, <1>2 DEF BackupInv, CopiesOK, SoundOK
<1>5. RestoreOK'
  BY <1>1, <1>2 DEF BackupInv, RestoreOK
<1> QED
  BY <1>3, <1>4, <1>5 DEF BackupInv

\* An interrupted restore, and the operator who clears its database, claim nothing;
\* a part that is torn in the target is one of the snapshot.
LEMMA RestoreEndOK ==
  ASSUME BackupInv, RestoreInterrupted \/ ClearTarget
  PROVE  BackupInv'
<1>1. /\ faults' \in 0 .. MaxFaults /\ UNCHANGED <<server, deleted, backup, ops>>
      /\ restore' = [restore EXCEPT !.pc = "failed"] \/ restore' = [restore EXCEPT !.pc = "idle"]
  BY BackupAssumption DEF BackupInv, Typed, RestoreInterrupted, ClearTarget
<1>2. restore'.pc \in {"failed", "idle"} /\ restore' \in Restores
  BY <1>1 DEF BackupInv, Typed, Restores
<1>3. /\ dir' \in [Dirs -> Directories]
      /\ \A k \in Parts : \/ dir'["target"].file[k] = dir["target"].file[k]
                          \/ dir["snapshot"].file[k] # "absent"
      /\ dir'["source"] = dir["source"] /\ dir'["snapshot"] = dir["snapshot"]
  <2>1. CASE \E m \in {NoFile, Torn, dir["target"].meta} :
               dir' = [dir EXCEPT !["target"].meta = m]
    BY <2>1, SetMeta, Types DEF BackupInv, Dirs, Metas
  <2>2. ASSUME NEW h \in restore.todo, restore.pc = "parts",
               dir' = [dir EXCEPT !["target"].file[h] = "torn"]
        PROVE  <1>3!:
    <3>1. h \in Parts /\ dir["snapshot"].file[h] # "absent"
      BY <2>2, Types DEF BackupInv, CopiesOK
    <3> QED
      BY <2>2, <3>1, SetFile DEF BackupInv, Dirs
  <2> QED
    BY <2>1, <2>2 DEF RestoreInterrupted, ClearTarget
<1>4. Typed' /\ SourceOK' /\ BackupOK'
  BY <1>1, <1>2, <1>3, TargetWritten
<1>5. CopiesOK' /\ SoundOK' /\ RestoreOK'
  BY <1>2, <1>3 DEF BackupInv, CopiesOK, SoundOK, RestoreOK
<1> QED
  BY <1>4, <1>5 DEF BackupInv

------------------------------------------------------------------------------
(* The theorems.                                                           *)

\* Every step of the server, of the commands and of the operator keeps the
\* invariant.
LEMMA BackupInvariant == Spec => []BackupInv
<1>1. Init => BackupInv
  <2> SUFFICES ASSUME Init
               PROVE  BackupInv
    OBVIOUS
  <2> DEFINE none == [h \in Parts |-> "absent"]
  <2>1. Empty \in Databases /\ none \in Files /\ \A h \in Parts : none[h] = "absent"
    BY DEF Empty, Databases, Files
  <2> HIDE DEF none
  <2>2. dir = [d \in Dirs |-> [meta |-> IF d = "source" THEN Empty ELSE NoFile, file |-> none]]
    BY DEF Init, none, Dirs
  <2>3. \A d \in Dirs : /\ dir[d].meta = (IF d = "source" THEN Empty ELSE NoFile)
                        /\ dir[d].file = none /\ dir[d] \in Directories
    BY <2>1, <2>2 DEF Directories, Metas
  <2>4. dir \in [Dirs -> Directories]
    BY <2>2, <2>3
  <2>5. Typed
    BY <2>4, BackupAssumption DEF Init, Typed, Backups, Restores
  <2>6. SourceOK /\ BackupOK /\ CopiesOK /\ SoundOK /\ RestoreOK
    BY <2>1, <2>3 DEF Init, Dirs, SourceOK, BackupOK, CopiesOK, SoundOK, RestoreOK
  <2> QED
    BY <2>5, <2>6 DEF BackupInv
<1>2. BackupInv /\ [Next]_vars => BackupInv'
  <2> SUFFICES ASSUME BackupInv, [Next]_vars
               PROVE  BackupInv'
    OBVIOUS
  <2>1. CASE UNCHANGED vars
    BY <2>1 DEF vars, BackupInv, Typed, SourceOK, BackupOK, CopiesOK, SoundOK, RestoreOK
  <2>2. CASE Next
    BY <2>2, StartStopOK, RequestOK, LosePartOK, BackupControlOK, BackupMetaOK, BackupPartOK,
       BackupInterruptedOK, RestoreCheckOK, RestoreMetaOK, RestorePartOK, RestoreDoneOK, RestoreEndOK DEF Next
  <2> QED
    BY <2>1, <2>2
<1> QED
  BY <1>1, <1>2, PTL DEF Spec

\* Every variable always has its type.
THEOREM BackupTypeCorrect == Spec => []TypeOK
<1>1. BackupInv => TypeOK
  BY DEF BackupInv, Typed, CopiesOK, TypeOK, Present, Backups, Restores, Dirs, Directories,
       Metas
<1> QED
  BY <1>1, BackupInvariant, PTL

\* The snapshot of a backup that ended well, and had the source to itself, opens and
\* has every part that a listed bucket refers to, or the part was reported missing.
THEOREM BackupIsComplete == Spec => []SnapshotComplete
<1>1. BackupInv => SnapshotComplete
  BY DEF BackupInv, BackupOK, SnapshotComplete
<1> QED
  BY <1>1, BackupInvariant, PTL

\* A directory restored from such a snapshot has the parts of every object it lists,
\* but for the ones that were excused, the leftovers that a scan reports and what was
\* lost on it since.
THEOREM RestoreIsWhole == Spec => []RestoredIsWhole
<1>1. BackupInv => RestoredIsWhole
  <2> SUFFICES ASSUME BackupInv, restore.pc = "done", restore.sound
               PROVE  /\ dir["target"].meta \in Databases
                      /\ \A h \in PartsOf(Listed(dir["target"].meta)) \ restore.excused :
                           \/ dir["target"].file[h] = "whole"
                           \/ h \in restore.leftover \cap Corrupted("target")
                           \/ h \in restore.lost \ Present("target")
    BY DEF RestoredIsWhole
  <2>1. /\ dir["target"].meta \in Databases
        /\ \A h \in PartsOf(dir["target"].meta.refs) \ restore.excused :
             dir["target"].file[h] # "absent" \/ h \in restore.lost
        /\ \A h \in Parts \ restore.excused :
             dir["target"].file[h] = "torn" => h \in restore.leftover
    BY DEF BackupInv, RestoreOK
  <2>2. /\ PartsOf(Listed(dir["target"].meta)) \subseteq PartsOf(dir["target"].meta.refs)
        /\ PartsOf(dir["target"].meta.refs) \subseteq Parts
    BY <2>1, PartsOfDatabase
  <2>3. \A h \in Parts : dir["target"].file[h] \in {"absent", "torn", "whole"}
    BY Types DEF BackupInv, Dirs
  <2> QED
    BY <2>1, <2>2, <2>3 DEF Corrupted, Present
<1> QED
  BY <1>1, BackupInvariant, PTL

==============================================================================
