----------------------------- MODULE ObjectStore -----------------------------
(***************************************************************************)
(* The data path of s3lite: request handlers, the part files on disk and   *)
(* the two garbage collectors, over the metadata store of MetaStore.       *)
(*                                                                         *)
(* A handler is an async function that awaits the metadata actor and the   *)
(* file system in turn; between two awaits other handlers and the          *)
(* maintenance task run.  Each worker therefore has a program counter and  *)
(* every step does one awaited operation, which is atomic: a transaction   *)
(* of the actor, or one system call on a part file.  Reads that only feed  *)
(* an early return (preconditions, digests, lock checks) are left out:     *)
(* they can only end a request before it changes anything.                 *)
(*                                                                         *)
(*   write    the body is still to be stored (parts.write_bytes)           *)
(*   resolve  the source of a copy is still to be looked up                *)
(*   read     the bytes of a part copy are still to be read                *)
(*   commit   the metadata transaction is still to be sent                 *)
(*   gc       the freed parts are being collected: mark the next one       *)
(*   unlink   cur is marked, its file is still to be deleted               *)
(*   remove   its row is still to be removed                               *)
(*                                                                         *)
(* A client that disconnects drops its handler's future at any await, and  *)
(* the process may crash; tables and part files survive both.              *)
(***************************************************************************)
EXTENDS MetaStore

CONSTANTS
  Clients,      \* concurrent requests
  Sweeper,      \* the maintenance task
  Workload,     \* the kinds of request that clients send in this instance
  MaxInFlight,  \* bound: workers active at a time
  MaxFaults     \* bound: crashes, disconnects and failed unlinks

Requests == {"put", "delete", "deleteVersion", "copy", "create",
             "uploadPart", "uploadPartCopy", "complete", "abort",
             "createBucket", "createLockedBucket", "deleteBucket", "versioning"}

ASSUME ObjectAssumption ==
  /\ Sweeper \notin Clients
  /\ Workload \subseteq Requests
  /\ MaxInFlight \in Nat
  /\ MaxFaults \in Nat

Workers == Clients \cup {Sweeper}

VARIABLES
  files,   \* content addresses that have a file under parts/
  used,    \* version ids and upload ids handed out so far
  work,    \* what each worker is doing
  faults   \* faults so far, for the bound

vars == <<buckets, objects, parts, files, used, work, faults>>

Pcs == {"idle", "write", "resolve", "read", "commit", "gc", "unlink", "remove"}

\* key: the manifest the request writes or deletes.  hash, number: content and
\* part number of an upload.  snap: a manifest read in an earlier step, or the
\* one to be committed that was built from it.  fresh: the manifest gets a new
\* uuid as its version id.  freed: parts still to collect; cur: the one at hand.
Work == [op : Requests \cup {"none", "marker", "sweep"},
         pc : Pcs,
         key : ManifestKeys \cup {Absent},
         hash : Hashes \cup {Absent},
         number : PartNumbers \cup {Absent},
         snap : Manifests \cup {Absent},
         fresh : BOOLEAN,
         freed : SUBSET Hashes,
         cur : Hashes \cup {Absent}]

Idle == [op |-> "none", pc |-> "idle", key |-> Absent, hash |-> Absent,
         number |-> Absent, snap |-> Absent, fresh |-> FALSE, freed |-> {},
         cur |-> Absent]

Init ==
  /\ MetaInit
  /\ files = {}
  /\ used = {}
  /\ work = [w \in Workers |-> Idle]
  /\ faults = 0

------------------------------------------------------------------------------
(* Requests arrive.  A handler's first step is its first await.            *)

Active == {w \in Workers : work[w].pc # "idle"}

FreshIds == VersionIds \ (used \cup {NullVersion})

\* Worker w starts on a request r.
Start(w, r) ==
  /\ work[w].pc = "idle"
  /\ Cardinality(Active) < MaxInFlight
  /\ work' = [work EXCEPT ![w] = r]
  /\ UNCHANGED <<buckets, objects, parts, files, used, faults>>

Request(op, pc, key) == [Idle EXCEPT !.op = op, !.pc = pc, !.key = key]

\* Where a write goes, next_version_id: to a fresh uuid if the bucket's
\* versioning is Enabled when the handler reads it, to "null" otherwise.
NullKey(b, key) == [bucket |-> b, key |-> key, version_id |-> NullVersion]

NeedsId(b) == buckets[b].versioning = "Enabled"

\* Bound: enough unused ids for every active worker that will need one.
IdAvailable == Cardinality(FreshIds) > Cardinality({w \in Workers : work[w].fresh})

\* The keys the manifest of request r may be stored under.
TargetKeys(r) ==
  IF r.fresh THEN {[r.key EXCEPT !.version_id = v] : v \in FreshIds}
             ELSE {r.key}

\* put_object, up to require_bucket.
BeginPut(c) ==
  \E b \in Buckets, key \in Keys, h \in Hashes :
    /\ "put" \in Workload
    /\ buckets[b] # Absent
    /\ NeedsId(b) => IdAvailable
    /\ Start(c, [Request("put", "write", NullKey(b, key)) EXCEPT
                   !.hash = h, !.fresh = NeedsId(b)])

\* delete_object without a version id: a permanent delete while versioning is
\* Off, a delete marker once it has been Enabled or Suspended.
BeginDelete(c) ==
  \E b \in Buckets, key \in Keys :
    /\ "delete" \in Workload
    /\ buckets[b] # Absent
    /\ NeedsId(b) => IdAvailable
    /\ Start(c, [Request(IF buckets[b].versioning = "Off" THEN "delete" ELSE "marker",
                         "commit", NullKey(b, key)) EXCEPT
                   !.fresh = NeedsId(b)])

\* delete_object with a version id, which may also be the id of an upload.
BeginDeleteVersion(c) ==
  \E k \in ManifestKeys :
    /\ "deleteVersion" \in Workload
    /\ buckets[k.bucket] # Absent
    /\ Start(c, Request("deleteVersion", "commit", k))

\* copy_object, up to the lookup of the destination bucket.
BeginCopy(c) ==
  \E b \in Buckets, key \in Keys :
    /\ "copy" \in Workload
    /\ buckets[b] # Absent
    /\ NeedsId(b) => IdAvailable
    /\ Start(c, [Request("copy", "resolve", NullKey(b, key)) EXCEPT
                   !.fresh = NeedsId(b)])

\* create_multipart_upload, up to require_bucket.
BeginCreate(c) ==
  \E b \in Buckets, key \in Keys :
    /\ "create" \in Workload
    /\ buckets[b] # Absent
    /\ IdAvailable
    /\ Start(c, [Request("create", "commit", NullKey(b, key)) EXCEPT !.fresh = TRUE])

\* upload_part: nothing is looked up before the body is stored, so the upload
\* id may be that of no upload, of a committed version, or "null".
BeginUploadPart(c) ==
  \E k \in ManifestKeys, n \in PartNumbers, h \in Hashes :
    /\ "uploadPart" \in Workload
    /\ Start(c, [Request("uploadPart", "write", k) EXCEPT !.number = n, !.hash = h])

\* upload_part_copy, the same with a source to look up first.
BeginUploadPartCopy(c) ==
  \E k \in ManifestKeys, n \in PartNumbers :
    /\ "uploadPartCopy" \in Workload
    /\ Start(c, [Request("uploadPartCopy", "resolve", k) EXCEPT !.number = n])

\* The part lists a CompleteMultipartUpload body may select from an upload.
Selections(list) ==
  {sel \in PartLists :
     /\ sel # NoParts
     /\ \A n \in PartNumbers : sel[n] \in {Absent, list[n]}}

\* complete_multipart_upload, up to the read of the upload: the object to be
\* committed is built from what the upload holds now.
BeginComplete(c) ==
  \E k \in ManifestKeys, now \in Times :
    /\ "complete" \in Workload
    /\ objects[k] # Absent
    /\ objects[k].state = "InProgress"
    /\ \E sel \in Selections(objects[k].parts) :
         Start(c, [Request("complete", "commit", k) EXCEPT
                     !.snap = Completed(objects[k], sel, now)])

\* abort_multipart_upload, up to the check that there is an upload to abort.
BeginAbort(c) ==
  \E k \in ManifestKeys :
    /\ "abort" \in Workload
    /\ objects[k] # Absent
    /\ objects[k].state = "InProgress"
    /\ Start(c, Request("abort", "commit", k))

Begin(c) ==
  \/ BeginPut(c)
  \/ BeginDelete(c)
  \/ BeginDeleteVersion(c)
  \/ BeginCopy(c)
  \/ BeginCreate(c)
  \/ BeginUploadPart(c)
  \/ BeginUploadPartCopy(c)
  \/ BeginComplete(c)
  \/ BeginAbort(c)

------------------------------------------------------------------------------
(* The middle of a handler: the source of a copy and the body.             *)

\* resolve_source: by version id, or the latest version of the key; either way
\* the source must be a committed object.
Sources ==
  {k \in ManifestKeys :
     /\ objects[k] # Absent
     /\ objects[k].state = "Committed"
     /\ objects[k].kind = "Object"}

Resolve(c) ==
  /\ work[c].pc = "resolve"
  /\ \E k \in Sources :
       work' = [work EXCEPT ![c].snap = objects[k],
                            ![c].pc = IF work[c].op = "copy" THEN "commit" ELSE "read"]
  /\ UNCHANGED <<buckets, objects, parts, files, used, faults>>

\* No such source: the request fails.
ResolveFails(c) ==
  /\ work[c].pc = "resolve"
  /\ work' = [work EXCEPT ![c] = Idle]
  /\ UNCHANGED <<buckets, objects, parts, files, used, faults>>

\* read_source_range: a range may cover any of the source's parts, and what it
\* holds may be any content; it fails when a file it needs is not there.
ReadSource(c) ==
  /\ work[c].pc = "read"
  /\ \E n \in PartNumbers, h \in Hashes :
       /\ work[c].snap.parts[n] # Absent
       /\ work' = [work EXCEPT ![c] =
                     IF work[c].snap.parts[n] \in files
                     THEN [@ EXCEPT !.pc = "write", !.hash = h, !.snap = Absent]
                     ELSE Idle]
  /\ UNCHANGED <<buckets, objects, parts, files, used, faults>>

\* PartStore::write_stream.  The body goes to a temporary file of its own; then
\* either the content is there already and the temporary file is dropped, or it
\* is renamed into place.  Both ways the file is there at that moment.
WriteBytes(c) ==
  /\ work[c].pc = "write"
  /\ files' = files \cup {work[c].hash}
  /\ work' = [work EXCEPT ![c].pc = "commit"]
  /\ UNCHANGED <<buckets, objects, parts, used, faults>>

------------------------------------------------------------------------------
(* The transaction of a handler.                                           *)

\* What is left to do with a set of freed parts: collect them one by one.
Collecting(r, freed) ==
  IF freed = {} THEN Idle
  ELSE [Idle EXCEPT !.op = r.op, !.pc = "gc", !.freed = freed]

\* put_manifest for a manifest m of client c, with the version id it needs.
Publish(c, m) ==
  \E k \in TargetKeys(work[c]) :
    /\ PutManifest(k, m)
    /\ used' = used \cup ({k.version_id} \ {NullVersion})
    /\ work' = [work EXCEPT ![c] = Collecting(@, PutManifestFreed(k, m))]
    /\ UNCHANGED <<files, faults>>

\* put_object: tags and lock come from the request's headers, the lock else
\* from the bucket's default retention.
CommitPut(c) ==
  /\ work[c].pc = "commit" /\ work[c].op = "put"
  /\ \E lock \in Locks, tags \in Tags, now \in Times :
       Publish(c, NewObject(work[c].hash, lock, tags, now))

CommitMarker(c) ==
  /\ work[c].pc = "commit" /\ work[c].op = "marker"
  /\ \E now \in Times : Publish(c, Tombstone(now))

\* copy_object: the tags are the source's or, with the directive REPLACE, none.
CommitCopy(c) ==
  /\ work[c].pc = "commit" /\ work[c].op = "copy"
  /\ \E tags \in {work[c].snap.tags, NoTags}, now \in Times :
       Publish(c, CopyOf(work[c].snap, tags, now))

CommitCreate(c) ==
  /\ work[c].pc = "commit" /\ work[c].op = "create"
  /\ \E now \in Times : Publish(c, NewUpload(now))

\* Mutant of CommitDelete: the row goes, its parts are not given back.
CommitDeleteRowOnly(c) ==
  /\ work[c].pc = "commit"
  /\ work[c].op \in {"delete", "deleteVersion", "abort"}
  /\ objects[work[c].key] # Absent
  /\ objects' = [objects EXCEPT ![work[c].key] = Absent]
  /\ work' = [work EXCEPT ![c] = Idle]
  /\ UNCHANGED <<buckets, parts, files, used, faults>>

\* delete_manifest, for the three handlers that end in it.
CommitDelete(c) ==
  /\ work[c].pc = "commit"
  /\ work[c].op \in {"delete", "deleteVersion", "abort"}
  /\ DeleteManifest(work[c].key)
  /\ work' = [work EXCEPT ![c] = Collecting(@, DeleteManifestFreed(work[c].key))]
  /\ UNCHANGED <<files, used, faults>>

CommitUploadPart(c) ==
  /\ work[c].pc = "commit"
  /\ work[c].op \in {"uploadPart", "uploadPartCopy"}
  /\ \E now \in Times : AppendPart(work[c].key, work[c].number, work[c].hash, now)
  /\ work' = [work EXCEPT ![c] =
                Collecting(@, AppendPartFreed(@.key, @.number, @.hash))]
  /\ UNCHANGED <<files, used, faults>>

CommitComplete(c) ==
  LET k == work[c].key
  IN  /\ work[c].pc = "commit" /\ work[c].op = "complete"
      /\ CompleteMultipart(k, CompletedKey(k), work[c].snap)
      /\ work' = [work EXCEPT ![c] =
                    Collecting(@, CompleteMultipartFreed(k, CompletedKey(k), @.snap))]
      /\ UNCHANGED <<files, used, faults>>

\* The lists of parts whose refcounts the transaction of request r increments.
Referenced(r) ==
  CASE r.op = "put" -> Single(1, r.hash)
    [] r.op \in {"uploadPart", "uploadPartCopy"} -> Single(r.number, r.hash)
    [] r.op \in {"copy", "complete"} -> r.snap.parts
    [] OTHER -> NoParts

\* The actor answers with an error: a part is GcPending, or the manifest that
\* the operation needs is gone.  The handler returns; nothing has changed.
CommitRefused(c) ==
  /\ work[c].pc = "commit"
  /\ \/ ~ Referenceable(parts, Referenced(work[c]))
     \/ /\ work[c].op \in {"delete", "deleteVersion", "abort", "uploadPart",
                           "uploadPartCopy", "complete"}
        /\ objects[work[c].key] = Absent
     \/ /\ work[c].op = "complete"
        /\ objects[work[c].key] # Absent
        /\ objects[work[c].key].state # "InProgress"
  /\ work' = [work EXCEPT ![c] = Idle]
  /\ UNCHANGED <<buckets, objects, parts, files, used, faults>>

Commit(c) ==
  \/ CommitPut(c)
  \/ CommitMarker(c)
  \/ CommitCopy(c)
  \/ CommitCreate(c)
  \/ CommitDelete(c)
  \/ CommitUploadPart(c)
  \/ CommitComplete(c)
  \/ CommitRefused(c)

------------------------------------------------------------------------------
(* Garbage collection: mark the row, unlink the file, remove the row.      *)
(* Handlers collect what their own transaction freed (gc_freed_parts), the *)
(* maintenance task what it finds with refcount zero (sweep_gc).           *)

SweepStart ==
  /\ ListOrphanParts # {}
  /\ Start(Sweeper, [Idle EXCEPT !.op = "sweep", !.pc = "gc",
                                 !.freed = ListOrphanParts])

\* Mutant of GcMark: goes straight on to the unlink.
GcMarkSkipped(w) ==
  /\ work[w].pc = "gc"
  /\ \E h \in work[w].freed :
       /\ Markable(h)
       /\ work' = [work EXCEPT ![w].pc = "unlink", ![w].cur = h,
                               ![w].freed = @ \ {h}]
  /\ UNCHANGED <<buckets, objects, parts, files, used, faults>>

GcMark(w) ==
  /\ work[w].pc = "gc"
  /\ \E h \in work[w].freed :
       /\ MarkGcPending(h)
       /\ work' = [work EXCEPT ![w].pc = "unlink", ![w].cur = h,
                               ![w].freed = @ \ {h}]
  /\ UNCHANGED <<files, used, faults>>

\* The part has been referenced again, or its row is gone: leave it alone.
GcSkip(w) ==
  /\ work[w].pc = "gc"
  /\ \E h \in work[w].freed :
       /\ ~ Markable(h)
       /\ work' = [work EXCEPT ![w] = Collecting(@, @.freed \ {h})]
  /\ UNCHANGED <<buckets, objects, parts, files, used, faults>>

\* Mutant of GcUnlink: the file stays and only its row will go.
GcUnlinkSkipped(w) ==
  /\ work[w].pc = "unlink"
  /\ work' = [work EXCEPT ![w].pc = "remove"]
  /\ UNCHANGED <<buckets, objects, parts, files, used, faults>>

\* PartStore::delete, for which a file that is not there is no error.
GcUnlink(w) ==
  /\ work[w].pc = "unlink"
  /\ files' = files \ {work[w].cur}
  /\ work' = [work EXCEPT ![w].pc = "remove"]
  /\ UNCHANGED <<buckets, objects, parts, used, faults>>

\* Mutant of GcRemove: the row is forgotten once the file is gone.
GcRemoveForgotten(w) ==
  /\ work[w].pc = "remove"
  /\ work' = [work EXCEPT ![w] = Collecting(@, @.freed)]
  /\ UNCHANGED <<buckets, objects, parts, files, used, faults>>

\* remove_part, whatever has happened to the row since it was marked.
GcRemove(w) ==
  /\ work[w].pc = "remove"
  /\ RemovePart(work[w].cur)
  /\ work' = [work EXCEPT ![w] = Collecting(@, @.freed)]
  /\ UNCHANGED <<files, used, faults>>

Collect(w) == GcMark(w) \/ GcSkip(w) \/ GcUnlink(w) \/ GcRemove(w)

------------------------------------------------------------------------------
(* Bucket requests: one operation of the actor each.                       *)

BucketRequest ==
  /\ \E b \in Buckets :
       \/ "createBucket" \in Workload /\ CreateBucket(b, NewBucket(FALSE))
       \/ "createLockedBucket" \in Workload /\ CreateBucket(b, NewBucket(TRUE))
       \/ "deleteBucket" \in Workload /\ DeleteBucket(b)
       \/ /\ "versioning" \in Workload
          /\ \E v \in {"Enabled", "Suspended"} : UpdateBucketVersioning(b, v)
  /\ UNCHANGED <<files, used, work, faults>>

------------------------------------------------------------------------------
(* Faults.                                                                 *)

\* The client goes away and the server drops the handler where it stands, or
\* the handler returns early with an error (a body that cannot be written, a
\* header that does not parse).
Disconnect(c) ==
  /\ work[c].pc # "idle"
  /\ faults < MaxFaults
  /\ work' = [work EXCEPT ![c] = Idle]
  /\ faults' = faults + 1
  /\ UNCHANGED <<buckets, objects, parts, files, used>>

\* The process stops and is started again: every transaction that committed
\* and every file that was renamed into place is still there.
Crash ==
  /\ Active # {}
  /\ faults < MaxFaults
  /\ work' = [w \in Workers |-> Idle]
  /\ faults' = faults + 1
  /\ UNCHANGED <<buckets, objects, parts, files, used>>

\* The unlink fails: a handler logs it and removes the row all the same, the
\* sweeper goes on with the next part and leaves the row as it is.
GcUnlinkFails(w) ==
  /\ work[w].pc = "unlink"
  /\ faults < MaxFaults
  /\ work' = [work EXCEPT ![w] =
                IF w = Sweeper THEN Collecting(@, @.freed)
                               ELSE [@ EXCEPT !.pc = "remove"]]
  /\ faults' = faults + 1
  /\ UNCHANGED <<buckets, objects, parts, files, used>>

------------------------------------------------------------------------------

\* What a worker does once it has started.
Continue(w) ==
  \/ Resolve(w)
  \/ ResolveFails(w)
  \/ ReadSource(w)
  \/ WriteBytes(w)
  \/ Commit(w)
  \/ Collect(w)

Next ==
  \/ \E c \in Clients : Begin(c) \/ Disconnect(c)
  \/ \E w \in Workers : Continue(w) \/ GcUnlinkFails(w)
  \/ SweepStart
  \/ BucketRequest
  \/ Crash

Spec == Init /\ [][Next]_vars

\* The runtime polls every task that can go on and the actor answers every
\* operation; the maintenance task sweeps again and again.
Fairness ==
  /\ \A w \in Workers : WF_vars(Continue(w))
  /\ WF_vars(SweepStart)

FairSpec == Spec /\ Fairness

------------------------------------------------------------------------------
(* Properties.                                                             *)

\* The tables and every worker hold values of their types.
TypeOK ==
  /\ MetaTypeOK
  /\ files \subseteq Hashes
  /\ used \subseteq VersionIds
  /\ work \in [Workers -> Work]
  /\ faults \in 0..MaxFaults

\* Every part that a manifest names has its file on disk: no object, and no
\* part of an upload in progress, has lost its data.
ReferencedPartsOnDisk ==
  \A h \in Hashes : References(h) # {} => h \in files

\* Someone will still take care of the file of h: GC by its row, or a worker
\* that has stored it and not yet committed, or is deleting it.
Accounted(h) ==
  parts[h] # Absent \/ \E w \in Workers : h \in {work[w].hash, work[w].cur}

\* The request of w is a part upload that the actor turns down in this step.
UploadRefused(w) ==
  /\ work[w].op \in {"uploadPart", "uploadPartCopy"}
  /\ work[w].pc = "commit" /\ work[w]'.pc = "idle"
  /\ UNCHANGED parts

\* No sweep looks for files without a PARTS row, so such a file is there for
\* ever.  With one worker at a time only two things leave one behind: a fault
\* after the rename and before the transaction (or a failed unlink), and
\* upload_part, which stores the body before it finds that there is no upload.
LeaksOnlyByFault ==
  [][\A h \in Hashes :
       Accounted(h) /\ ~ Accounted(h)' /\ h \in files'
         => faults' > 0 \/ \E c \in Clients : UploadRefused(c)]_vars

\* A version or an upload that has been deleted, aborted or completed never
\* comes back: no late upload_part, second completion or slow copy recreates
\* the row of an id that was handed out before.
NoResurrection ==
  [][\A k \in ManifestKeys :
       k.version_id \in used /\ objects[k] = Absent => objects'[k] = Absent]_vars

\* A part with refcount zero is in the end either collected, or referenced
\* again: GC leaves no part behind.
OrphansReclaimed ==
  \A h \in Hashes :
    (parts[h] # Absent /\ Refcount(h) = 0)
      ~> (parts[h] = Absent \/ Refcount(h) > 0)

==============================================================================
